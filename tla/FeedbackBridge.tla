---------------------------- MODULE FeedbackBridge ----------------------------
(***************************************************************************)
(* The feedback bridge: a developer's command in a comment of the pull     *)
(* request becomes a decision or a quality row, a reaction, and at most    *)
(* one explanation.                                                        *)
(*                                                                         *)
(* A handler is a thread of the HTTP server working on one delivery.  A    *)
(* step is one request to GitHub or the one transaction of the command.    *)
(* A delivery's job gives up after a minute and can be run again by hand   *)
(* while its first handler still works.                                    *)
(***************************************************************************)
EXTENDS Naturals, FiniteSets, Sequences

CONSTANTS
    Comments,       \* comments of the pull request
    Commands,       \* what they may say, and who may write it
    Handlers,       \* the slots of the server's semaphore
    Findings,       \* findings, each with its local reference
    MaxReviews,     \* bound: reviews posted
    MaxDeliveries,  \* bound: deliveries and deliveries run again
    MaxFaults       \* bound: failing requests and restarts

\* An author is "allowed", a "member" who is not on the allowlist, or an
\* "outsider"; a finding is named by "finding" and "scope" commands.
\* "review" is a comment that only asks for a review.
Kinds == {"finding", "scope", "missed", "intentional", "malformed", "plain", "review"}

Command == [author : {"allowed", "member", "outsider"}, kind : Kinds,
            finding : Findings]

ASSUME FeedbackAssumption ==
    /\ Commands \subseteq Command
    /\ IsFiniteSet(Handlers) /\ IsFiniteSet(Comments) /\ Comments # {}
    /\ {MaxReviews, MaxDeliveries, MaxFaults} \subseteq Nat

VARIABLES
    says,       \* says[c]: the command of comment c
    reviews,    \* the reviews posted
    current,    \* the number of the current one, 0 if there is none
    open,       \* the pull request is open
    closed,     \* it has been closed at some time
    unfound,    \* the comments one of whose handlers was answered 404 for it
    handlers,   \* handlers[h]: a delivery, how far it is, and its message
    events,     \* events[c]: the outcome stored in processed_feedback_events
    records,    \* decisions and quality rows, with their comment
    reactions,  \* reactions[c]: the reactions of the bridge to c
    told,       \* told[c]: how many explanations c has got
    left        \* what is left of the bounds

reviewVars == <<reviews, current>>
pullVars == <<open, closed, unfound>>
vars == <<says, reviewVars, pullVars, handlers, events, records, reactions, told, left>>

-----------------------------------------------------------------------------
(* State.                                                                  *)

\* A review and the findings it lists as current.
Review == [current : SUBSET Findings]

\* Outcomes stored with the event; "none" before it is claimed.
Outcomes == {"none", "recorded", "no_mapping", "not_current"}

\* A handler; "status" is what it goes on to confirm.
Handler == [pc : {"idle", "comment", "pull", "record", "react", "explain"},
            comment : Comments,
            status : Outcomes \cup {"refused", "closed"}]

\* A decision on a finding, or a row of review_quality_feedback, with the
\* review it was resolved against.
Record == [comment : Comments, decides : BOOLEAN, finding : Findings, review : Nat]

FeedbackInit ==
    /\ says \in [Comments -> Commands]
    /\ reviews = <<>> /\ current = 0
    /\ open = TRUE /\ closed = FALSE
    /\ unfound = {}
    /\ handlers = [h \in Handlers |->
                     [pc |-> "idle", comment |-> CHOOSE c \in Comments : TRUE,
                      status |-> "none"]]
    /\ events = [c \in Comments |-> "none"]
    /\ records = <<>>
    /\ reactions = [c \in Comments |-> {}]
    /\ told = [c \in Comments |-> 0]
    /\ left = [delivery |-> MaxDeliveries, fault |-> MaxFaults]

At(h, step) == handlers[h].pc = step

Saying(h) == says[handlers[h].comment]

Goes(h, step) == handlers' = [handlers EXCEPT ![h].pc = step]

\* The response is written and the slot released.
Ends(h) ==
    handlers' = [handlers EXCEPT ![h].pc = "idle", ![h].status = "none"]

\* confirm_status: what is left to do is a reaction for the status.
Confirms(h, status) ==
    handlers' = [handlers EXCEPT ![h].pc = "react", ![h].status = status]

Spend(what) == left[what] > 0 /\ left' = [left EXCEPT ![what] = @ - 1]

-----------------------------------------------------------------------------
(* Deliveries.                                                             *)

\* The workflow, or its job run again, posts the comment's event to the
\* bridge and gets a slot.
Deliver(h, c) ==
    /\ At(h, "idle")
    /\ Spend("delivery")
    /\ handlers' = [handlers EXCEPT ![h].pc = "comment", ![h].comment = c]
    /\ UNCHANGED <<says, reviewVars, pullVars, events, records, reactions, told>>

\* No slot is free: the bridge answers busy.
Busy ==
    /\ \A h \in Handlers : ~At(h, "idle")
    /\ Spend("delivery")
    /\ UNCHANGED <<says, reviewVars, pullVars, handlers, events, records, reactions, told>>

\* process_feedback reads the comment; an outsider gets no answer.
FetchComment(h) ==
    /\ At(h, "comment")
    /\ IF Saying(h).author = "outsider" THEN Ends(h) ELSE Goes(h, "pull")
    /\ UNCHANGED <<says, reviewVars, pullVars, events, records, reactions, told, left>>

\* It reads the pull request and refuses a closed one, before it has looked
\* for the event.
FetchPull(h) ==
    /\ At(h, "pull")
    /\ IF open THEN Goes(h, "record") ELSE Confirms(h, "closed")
    /\ UNCHANGED <<says, reviewVars, pullVars, events, records, reactions, told, left>>

\* GitHub answers 404 for the pull request, whatever its state: the comment
\* is answered as if it were closed.
PullNotFound(h) ==
    /\ At(h, "pull")
    /\ Spend("fault")
    /\ Confirms(h, "closed")
    /\ unfound' = unfound \cup {handlers[h].comment}
    /\ UNCHANGED <<says, reviewVars, open, closed, events, records, reactions, told>>

-----------------------------------------------------------------------------
(* record_review_feedback_comment: one transaction.                        *)

\* Anyone's request for a review is refused before its author is looked at.
Silent(h) == Saying(h).author # "allowed" /\ Saying(h).kind # "review"

\* Refused before the event is claimed, each time anew: intentional_by_design
\* (unsupported), a command the parser raises on, and no command at all.
Refused(h) ==
    ~Silent(h) /\ Saying(h).kind \in {"intentional", "malformed", "plain", "review"}

\* The transaction claims the event, or finds it claimed.
Claims(h) == ~Silent(h) /\ ~Refused(h)

\* Broken: the reference is looked up in every review.
ListedAnywhere(f) ==
    \E n \in DOMAIN reviews : f \in reviews[n].current

\* The current review lists the finding as current.
ListedNow(f) == f \in reviews[current].current

\* Broken: what is confirmed is stored for the outcome.
ResolvedAsRefused(h) ==
    CASE current = 0 -> "no_mapping"
      [] /\ Saying(h).kind \in {"finding", "scope"}
         /\ ~ListedNow(Saying(h).finding) -> "refused"
      [] OTHER -> "recorded"

\* What the transaction finds, and stores as the outcome.
Resolved(h) ==
    CASE current = 0 -> "no_mapping"
      [] /\ Saying(h).kind \in {"finding", "scope"}
         /\ ~ListedNow(Saying(h).finding) -> "not_current"
      [] OTHER -> "recorded"

Store(h, outcome) ==
    /\ events' = [events EXCEPT ![handlers[h].comment] = outcome]
    /\ records' =
           IF outcome = "recorded"
           THEN Append(records, [comment |-> handlers[h].comment,
                                 decides |-> Saying(h).kind = "finding",
                                 finding |-> Saying(h).finding,
                                 review |-> current])
           ELSE records
    /\ Confirms(h, outcome)

\* Broken: the event is not claimed.
RecordUnclaimed(h) ==
    LET c == handlers[h].comment
    IN  /\ At(h, "record")
        /\ CASE Silent(h) -> Ends(h) /\ UNCHANGED <<events, records>>
             [] Refused(h) -> Confirms(h, "refused") /\ UNCHANGED <<events, records>>
             [] Claims(h) -> Store(h, Resolved(h))
        /\ UNCHANGED <<says, reviewVars, pullVars, reactions, told, left>>

\* Broken: the replay of an event confirms the replay, not its outcome.
ReplayOutcome(c) == "refused"

\* stored_replay_outcome: the first outcome is confirmed again.
StoredOutcome(c) == events[c]

RecordFeedback(h) ==
    LET c == handlers[h].comment
    IN  /\ At(h, "record")
        /\ \/ Silent(h) /\ Ends(h) /\ UNCHANGED <<events, records>>
           \/ Refused(h) /\ Confirms(h, "refused") /\ UNCHANGED <<events, records>>
           \/ /\ Claims(h) /\ events[c] # "none"
              /\ Confirms(h, StoredOutcome(c)) /\ UNCHANGED <<events, records>>
           \/ Claims(h) /\ events[c] = "none" /\ Store(h, Resolved(h))
        /\ UNCHANGED <<says, reviewVars, pullVars, reactions, told, left>>

-----------------------------------------------------------------------------
(* The answer on the pull request.                                         *)

Reaction(h) == IF handlers[h].status = "recorded" THEN "+1" ELSE "confused"

Reacts(h) ==
    reactions' = [reactions EXCEPT ![handlers[h].comment] = @ \cup {Reaction(h)}]

\* Broken: the explanation is written whether or not the reaction is new.
ReactAndExplain(h) ==
    /\ At(h, "react")
    /\ Reacts(h)
    /\ IF Reaction(h) = "confused" THEN Goes(h, "explain") ELSE Ends(h)
    /\ UNCHANGED <<says, reviewVars, pullVars, events, records, told, left>>

\* confirm_success, confirm_error: GitHub answers 201 for the first reaction
\* of its kind only, and only that one is explained.
React(h) ==
    /\ At(h, "react")
    /\ Reacts(h)
    /\ IF Reaction(h) = "confused" /\ "confused" \notin reactions[handlers[h].comment]
       THEN Goes(h, "explain") ELSE Ends(h)
    /\ UNCHANGED <<says, reviewVars, pullVars, events, records, told, left>>

Explain(h) ==
    /\ At(h, "explain")
    /\ told' = [told EXCEPT ![handlers[h].comment] = @ + 1]
    /\ Ends(h)
    /\ UNCHANGED <<says, reviewVars, pullVars, events, records, reactions, left>>

-----------------------------------------------------------------------------
(* The environment.                                                        *)

\* A request fails, answered 502; what it was to do may have been done.
RequestFails(h) ==
    /\ handlers[h].pc \notin {"idle", "record"}
    /\ Spend("fault")
    /\ Ends(h)
    /\ \/ UNCHANGED <<reactions, told>>
       \/ At(h, "react") /\ Reacts(h) /\ UNCHANGED told
       \/ /\ At(h, "explain") /\ UNCHANGED reactions
          /\ told' = [told EXCEPT ![handlers[h].comment] = @ + 1]
    /\ UNCHANGED <<says, reviewVars, pullVars, events, records>>

\* The bridge restarts; a transaction not committed is rolled back.
Restart ==
    /\ \E h \in Handlers : ~At(h, "idle")
    /\ Spend("fault")
    /\ handlers' = [h \in Handlers |->
                      [handlers[h] EXCEPT !.pc = "idle", !.status = "none"]]
    /\ UNCHANGED <<says, reviewVars, pullVars, events, records, reactions, told>>

\* A review comes out and supersedes the one before.
PostReview(listed) ==
    /\ Len(reviews) < MaxReviews
    /\ reviews' = Append(reviews, [current |-> listed])
    /\ current' = Len(reviews')
    /\ UNCHANGED <<says, pullVars, handlers, events, records, reactions, told, left>>

\* The clean-up after the current review fails and overwrites its 'posted':
\* until the next one comes out no review is current.
TakeBackReview ==
    /\ current # 0
    /\ Spend("fault")
    /\ current' = 0
    /\ UNCHANGED <<says, reviews, pullVars, handlers, events, records, reactions, told>>

\* The pull request is closed, or opened again.
Toggle ==
    /\ open' = ~open
    /\ closed' = TRUE
    /\ UNCHANGED <<says, reviewVars, unfound, handlers, events, records, reactions, told, left>>

FeedbackNext ==
    \/ \E h \in Handlers, c \in Comments : Deliver(h, c)
    \/ Busy
    \/ \E h \in Handlers :
           \/ FetchComment(h) \/ FetchPull(h) \/ PullNotFound(h)
           \/ RecordFeedback(h) \/ React(h) \/ Explain(h) \/ RequestFails(h)
    \/ Restart
    \/ \E listed \in SUBSET Findings : PostReview(listed)
    \/ TakeBackReview \/ Toggle

FeedbackSpec == FeedbackInit /\ [][FeedbackNext]_vars

-----------------------------------------------------------------------------
\* Every variable holds values the columns, GitHub and the handlers can have.
FeedbackTypeOK ==
    /\ says \in [Comments -> Commands]
    /\ reviews \in Seq(Review) /\ current \in 0..Len(reviews)
    /\ open \in BOOLEAN /\ closed \in BOOLEAN
    /\ unfound \subseteq Comments
    /\ handlers \in [Handlers -> Handler]
    /\ events \in [Comments -> Outcomes]
    /\ records \in Seq(Record)
    /\ reactions \in [Comments -> SUBSET {"+1", "confused"}]
    /\ told \in [Comments -> Nat]

\* A command counts once, however often its comment is delivered and however
\* many handlers work on it at a time: the stored outcome and the rows of the
\* comment are always of one transaction.
RecordedOnce ==
    \A c \in Comments :
        LET rows == {i \in DOMAIN records : records[i].comment = c}
        IN  /\ Cardinality(rows) <= 1
            /\ events[c] = "recorded" <=> rows # {}

\* A decision, or feedback on a finding, is never recorded for a review that
\* has been superseded while its handler was on its way, nor for a finding
\* that the current review no longer lists, nor while there is none.
RecordsAreOfTheCurrentReview ==
    [][\A i \in DOMAIN records' \ DOMAIN records :
          LET kind == says[records'[i].comment].kind
          IN  /\ records'[i].review = current /\ current # 0
              /\ kind # "missed" =>
                     records'[i].finding \in reviews[current].current]_vars

\* One comment gets one explanation at most, and only with a confused
\* reaction ("a confused reaction and one deterministic explanation").
ExplainedOnce ==
    \A c \in Comments :
        told[c] <= 1 /\ (told[c] = 1 => "confused" \in reactions[c])

\* The reactions tell the truth: a thumb means a recorded command, and a
\* recorded command is refused only because the pull request has been closed
\* since (a failed thumb and a job run again) or GitHub once did not find it
\* for that very comment, never by a replay.
ReactionsAgree ==
    \A c \in Comments :
        /\ "+1" \in reactions[c] => events[c] = "recorded"
        /\ events[c] = "recorded" /\ "confused" \in reactions[c] =>
               closed \/ c \in unfound
=============================================================================

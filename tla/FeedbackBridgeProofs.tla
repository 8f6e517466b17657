------------------------- MODULE FeedbackBridgeProofs -------------------------
(* Theorems of FeedbackBridge, for any comments, commands, handlers and      *)
(* findings, and any number of deliveries, reviews and faults.               *)
EXTENDS FeedbackBridge, FiniteSetTheorems, TLAPS

\* Groups of variables that stay as they are.
USE DEF reviewVars, pullVars

RefusedKinds == {"intentional", "malformed", "plain", "review"}

\* Rows and stored outcomes, row by row: what RecordedOnce counts.
RowsAgree ==
    /\ \A i, j \in DOMAIN records :
           records[i].comment = records[j].comment => i = j
    /\ \A c \in Comments :
           events[c] = "recorded" <=> \E i \in DOMAIN records : records[i].comment = c

\* One handler at most is about to explain a comment, one that nobody has
\* explained and on which the confused reaction already is.
OneExplains ==
    /\ \A h \in Handlers : At(h, "explain") =>
           /\ told[handlers[h].comment] = 0
           /\ "confused" \in reactions[handlers[h].comment]
    /\ \A g, h \in Handlers :
           At(g, "explain") /\ At(h, "explain")
               /\ handlers[g].comment = handlers[h].comment => g = h
    /\ \A c \in Comments :
           told[c] <= 1 /\ (told[c] = 1 => "confused" \in reactions[c])

\* What a handler that is about to react to comment c knows for good.
Justified(status, c) ==
    /\ status # "none"
    /\ status \in {"recorded", "no_mapping", "not_current"} => events[c] = status
    /\ status = "refused" => says[c].kind \in RefusedKinds
    /\ status = "closed" => closed \/ c \in unfound

\* Why a comment has the confused reaction, for good.
Confusing(c) ==
    \/ closed \/ c \in unfound
    \/ events[c] \in {"no_mapping", "not_current"}
    \/ says[c].kind \in RefusedKinds

AnswersAgree ==
    /\ open \/ closed
    /\ \A c \in Comments : events[c] # "none" => says[c].kind \notin RefusedKinds
    /\ \A h \in Handlers :
           At(h, "react") => Justified(handlers[h].status, handlers[h].comment)
    /\ \A c \in Comments :
           /\ "+1" \in reactions[c] => events[c] = "recorded"
           /\ "confused" \in reactions[c] => Confusing(c)

-----------------------------------------------------------------------------
(* Types.                                                                    *)

\* The handlers keep their form whatever one of them goes on to do.
LEMMA HandlerForm ==
    ASSUME FeedbackTypeOK, NEW h \in Handlers
    PROVE  /\ handlers[h] \in Handler /\ handlers[h].comment \in Comments
           /\ Saying(h) \in Commands /\ Saying(h) \in Command
           /\ Ends(h) => handlers' \in [Handlers -> Handler]
           /\ \A step \in {"pull", "record", "explain"} :
                  Goes(h, step) => handlers' \in [Handlers -> Handler]
           /\ \A status \in Outcomes \cup {"refused", "closed"} :
                  Confirms(h, status) => handlers' \in [Handlers -> Handler]
<1>1. handlers[h] \in Handler /\ handlers[h].comment \in Comments
  BY DEF FeedbackTypeOK, Handler
<1>2. Saying(h) \in Commands /\ Saying(h) \in Command
  BY <1>1, FeedbackAssumption DEF FeedbackTypeOK, Saying
<1>3. ASSUME Ends(h) PROVE handlers' \in [Handlers -> Handler]
  <2>1. [handlers[h] EXCEPT !.pc = "idle", !.status = "none"] \in Handler
    BY <1>1 DEF Handler, Outcomes
  <2> QED
    BY <1>3, <2>1 DEF FeedbackTypeOK, Ends
<1>4. ASSUME NEW step \in {"pull", "record", "explain"}, Goes(h, step)
      PROVE  handlers' \in [Handlers -> Handler]
  BY <1>1, <1>4 DEF FeedbackTypeOK, Goes, Handler
<1>5. ASSUME NEW status \in Outcomes \cup {"refused", "closed"}, Confirms(h, status)
      PROVE  handlers' \in [Handlers -> Handler]
  BY <1>1, <1>5 DEF FeedbackTypeOK, Confirms, Handler
<1> QED
  BY <1>1, <1>2, <1>3, <1>4, <1>5

\* The outcome of a transaction is one of three.
LEMMA ResolvedForm ==
    ASSUME NEW h \in Handlers
    PROVE  /\ Resolved(h) \in {"recorded", "no_mapping", "not_current"}
           /\ Resolved(h) \in Outcomes
BY DEF Resolved, Outcomes

LEMMA TypeInit == FeedbackInit => FeedbackTypeOK
<1> SUFFICES ASSUME FeedbackInit PROVE FeedbackTypeOK
  OBVIOUS
<1>1. (CHOOSE c \in Comments : TRUE) \in Comments
  BY FeedbackAssumption
<1>2. handlers \in [Handlers -> Handler]
  BY <1>1 DEF FeedbackInit, Handler, Outcomes
<1>3. /\ reviews \in Seq(Review) /\ records \in Seq(Record) /\ current \in 0..Len(reviews)
  BY DEF FeedbackInit
<1> QED
  BY <1>2, <1>3 DEF FeedbackInit, FeedbackTypeOK, Outcomes

LEMMA TypeRecord ==
    ASSUME FeedbackTypeOK, NEW h \in Handlers, RecordFeedback(h)
    PROVE  FeedbackTypeOK'
<1> DEFINE c == handlers[h].comment
<1>1. /\ c \in Comments /\ Saying(h) \in Command
      /\ UNCHANGED <<says, reviewVars, pullVars, reactions, told>>
  BY HandlerForm DEF RecordFeedback
<1>2. CASE Ends(h) /\ UNCHANGED <<events, records>>
  BY <1>1, <1>2, HandlerForm DEF FeedbackTypeOK
<1>3. CASE Confirms(h, "refused") /\ UNCHANGED <<events, records>>
  BY <1>1, <1>3, HandlerForm DEF FeedbackTypeOK
<1>4. CASE Confirms(h, StoredOutcome(c)) /\ UNCHANGED <<events, records>>
  <2>1. StoredOutcome(c) \in Outcomes
    BY <1>1 DEF StoredOutcome, FeedbackTypeOK
  <2> QED
    BY <1>1, <1>4, <2>1, HandlerForm DEF FeedbackTypeOK
<1>5. CASE Store(h, Resolved(h))
  <2>1. handlers' \in [Handlers -> Handler] /\ events' \in [Comments -> Outcomes]
    BY <1>1, <1>5, HandlerForm, ResolvedForm DEF FeedbackTypeOK, Store
  <2>2. [comment |-> c, decides |-> Saying(h).kind = "finding",
         finding |-> Saying(h).finding, review |-> current] \in Record
    BY <1>1 DEF Record, Command, FeedbackTypeOK
  <2>3. records' \in Seq(Record)
    BY <1>5, <2>2 DEF Store, FeedbackTypeOK
  <2> QED
    BY <1>1, <2>1, <2>3 DEF FeedbackTypeOK
<1> QED
  BY <1>2, <1>3, <1>4, <1>5 DEF RecordFeedback

\* The steps of a handler other than its transaction.
OtherStep(h) ==
    \/ \E c \in Comments : Deliver(h, c)
    \/ FetchComment(h) \/ FetchPull(h) \/ PullNotFound(h)
    \/ React(h) \/ Explain(h) \/ RequestFails(h)

LEMMA TypeReacts ==
    ASSUME FeedbackTypeOK, NEW h \in Handlers, Reacts(h)
    PROVE  reactions' \in [Comments -> SUBSET {"+1", "confused"}]
BY HandlerForm DEF FeedbackTypeOK, Reacts, Reaction

LEMMA TypeOther ==
    ASSUME FeedbackTypeOK, NEW h \in Handlers, OtherStep(h)
    PROVE  FeedbackTypeOK'
<1> UNCHANGED <<says, reviews, current, open, closed, events, records>>
  BY DEF OtherStep, Deliver, FetchComment, FetchPull, PullNotFound, React, Explain,
                RequestFails
<1>1. ASSUME NEW c \in Comments, Deliver(h, c) PROVE FeedbackTypeOK'
  BY <1>1 DEF FeedbackTypeOK, Deliver, Handler
<1>2. CASE FetchComment(h)
  BY <1>2, HandlerForm DEF FeedbackTypeOK, FetchComment
<1>3. CASE FetchPull(h)
  BY <1>3, HandlerForm DEF FeedbackTypeOK, FetchPull
<1>4. CASE React(h)
  BY <1>4, HandlerForm, TypeReacts DEF FeedbackTypeOK, React
<1>7. CASE PullNotFound(h)
  BY <1>7, HandlerForm DEF FeedbackTypeOK, PullNotFound
<1>5. CASE Explain(h)
  BY <1>5, HandlerForm DEF FeedbackTypeOK, Explain
<1>6. CASE RequestFails(h)
  <2>1. handlers' \in [Handlers -> Handler]
    BY <1>6, HandlerForm DEF RequestFails
  <2>2. told' \in [Comments -> Nat]
    BY <1>6, HandlerForm DEF FeedbackTypeOK, RequestFails
  <2>3. reactions' \in [Comments -> SUBSET {"+1", "confused"}]
    BY <1>6, TypeReacts DEF FeedbackTypeOK, RequestFails
  <2> QED
    BY <1>6, <2>1, <2>2, <2>3 DEF FeedbackTypeOK, RequestFails
<1> QED
  BY <1>1, <1>2, <1>3, <1>4, <1>5, <1>6, <1>7 DEF OtherStep

\* The steps of nobody in particular.
LEMMA TypeEnvironment ==
    ASSUME FeedbackTypeOK,
           Busy \/ Restart \/ TakeBackReview \/ Toggle \/ \E listed \in SUBSET Findings : PostReview(listed)
    PROVE  FeedbackTypeOK'
<1>1. CASE Busy
  BY <1>1 DEF FeedbackTypeOK, Busy
<1>2. CASE Restart
  <2>1. handlers' \in [Handlers -> Handler]
    BY <1>2 DEF FeedbackTypeOK, Restart, Handler, Outcomes
  <2> QED
    BY <1>2, <2>1 DEF FeedbackTypeOK, Restart
<1>3. CASE Toggle
  BY <1>3 DEF FeedbackTypeOK, Toggle
<1>5. CASE TakeBackReview
  <2>1. 0 \in 0..Len(reviews)
    BY DEF FeedbackTypeOK
  <2> QED
    BY <1>5, <2>1 DEF FeedbackTypeOK, TakeBackReview
<1>4. ASSUME NEW listed \in SUBSET Findings, PostReview(listed) PROVE FeedbackTypeOK'
  <2>1. reviews' \in Seq(Review) /\ Len(reviews') = Len(reviews) + 1
    BY <1>4 DEF FeedbackTypeOK, PostReview, Review
  <2>2. current' \in 0..Len(reviews')
    BY <1>4, <2>1 DEF FeedbackTypeOK, PostReview
  <2> QED
    BY <1>4, <2>1, <2>2 DEF FeedbackTypeOK, PostReview
<1> QED
  BY <1>1, <1>2, <1>3, <1>4, <1>5

\* Every step is one of these.
LEMMA Steps ==
    ASSUME [FeedbackNext]_vars
    PROVE  \/ \E h \in Handlers : RecordFeedback(h) \/ OtherStep(h)
           \/ Busy \/ Restart \/ TakeBackReview \/ Toggle
           \/ \E listed \in SUBSET Findings : PostReview(listed)
           \/ UNCHANGED vars
BY DEF FeedbackNext, OtherStep

LEMMA TypeStep ==
    ASSUME FeedbackTypeOK, [FeedbackNext]_vars PROVE FeedbackTypeOK'
<1>1. CASE UNCHANGED vars
  BY <1>1 DEF FeedbackTypeOK, vars
<1> QED
  BY <1>1, Steps, TypeRecord, TypeOther, TypeEnvironment

\* Handlers, events, records, reactions and explanations hold values they can
\* have, for any instance (feedback_bridge.py, memory_feedback.py).
THEOREM FeedbackTypeCorrect == FeedbackSpec => []FeedbackTypeOK
<1>1. FeedbackTypeOK /\ [FeedbackNext]_vars => FeedbackTypeOK'
  BY TypeStep
<1> QED
  BY TypeInit, <1>1, PTL DEF FeedbackSpec

-----------------------------------------------------------------------------
(* A command counts once.                                                    *)

\* The row a transaction adds, and the rest it leaves.
LEMMA StoreForm ==
    ASSUME FeedbackTypeOK, NEW h \in Handlers, Store(h, Resolved(h))
    PROVE  /\ events' = [events EXCEPT ![handlers[h].comment] = Resolved(h)]
           /\ DOMAIN records = 1..Len(records) /\ Len(records) \in Nat
           /\ Resolved(h) # "recorded" => records' = records
           /\ Resolved(h) = "recorded" =>
                  /\ DOMAIN records' = 1..(Len(records) + 1)
                  /\ \A i \in 1..Len(records) : records'[i] = records[i]
                  /\ records'[Len(records) + 1].comment = handlers[h].comment
                  /\ records'[Len(records) + 1].finding = Saying(h).finding
                  /\ records'[Len(records) + 1].review = current
<1> DEFINE row == [comment |-> handlers[h].comment,
                   decides |-> Saying(h).kind = "finding",
                   finding |-> Saying(h).finding, review |-> current]
<1>1. /\ records \in Seq(Record) /\ Len(records) \in Nat
      /\ DOMAIN records = 1..Len(records)
  BY DEF FeedbackTypeOK
<1>2. row \in Record
  BY HandlerForm DEF Record, Command, FeedbackTypeOK
<1>3. /\ events' = [events EXCEPT ![handlers[h].comment] = Resolved(h)]
      /\ Resolved(h) # "recorded" => records' = records
      /\ Resolved(h) = "recorded" => records' = Append(records, row)
  BY DEF Store
<1>4. /\ row.comment = handlers[h].comment /\ row.finding = Saying(h).finding
      /\ row.review = current
  OBVIOUS
<1> HIDE DEF row
<1>5. ASSUME records' = Append(records, row)
      PROVE  /\ DOMAIN records' = 1..(Len(records) + 1)
             /\ \A i \in 1..Len(records) : records'[i] = records[i]
             /\ records'[Len(records) + 1] = row
  BY <1>1, <1>2, <1>5
<1> QED
  BY <1>1, <1>3, <1>4, <1>5

LEMMA RowsInit == FeedbackInit => RowsAgree
BY DEF FeedbackInit, RowsAgree

LEMMA RowsStore ==
    ASSUME FeedbackTypeOK, RowsAgree, NEW h \in Handlers,
           events[handlers[h].comment] = "none", Store(h, Resolved(h))
    PROVE  RowsAgree'
<1> DEFINE c == handlers[h].comment
           n == Len(records) + 1
<1>1. /\ c \in Comments /\ events \in [Comments -> Outcomes] /\ Len(records) \in Nat
      /\ DOMAIN records = 1..Len(records)
  BY HandlerForm DEF FeedbackTypeOK
<1>2. \A i \in DOMAIN records : records[i].comment # c
  BY <1>1 DEF RowsAgree
<1>3. /\ events' = [events EXCEPT ![c] = Resolved(h)]
      /\ Resolved(h) # "recorded" => records' = records
      /\ Resolved(h) = "recorded" =>
             /\ DOMAIN records' = 1..n
             /\ \A i \in 1..Len(records) : records'[i] = records[i]
             /\ records'[n].comment = c
  BY StoreForm
<1>4. CASE Resolved(h) # "recorded"
  <2>1. records' = records /\ events'[c] # "recorded"
    BY <1>1, <1>3, <1>4
  <2>2. \A d \in Comments : d # c => events'[d] = events[d]
    BY <1>1, <1>3
  <2> QED
    BY <1>2, <2>1, <2>2 DEF RowsAgree
<1>5. CASE Resolved(h) = "recorded"
  <2>1. /\ DOMAIN records' = 1..n /\ n \in 1..n /\ 1..n = 1..Len(records) \cup {n}
        /\ n \notin 1..Len(records)
        /\ \A i \in 1..Len(records) : records'[i] = records[i]
        /\ records'[n].comment = c
    BY <1>1, <1>3, <1>5
  <2>2. /\ events'[c] = "recorded"
        /\ \A d \in Comments : d # c => events'[d] = events[d]
    BY <1>1, <1>3, <1>5
  <2>3. ASSUME NEW i \in DOMAIN records', NEW j \in DOMAIN records',
               records'[i].comment = records'[j].comment
        PROVE  i = j
    BY <1>1, <1>2, <2>1, <2>3 DEF RowsAgree
  <2>4. ASSUME NEW d \in Comments
        PROVE  events'[d] = "recorded"
                 <=> \E i \in DOMAIN records' : records'[i].comment = d
    <3>1. CASE d = c
      BY <2>1, <2>2, <3>1
    <3>2. CASE d # c
      BY <1>1, <2>1, <2>2, <3>2 DEF RowsAgree
    <3> QED
      BY <3>1, <3>2
  <2> QED
    BY <2>3, <2>4 DEF RowsAgree
<1> QED
  BY <1>4, <1>5

LEMMA RowsStep ==
    ASSUME FeedbackTypeOK, RowsAgree, [FeedbackNext]_vars PROVE RowsAgree'
<1>1. ASSUME NEW h \in Handlers, RecordFeedback(h) PROVE RowsAgree'
  <2>1. CASE UNCHANGED <<events, records>>
    BY <2>1 DEF RowsAgree
  <2>2. CASE events[handlers[h].comment] = "none" /\ Store(h, Resolved(h))
    BY <2>2, RowsStore
  <2> QED
    BY <1>1, <2>1, <2>2 DEF RecordFeedback
<1>2. CASE UNCHANGED <<events, records>>
  BY <1>2 DEF RowsAgree
<1>3. ASSUME NEW h \in Handlers, OtherStep(h) PROVE UNCHANGED <<events, records>>
  BY <1>3 DEF OtherStep, Deliver, FetchComment, FetchPull, PullNotFound, React, Explain,
                RequestFails
<1>4. ASSUME \/ Busy \/ Restart \/ TakeBackReview \/ Toggle \/ UNCHANGED vars
             \/ \E listed \in SUBSET Findings : PostReview(listed)
      PROVE  UNCHANGED <<events, records>>
  BY <1>4 DEF Busy, Restart, TakeBackReview, Toggle, PostReview, vars
<1> QED
  BY <1>1, <1>2, <1>3, <1>4, Steps

\* Rows that agree are counted right.
LEMMA RowsCounted == RowsAgree => RecordedOnce
<1> SUFFICES ASSUME RowsAgree PROVE RecordedOnce
  OBVIOUS
<1> DEFINE rows(c) == {i \in DOMAIN records : records[i].comment = c}
<1>1. ASSUME NEW c \in Comments
      PROVE  Cardinality(rows(c)) <= 1 /\ (events[c] = "recorded" <=> rows(c) # {})
  <2>1. events[c] = "recorded" <=> rows(c) # {}
    BY DEF RowsAgree
  <2>2. CASE rows(c) = {}
    <3>1. Cardinality(rows(c)) = 0
      BY <2>2, FS_EmptySet
    <3> QED
      BY <2>1, <3>1
  <2>3. CASE rows(c) # {}
    <3>1. PICK i \in rows(c) : TRUE
      BY <2>3
    <3>2. rows(c) = {i}
      BY <3>1 DEF RowsAgree
    <3>3. Cardinality(rows(c)) = 1
      BY <3>2, FS_Singleton
    <3> QED
      BY <2>1, <3>3
  <2> QED
    BY <2>2, <2>3
<1> QED
  BY <1>1 DEF RecordedOnce

\* A command is recorded once, with its stored outcome, however often and by
\* however many handlers its comment is worked on
\* (record_review_feedback_comment, _claim_feedback_event).
THEOREM CommandsCountOnce == FeedbackSpec => []RecordedOnce
<1>1. FeedbackTypeOK /\ RowsAgree /\ [FeedbackNext]_vars => RowsAgree'
  BY RowsStep
<1> QED
  BY RowsInit, <1>1, RowsCounted, FeedbackTypeCorrect, PTL DEF FeedbackSpec

\* No transaction records a command for a review that is not the current one,
\* or for a finding it does not list (_resolve_current_finding_target).
THEOREM RecordsAreCurrent == FeedbackSpec => RecordsAreOfTheCurrentReview
<1> DEFINE Current(i) ==
             /\ records'[i].review = current /\ current # 0
             /\ says[records'[i].comment].kind # "missed" =>
                    records'[i].finding \in reviews[current].current
<1>1. ASSUME FeedbackTypeOK, [FeedbackNext]_vars,
             NEW i \in DOMAIN records' \ DOMAIN records
      PROVE  Current(i)
  <2>1. PICK h \in Handlers : /\ RecordFeedback(h) /\ Claims(h)
                              /\ Store(h, Resolved(h))
    <3>1. ASSUME NEW h \in Handlers, OtherStep(h) PROVE records' = records
      BY <3>1 DEF OtherStep, Deliver, FetchComment, FetchPull, PullNotFound, React,
                  Explain, RequestFails
    <3>2. ASSUME \/ Busy \/ Restart \/ TakeBackReview \/ Toggle \/ UNCHANGED vars
                 \/ \E listed \in SUBSET Findings : PostReview(listed)
          PROVE  records' = records
      BY <3>2 DEF Busy, Restart, TakeBackReview, Toggle, PostReview, vars
    <3>3. PICK h \in Handlers : RecordFeedback(h)
      <4>1. DOMAIN records' # DOMAIN records
        BY <1>1
      <4> QED
        BY <1>1, <4>1, <3>1, <3>2, Steps
    <3> QED
      BY <1>1, <3>3 DEF RecordFeedback
  <2>2. /\ Resolved(h) = "recorded" /\ i = Len(records) + 1
        /\ records'[i].comment = handlers[h].comment
        /\ records'[i].finding = Saying(h).finding
        /\ records'[i].review = current
    BY <1>1, <2>1, StoreForm
  <2>3. says[records'[i].comment] = Saying(h)
    BY <2>2 DEF Saying
  <2>4. /\ current # 0
        /\ Saying(h).kind \in {"finding", "scope"} => ListedNow(Saying(h).finding)
    BY <2>2 DEF Resolved
  <2>5. Saying(h).kind \in {"finding", "scope", "missed"}
    BY <1>1, <2>1, HandlerForm DEF Claims, Refused, Command, Kinds
  <2> QED
    BY <2>2, <2>3, <2>4, <2>5 DEF ListedNow
<1>2. FeedbackTypeOK /\ [FeedbackNext]_vars =>
        [\A i \in DOMAIN records' \ DOMAIN records : Current(i)]_vars
  BY <1>1
<1>3. [\A i \in DOMAIN records' \ DOMAIN records : Current(i)]_vars =>
        [\A i \in DOMAIN records' \ DOMAIN records :
          LET kind == says[records'[i].comment].kind
          IN  /\ records'[i].review = current /\ current # 0
              /\ kind # "missed" =>
                     records'[i].finding \in reviews[current].current]_vars
  OBVIOUS
<1> QED
  BY <1>2, <1>3, FeedbackTypeCorrect, PTL DEF FeedbackSpec, RecordsAreOfTheCurrentReview

-----------------------------------------------------------------------------
(* One answer, and a true one.                                               *)

\* A step of a handler moves that handler only, and leaves it its comment.
LEMMA HandlerMoves ==
    ASSUME FeedbackTypeOK, NEW h \in Handlers
    PROVE  /\ \A step \in {"pull", "record", "explain"} : Goes(h, step) =>
                  /\ handlers'[h].pc = step /\ handlers'[h].comment = handlers[h].comment
                  /\ \A g \in Handlers : g # h => handlers'[g] = handlers[g]
           /\ Ends(h) =>
                  /\ handlers'[h].pc = "idle"
                  /\ \A g \in Handlers : g # h => handlers'[g] = handlers[g]
           /\ \A status \in Outcomes \cup {"refused", "closed"} : Confirms(h, status) =>
                  /\ handlers'[h].pc = "react" /\ handlers'[h].status = status
                  /\ handlers'[h].comment = handlers[h].comment
                  /\ \A g \in Handlers : g # h => handlers'[g] = handlers[g]
<1>1. handlers \in [Handlers -> Handler] /\ handlers[h] \in Handler
  BY DEF FeedbackTypeOK
<1>2. ASSUME NEW step \in {"pull", "record", "explain"}, Goes(h, step)
      PROVE  /\ handlers'[h].pc = step /\ handlers'[h].comment = handlers[h].comment
             /\ \A g \in Handlers : g # h => handlers'[g] = handlers[g]
  BY <1>1, <1>2 DEF Goes, Handler
<1>3. ASSUME Ends(h)
      PROVE  /\ handlers'[h].pc = "idle"
             /\ \A g \in Handlers : g # h => handlers'[g] = handlers[g]
  <2>1. handlers'[h] = [handlers[h] EXCEPT !.pc = "idle", !.status = "none"]
    BY <1>1, <1>3 DEF Ends
  <2> QED
    BY <1>1, <1>3, <2>1 DEF Ends, Handler
<1>4. ASSUME NEW status \in Outcomes \cup {"refused", "closed"}, Confirms(h, status)
      PROVE  /\ handlers'[h].pc = "react" /\ handlers'[h].status = status
             /\ handlers'[h].comment = handlers[h].comment
             /\ \A g \in Handlers : g # h => handlers'[g] = handlers[g]
  BY <1>1, <1>4 DEF Confirms, Handler
<1> QED
  BY <1>2, <1>3, <1>4

\* A reaction is added to those the comment has; the others keep theirs.
LEMMA ReactsForm ==
    ASSUME FeedbackTypeOK, NEW h \in Handlers, Reacts(h)
    PROVE  /\ reactions'[handlers[h].comment]
                = reactions[handlers[h].comment] \cup {Reaction(h)}
           /\ \A d \in Comments :
                  d # handlers[h].comment => reactions'[d] = reactions[d]
BY HandlerForm DEF FeedbackTypeOK, Reacts

\* What keeps OneExplains: nobody new is about to explain.
LEMMA NobodyNewExplains ==
    ASSUME FeedbackTypeOK, OneExplains, UNCHANGED told,
           \A d \in Comments : reactions[d] \subseteq reactions'[d],
           \A g \in Handlers : handlers'[g].pc = "explain" => handlers'[g] = handlers[g]
    PROVE  OneExplains'
<1>1. \A g \in Handlers : handlers[g].comment \in Comments
  BY HandlerForm
<1> QED
  BY <1>1 DEF OneExplains, At

LEMMA ExplainsInit == FeedbackInit => OneExplains
BY DEF FeedbackInit, OneExplains, At

LEMMA ExplainsReact ==
    ASSUME FeedbackTypeOK, OneExplains, NEW h \in Handlers, React(h)
    PROVE  OneExplains'
<1> DEFINE c == handlers[h].comment
<1>1. /\ UNCHANGED told /\ c \in Comments /\ told \in [Comments -> Nat]
      /\ reactions'[c] = reactions[c] \cup {Reaction(h)}
      /\ \A d \in Comments : reactions[d] \subseteq reactions'[d]
  BY HandlerForm, ReactsForm DEF React, FeedbackTypeOK
<1>2. CASE Ends(h)
  BY <1>1, <1>2, HandlerMoves, NobodyNewExplains
<1>3. CASE /\ Goes(h, "explain") /\ Reaction(h) = "confused"
           /\ "confused" \notin reactions[c]
  <2>1. /\ handlers'[h].pc = "explain" /\ handlers'[h].comment = c
        /\ \A g \in Handlers : g # h => handlers'[g] = handlers[g]
    BY <1>3, HandlerMoves
  <2>2. told[c] = 0 /\ \A d \in Comments : told[d] \in Nat
    BY <1>1, <1>3 DEF OneExplains
  <2>3. \A g \in Handlers : At(g, "explain") => handlers[g].comment # c
    BY <1>3 DEF OneExplains
  <2>4. \A g \in Handlers : handlers[g].comment \in Comments
    BY HandlerForm
  <2> QED
    BY <1>1, <1>3, <2>1, <2>2, <2>3, <2>4 DEF OneExplains, At
<1> QED
  BY <1>2, <1>3 DEF React

\* The explanation is written: the handler was the only one about to.
LEMMA ExplainsOnce ==
    ASSUME FeedbackTypeOK, OneExplains, NEW h \in Handlers, At(h, "explain"),
           told' = [told EXCEPT ![handlers[h].comment] = @ + 1], Ends(h),
           UNCHANGED reactions
    PROVE  OneExplains'
<1> DEFINE c == handlers[h].comment
<1>1. /\ c \in Comments /\ told \in [Comments -> Nat]
      /\ \A g \in Handlers : handlers[g].comment \in Comments
  BY HandlerForm DEF FeedbackTypeOK
<1>2. told[c] = 0 /\ "confused" \in reactions[c]
  BY DEF OneExplains
<1>3. told'[c] = 1 /\ \A d \in Comments : d # c => told'[d] = told[d]
  BY <1>1, <1>2
<1>4. /\ handlers'[h].pc = "idle"
      /\ \A g \in Handlers : g # h => handlers'[g] = handlers[g]
  BY HandlerMoves
<1>5. \A g \in Handlers : g # h /\ At(g, "explain") => handlers[g].comment # c
  BY DEF OneExplains
<1> QED
  BY <1>1, <1>2, <1>3, <1>4, <1>5 DEF OneExplains, At

LEMMA ExplainsStep ==
    ASSUME FeedbackTypeOK, OneExplains, [FeedbackNext]_vars PROVE OneExplains'
<1>1. ASSUME NEW h \in Handlers, RecordFeedback(h) PROVE OneExplains'
  <2>1. Ends(h) \/ \E status \in Outcomes \cup {"refused"} : Confirms(h, status)
    BY <1>1, HandlerForm, ResolvedForm
       DEF RecordFeedback, Store, StoredOutcome, FeedbackTypeOK
  <2> QED
    BY <1>1, <2>1, HandlerMoves, NobodyNewExplains DEF RecordFeedback
<1>2. ASSUME NEW h \in Handlers, FetchComment(h) PROVE OneExplains'
  BY <1>2, HandlerMoves, NobodyNewExplains DEF FetchComment
<1>3. ASSUME NEW h \in Handlers, FetchPull(h) PROVE OneExplains'
  BY <1>3, HandlerMoves, NobodyNewExplains DEF FetchPull
<1>9. ASSUME NEW h \in Handlers, PullNotFound(h) PROVE OneExplains'
  BY <1>9, HandlerMoves, NobodyNewExplains DEF PullNotFound
<1>4. ASSUME NEW h \in Handlers, NEW c \in Comments, Deliver(h, c) PROVE OneExplains'
  <2>1. \A g \in Handlers : handlers'[g].pc = "explain" => handlers'[g] = handlers[g]
    BY <1>4 DEF Deliver, FeedbackTypeOK, Handler
  <2> QED
    BY <1>4, <2>1, NobodyNewExplains DEF Deliver
<1>5. ASSUME NEW h \in Handlers, Explain(h) PROVE OneExplains'
  BY <1>5, ExplainsOnce DEF Explain
<1>6. ASSUME NEW h \in Handlers, RequestFails(h) PROVE OneExplains'
  <2>1. CASE UNCHANGED <<reactions, told>>
    BY <1>6, <2>1, HandlerMoves, NobodyNewExplains DEF RequestFails
  <2>2. CASE Reacts(h) /\ UNCHANGED told
    <3>1. \A d \in Comments : reactions[d] \subseteq reactions'[d]
      BY <2>2, ReactsForm
    <3> QED
      BY <1>6, <2>2, <3>1, HandlerMoves, NobodyNewExplains DEF RequestFails
  <2>3. CASE /\ At(h, "explain") /\ UNCHANGED reactions
             /\ told' = [told EXCEPT ![handlers[h].comment] = @ + 1]
    BY <1>6, <2>3, ExplainsOnce DEF RequestFails
  <2> QED
    BY <1>6, <2>1, <2>2, <2>3 DEF RequestFails
<1>7. CASE Restart
  <2>1. \A g \in Handlers : handlers'[g].pc = "idle"
    BY <1>7 DEF Restart, FeedbackTypeOK, Handler
  <2> QED
    BY <1>7, <2>1, NobodyNewExplains DEF Restart
<1>8. ASSUME \/ Busy \/ TakeBackReview \/ Toggle \/ UNCHANGED vars
             \/ \E listed \in SUBSET Findings : PostReview(listed)
      PROVE  OneExplains'
  <2>1. UNCHANGED <<handlers, reactions, told>>
    BY <1>8 DEF Busy, TakeBackReview, Toggle, PostReview, vars
  <2> QED
    BY <2>1, NobodyNewExplains
<1> QED
  BY <1>1, <1>2, <1>3, <1>4, <1>5, <1>6, <1>7, <1>8, <1>9,
     ExplainsReact, Steps DEF OtherStep

\* A comment gets one explanation at most, with a confused reaction on it:
\* however its deliveries repeat and requests fail, what GitHub answers to the
\* first confused reaction elects the one handler that explains (confirm_error).
THEOREM OneExplanation == FeedbackSpec => []ExplainedOnce
<1>1. FeedbackTypeOK /\ OneExplains /\ [FeedbackNext]_vars => OneExplains'
  BY ExplainsStep
<1>2. OneExplains => ExplainedOnce
  BY DEF OneExplains, ExplainedOnce
<1> QED
  BY ExplainsInit, <1>1, <1>2, FeedbackTypeCorrect, PTL DEF FeedbackSpec

\* What keeps AnswersAgree: nobody new is about to react, and the pull request
\* may have been closed or opened.
LEMMA NobodyNewReacts ==
    ASSUME FeedbackTypeOK, AnswersAgree, UNCHANGED <<says, events, reactions>>,
           closed => closed', open' \/ closed', unfound \subseteq unfound',
           \A g \in Handlers : handlers'[g].pc = "react" => handlers'[g] = handlers[g]
    PROVE  AnswersAgree'
BY DEF AnswersAgree, At, Justified, Confusing

\* The same when one handler is, for a reason.
LEMMA OneNewReacts ==
    ASSUME FeedbackTypeOK, AnswersAgree, NEW h \in Handlers,
           NEW status \in Outcomes \cup {"refused", "closed"}, Confirms(h, status),
           Justified(status, handlers[h].comment),
           UNCHANGED <<says, open, closed, unfound, events, reactions>>
    PROVE  AnswersAgree'
<1>1. /\ handlers'[h].status = status /\ handlers'[h].comment = handlers[h].comment
      /\ \A g \in Handlers : g # h => handlers'[g] = handlers[g]
  BY HandlerMoves
<1> QED
  BY <1>1 DEF AnswersAgree, At, Justified, Confusing

LEMMA AnswersInit == FeedbackInit => AnswersAgree
BY DEF FeedbackInit, AnswersAgree, At

\* A first outcome is stored: no handler has confirmed one for the comment.
LEMMA AnswersStore ==
    ASSUME FeedbackTypeOK, AnswersAgree, NEW h \in Handlers, Claims(h),
           events[handlers[h].comment] = "none", Store(h, Resolved(h)),
           UNCHANGED <<says, open, closed, unfound, reactions>>
    PROVE  AnswersAgree'
<1> DEFINE c == handlers[h].comment
<1>1. /\ c \in Comments /\ events \in [Comments -> Outcomes]
      /\ \A g \in Handlers : handlers[g].comment \in Comments
  BY HandlerForm DEF FeedbackTypeOK
<1>2. /\ events'[c] = Resolved(h)
      /\ \A d \in Comments : d # c => events'[d] = events[d]
  BY <1>1, StoreForm
<1>3. Resolved(h) \in {"recorded", "no_mapping", "not_current"}
  BY ResolvedForm
<1>4. says[c].kind \notin RefusedKinds
  BY DEF Claims, Refused, RefusedKinds, Saying
<1>5. /\ handlers'[h].pc = "react" /\ handlers'[h].status = Resolved(h)
      /\ handlers'[h].comment = c
      /\ \A g \in Handlers : g # h => handlers'[g] = handlers[g]
  BY ResolvedForm, HandlerMoves DEF Store
<1>6. ASSUME NEW g \in Handlers, handlers'[g].pc = "react"
      PROVE  Justified(handlers[g].status, handlers[g].comment)' 
  <2>1. CASE g = h
    BY <1>2, <1>3, <1>5, <2>1 DEF Justified
  <2>2. CASE g # h
    <3>1. Justified(handlers[g].status, handlers[g].comment) /\ handlers'[g] = handlers[g]
      BY <1>5, <1>6, <2>2 DEF AnswersAgree, At
    <3> QED
      BY <1>1, <1>2, <3>1 DEF Justified
  <2> QED
    BY <2>1, <2>2
<1>7. ASSUME NEW d \in Comments
      PROVE  /\ events'[d] # "none" => says'[d].kind \notin RefusedKinds
             /\ "+1" \in reactions'[d] => events'[d] = "recorded"
             /\ "confused" \in reactions'[d] => Confusing(d)'
  <2>1. CASE d = c
    BY <1>4, <2>1 DEF AnswersAgree, Confusing
  <2>2. CASE d # c
    BY <1>2, <2>2 DEF AnswersAgree, Confusing
  <2> QED
    BY <2>1, <2>2
<1> QED
  BY <1>6, <1>7 DEF AnswersAgree, At

\* The reaction follows from what its handler knows.
LEMMA AnswersReacts ==
    ASSUME FeedbackTypeOK, AnswersAgree, NEW h \in Handlers, At(h, "react"), Reacts(h),
           UNCHANGED <<says, open, closed, unfound, events>>,
           \A g \in Handlers : handlers'[g].pc = "react" => handlers'[g] = handlers[g]
    PROVE  AnswersAgree'
<1> DEFINE c == handlers[h].comment
<1>1. /\ c \in Comments /\ reactions'[c] = reactions[c] \cup {Reaction(h)}
      /\ \A d \in Comments : d # c => reactions'[d] = reactions[d]
  BY HandlerForm, ReactsForm
<1>2. Justified(handlers[h].status, c) /\ handlers[h].status \in Outcomes \cup {"refused", "closed"}
  BY HandlerForm DEF AnswersAgree, Handler
<1>3. /\ Reaction(h) = "+1" => events[c] = "recorded"
      /\ Reaction(h) = "confused" => Confusing(c)
  BY <1>2 DEF Reaction, Justified, Confusing, Outcomes
<1>4. ASSUME NEW d \in Comments
      PROVE  /\ "+1" \in reactions'[d] => events'[d] = "recorded"
             /\ "confused" \in reactions'[d] => Confusing(d)'
  BY <1>1, <1>3 DEF AnswersAgree, Confusing
<1>5. \A g \in Handlers :
         At(g, "react")' => Justified(handlers[g].status, handlers[g].comment)'
  BY DEF AnswersAgree, At, Justified
<1> QED
  BY <1>4, <1>5 DEF AnswersAgree

LEMMA AnswersRecord ==
    ASSUME FeedbackTypeOK, AnswersAgree, NEW h \in Handlers, RecordFeedback(h)
    PROVE  AnswersAgree'
<1> DEFINE c == handlers[h].comment
<1>1. /\ c \in Comments /\ Saying(h) = says[c]
      /\ events[c] \in Outcomes /\ (open \/ closed)
      /\ UNCHANGED <<says, open, closed, unfound, reactions>>
  BY HandlerForm DEF RecordFeedback, Saying, FeedbackTypeOK, AnswersAgree
<1>2. CASE Ends(h) /\ UNCHANGED <<events, records>>
  BY <1>1, <1>2, HandlerMoves, NobodyNewReacts
<1>3. CASE Refused(h) /\ Confirms(h, "refused") /\ UNCHANGED <<events, records>>
  <2>1. Justified("refused", c)
    BY <1>1, <1>3 DEF Justified, Refused, RefusedKinds
  <2> QED
    BY <1>1, <1>3, <2>1, OneNewReacts
<1>4. CASE /\ events[c] # "none" /\ Confirms(h, StoredOutcome(c))
           /\ UNCHANGED <<events, records>>
  <2>1. PICK status \in Outcomes : status = events[c]
    BY <1>1
  <2>2. status \notin {"none", "refused", "closed"}
    BY <1>4, <2>1 DEF Outcomes
  <2>3. Justified(status, c)
    BY <2>1, <2>2 DEF Justified
  <2>4. Confirms(h, status)
    BY <1>4, <2>1 DEF StoredOutcome
  <2> QED
    BY <1>1, <1>4, <2>3, <2>4, OneNewReacts
<1>5. CASE Claims(h) /\ events[c] = "none" /\ Store(h, Resolved(h))
  BY <1>1, <1>5, AnswersStore
<1> QED
  BY <1>2, <1>3, <1>4, <1>5, <1>1 DEF RecordFeedback

LEMMA AnswersStep ==
    ASSUME FeedbackTypeOK, AnswersAgree, [FeedbackNext]_vars PROVE AnswersAgree'
<1>1. open \/ closed
  BY DEF AnswersAgree
<1>2. ASSUME NEW h \in Handlers, FetchComment(h) PROVE AnswersAgree'
  BY <1>1, <1>2, HandlerMoves, NobodyNewReacts DEF FetchComment
<1>3. ASSUME NEW h \in Handlers, FetchPull(h) PROVE AnswersAgree'
  <2>1. CASE Goes(h, "record")
    BY <1>1, <1>3, <2>1, HandlerMoves, NobodyNewReacts DEF FetchPull
  <2>2. CASE ~open /\ Confirms(h, "closed")
    <3>1. Justified("closed", handlers[h].comment)
      BY <1>1, <2>2 DEF Justified
    <3> QED
      BY <1>3, <2>2, <3>1, OneNewReacts DEF FetchPull
  <2> QED
    BY <1>3, <2>1, <2>2 DEF FetchPull
<1>10. ASSUME NEW h \in Handlers, PullNotFound(h) PROVE AnswersAgree'
  <2>1. /\ handlers'[h].status = "closed" /\ handlers'[h].comment = handlers[h].comment
        /\ \A g \in Handlers : g # h => handlers'[g] = handlers[g]
        /\ unfound' = unfound \cup {handlers[h].comment}
        /\ UNCHANGED <<says, open, closed, events, reactions>>
    BY <1>10, HandlerMoves DEF PullNotFound
  <2> QED
    BY <2>1 DEF AnswersAgree, At, Justified, Confusing
<1>4. ASSUME NEW h \in Handlers, NEW c \in Comments, Deliver(h, c) PROVE AnswersAgree'
  <2>1. \A g \in Handlers : handlers'[g].pc = "react" => handlers'[g] = handlers[g]
    BY <1>4 DEF Deliver, FeedbackTypeOK, Handler
  <2> QED
    BY <1>1, <1>4, <2>1, NobodyNewReacts DEF Deliver
<1>5. ASSUME NEW h \in Handlers, Explain(h) PROVE AnswersAgree'
  BY <1>1, <1>5, HandlerMoves, NobodyNewReacts DEF Explain
<1>6. ASSUME NEW h \in Handlers, React(h) PROVE AnswersAgree'
  BY <1>6, HandlerMoves, AnswersReacts DEF React
<1>7. ASSUME NEW h \in Handlers, RequestFails(h) PROVE AnswersAgree'
  <2>1. CASE UNCHANGED reactions
    BY <1>1, <1>7, <2>1, HandlerMoves, NobodyNewReacts DEF RequestFails
  <2>2. CASE At(h, "react") /\ Reacts(h)
    BY <1>7, <2>2, HandlerMoves, AnswersReacts DEF RequestFails
  <2> QED
    BY <1>7, <2>1, <2>2 DEF RequestFails
<1>8. CASE Restart
  <2>1. \A g \in Handlers : handlers'[g].pc = "idle"
    BY <1>8 DEF Restart, FeedbackTypeOK, Handler
  <2> QED
    BY <1>1, <1>8, <2>1, NobodyNewReacts DEF Restart
<1>9. ASSUME \/ Busy \/ TakeBackReview \/ Toggle \/ UNCHANGED vars
             \/ \E listed \in SUBSET Findings : PostReview(listed)
      PROVE  AnswersAgree'
  <2>1. UNCHANGED <<says, handlers, unfound, events, reactions>>
    BY <1>9 DEF Busy, TakeBackReview, Toggle, PostReview, vars
  <2>2. closed' = TRUE \/ UNCHANGED <<open, closed>>
    BY <1>9 DEF Busy, TakeBackReview, Toggle, PostReview, vars
  <2>3. (closed => closed') /\ (open' \/ closed')
    BY <1>1, <2>2
  <2> QED
    BY <2>1, <2>3, NobodyNewReacts
<1> QED
  BY <1>2, <1>3, <1>4, <1>5, <1>6, <1>7, <1>8, <1>9, <1>10,
     AnswersRecord, Steps DEF OtherStep

\* A thumb is on recorded commands only, and a recorded command is refused only
\* after the pull request was closed, or not found for it: a handler confirms what the first
\* transaction stored, whichever handler ran it (stored_replay_outcome).
THEOREM AnswersAreTrue == FeedbackSpec => []ReactionsAgree
<1>1. FeedbackTypeOK /\ AnswersAgree /\ [FeedbackNext]_vars => AnswersAgree'
  BY AnswersStep
<1>2. AnswersAgree => ReactionsAgree
  BY DEF AnswersAgree, ReactionsAgree, Confusing
<1> QED
  BY AnswersInit, <1>1, <1>2, FeedbackTypeCorrect, PTL DEF FeedbackSpec
=============================================================================

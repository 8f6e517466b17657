------------------------------- MODULE FileIndex -------------------------------
(***************************************************************************)
(* The file index of one review run and its coverage: which files of the   *)
(* pull request the run knows, which diffs and ranges its session was      *)
(* given, and what the review finally says of it.                          *)
(*                                                                         *)
(* A step is one request to GitHub or one SQLite transaction.  A push can  *)
(* come between any two of them, so every page and every diff is that of   *)
(* the head of its own moment; a head that has been left does not come     *)
(* back.  A block of a diff is named by its head and its path.             *)
(***************************************************************************)
EXTENDS Naturals, FiniteSets, Sequences, SequencesExt, FiniteSetsExt

CONSTANTS
    Calls,       \* tool calls the session of the run can have open at once
    Paths,       \* file paths: numbers, for GitHub and SQLite list by path
    Heads,       \* heads of the pull request, 0 first
    Listing,     \* Listing[h]: the paths head h changes
    Status,      \* Status[p]: how the pull request changes p
    Weights,     \* the sizes its files may have: functions of Paths
    Bare,        \* paths GitHub gives no patch text for (large or binary)
    PerPage,     \* DEFAULT_PER_PAGE_SEQUENCE
    MaxFiles,    \* MAX_CHANGED_FILES
    PageBytes,   \* ENUMERATION_MAX_BYTES
    DiffBytes,   \* the transport limit of the whole diff
    Budgets,     \* values of max_chars
    ListLimit,   \* the page size of eneo_pr_files
    Ranges,      \* line ranges of a file
    MaxCalls,    \* bound: calls after the first
    MaxFaults    \* bound: requests that fail

ASSUME FileIndexAssumption ==
    /\ Paths \subseteq Nat \ {0} /\ IsFiniteSet(Paths)
    /\ 0 \in Heads /\ Heads \subseteq Nat
    /\ Listing \in [Heads -> SUBSET Paths] /\ Bare \subseteq Paths
    /\ Status \in [Paths -> {"added", "modified", "removed", "renamed"}]
    /\ Weights \subseteq [Paths -> Nat \ {0}] /\ Budgets \subseteq Nat \ {0}
    /\ Ranges # {}
    /\ PerPage \in Seq(Nat \ {0, 1})
    /\ {MaxFiles, ListLimit} \subseteq Nat \ {0}
    /\ {PageBytes, DiffBytes, MaxCalls, MaxFaults} \subseteq Nat

VARIABLES
    head,      \* the head of the pull request
    weight,    \* weight[p]: the size of p and of its diff
    run,       \* the row of the run and its registration
    rows,      \* rows[p]: the row of p in review_run_files
    calls,     \* calls[c]: where a tool call is and what it remembers
    told,      \* the blocks whose diff the session was given, refused, or
               \* asked for too late
    listing,   \* the session's way through the pages of eneo_pr_files
    review,    \* the review: its coverage, and whether it is out
    left       \* what is left of the bounds

vars == <<head, weight, run, rows, calls, told, listing, review, left>>

-----------------------------------------------------------------------------
(* State.                                                                  *)

\* The run's head; "reported" and "registered" are the columns of
\* register_changed_files, "indexed" its verdict on the registration.
Run == [status : {"none", "running", "ended"}, head : Heads,
        reported : Nat, registered : Nat, indexed : BOOLEAN]

\* DiffState; "there" tells that the row exists.
Row == [there : BOOLEAN, changed : BOOLEAN,
        diff : {"unseen", "complete", "truncated", "unavailable"},
        reads : SUBSET ({"head", "base"} \X Ranges)]

NoRow == [there |-> FALSE, changed |-> FALSE, diff |-> "unseen", reads |-> {}]

\* No path: a request for the diff of every file, or no cursor.
All == 0

Blocks == Heads \X Paths

\* A call.  "pass", "page" and "items" are the pager's; "todo" holds the
\* exposures it has still to record, "shows" the blocks it will return,
\* "refuses" those it recorded but hands off; "reads" the ranges it read
\* before it writes them.
Call == [pc : {"idle", "page", "register", "fetch", "store", "file", "merge", "write"},
         kind : {"begin", "diff", "file"}, path : Paths \cup {All},
         chars : Nat, side : {"head", "base"},
         pass : Nat \ {0}, page : Nat \ {0}, items : Seq(Blocks),
         todo : Seq([paths : SUBSET Paths, diff : {"complete", "truncated", "unavailable"}]),
         shows : SUBSET Blocks, refuses : SUBSET Blocks,
         range : Ranges, reads : SUBSET ({"head", "base"} \X Ranges)]

Idle == [pc |-> "idle", kind |-> "begin", path |-> All, chars |-> 0,
         side |-> "head", pass |-> 1, page |-> 1, items |-> <<>>, todo |-> <<>>,
         shows |-> {}, refuses |-> {}, range |-> CHOOSE r \in Ranges : TRUE,
         reads |-> {}]

FileIndexInit ==
    /\ head = 0
    /\ weight \in Weights
    /\ run = [status |-> "none", head |-> 0, reported |-> 0, registered |-> 0,
              indexed |-> FALSE]
    /\ rows = [p \in Paths |-> NoRow]
    /\ calls = [c \in Calls |-> Idle]
    /\ told = [shown |-> {}, refused |-> {}, late |-> {}]
    /\ listing = [cursor |-> All, got |-> <<>>, first |-> {}, done |-> FALSE]
    /\ review = [coverage |-> "none", posted |-> FALSE]
    /\ left = [call |-> MaxCalls, fault |-> MaxFaults]

At(c, step) == calls[c].pc = step

\* The call is over and its answer, if any, has gone to the session.
Ends(c) == calls' = [calls EXCEPT ![c] = Idle]

Ended == run' = [run EXCEPT !.status = "ended"]

\* _review_run_snapshot: the run is running and the pull request is still
\* its snapshot.  A moved one ends the run.
Current == run.status = "running" /\ head = run.head

Outdated == run.status = "running" /\ head # run.head

\* The place of a path in the order of a set of them.
Place(p, S) == Cardinality({q \in S : q <= p})

Ascending(S) == [i \in 1..Cardinality(S) |-> CHOOSE p \in S : Place(p, S) = i]

Bytes(S) == MapThenSumSet(LAMBDA p : weight[p], S)

\* The run is over: the answer of the call is an error.
TooLate(c) == told' = [told EXCEPT !.late = @ \cup calls[c].shows \cup calls[c].refuses]

-----------------------------------------------------------------------------
(* What GitHub answers.                                                    *)

\* Page k, of the given size, of the changed files.
FilesPage(size, k) ==
    {p \in Listing[head] :
        LET place == Place(p, Listing[head])
        IN  (k - 1) * size < place /\ place <= k * size}

AsBlocks(S) == LET order == Ascending(S) IN [i \in DOMAIN order |-> <<head, order[i]>>]

-----------------------------------------------------------------------------
(* Packing diffs: _assemble_chunks.                                        *)

BlocksOf(blocks) == {blocks[i] : i \in DOMAIN blocks}

PathsOf(blocks) == {b[2] : b \in blocks}

\* The blocks at the given places, in their order.
Kept(blocks, places) ==
    LET order == Ascending(places) IN [i \in DOMAIN order |-> blocks[order[i]]]

Cost(blocks, n) == MapThenSumSet(LAMBDA i : weight[blocks[i][2]], 1..n)

\* How many blocks fit, in their order.
Packed(blocks, chars) ==
    Max({0} \cup {n \in 1..Len(blocks) : Cost(blocks, n) <= chars})

\* The blocks returned whole for the path, and the one cut at the budget.
Assembled(blocks, path, chars) ==
    LET found == Kept(blocks, {i \in DOMAIN blocks : path \in {All, blocks[i][2]}})
        one == SubSeq(found, 1, Min({1, Len(found)}))
        taken == IF path = All THEN found ELSE one
        n == Packed(taken, chars)
    IN  [whole |-> BlocksOf(SubSeq(taken, 1, n)),
         cut |-> IF n = 0 THEN BlocksOf(one) ELSE {}]

\* One exposure to record, unless it is empty.
Write(paths, diff) == IF paths = {} THEN <<>> ELSE <<[paths |-> paths, diff |-> diff]>>

\* Broken: the state of the patch is stored for the state of the diff.
ExposuresByPatch(lost, packed) ==
    Write(lost, "missing") \o Write(PathsOf(packed.whole), "complete")
        \o Write(PathsOf(packed.cut), "truncated")

\* The exposures a diff call records, in their order.
Exposures(lost, packed) ==
    Write(lost, "unavailable") \o Write(PathsOf(packed.whole), "complete")
        \o Write(PathsOf(packed.cut), "truncated")

-----------------------------------------------------------------------------
(* The pager: enumerate_changed_files.                                     *)

\* _pr_diff_from_patches on an index: a path without a block is handed off;
\* a request for one path is handed off as well when any path lacks its patch.
FromPatches(c, items) ==
    LET ask == calls[c]
        lost == PathsOf(BlocksOf(items)) \cap Bare
        shown == {i \in DOMAIN items : items[i][2] \notin Bare}
        packed == Assembled(Kept(items, shown), ask.path, ask.chars)
        handoff == ask.path # All /\ lost # {}
    IN  IF ask.path # All /\ ask.path \notin PathsOf(BlocksOf(items))
        THEN Ends(c)
        ELSE calls' = [calls EXCEPT
                 ![c].pc = "store", ![c].items = <<>>,
                 ![c].todo = Exposures(lost, packed),
                 ![c].shows = IF handoff THEN {} ELSE packed.whole,
                 ![c].refuses = IF handoff THEN packed.whole ELSE {}]

\* pr_file reads a side that exists, or hands the request off.
FromFile(c, changed) ==
    LET ask == calls[c]
        readable == IF changed
                    THEN <<Status[ask.path], ask.side>> \notin
                             {<<"added", "base">>, <<"removed", "head">>}
                    ELSE ask.side = "head"
    IN  \/ readable /\ calls' = [calls EXCEPT ![c].pc = "merge", ![c].items = <<>>]
        \/ Ends(c)

\* The whole list is there.
Listed(c, items) ==
    CASE calls[c].kind = "begin" ->
             calls' = [calls EXCEPT ![c].pc = "register", ![c].items = items]
      [] calls[c].kind = "diff" -> FromPatches(c, items)
      [] calls[c].kind = "file" ->
             FromFile(c, calls[c].path \in PathsOf(BlocksOf(items)))

\* A pass of one page size: an overflowing page gives the pass up for the
\* next smaller size.
FullPass(c) ==
    LET ask == calls[c]
        size == PerPage[ask.pass]
        page == FilesPage(size, ask.page)
        items == ask.items \o AsBlocks(page)
    IN  /\ At(c, "page") /\ ask.pass <= Len(PerPage)
        /\ IF Bytes(page) > PageBytes
           THEN calls' = [calls EXCEPT ![c].pass = @ + 1, ![c].page = 1,
                                       ![c].items = <<>>]
           ELSE IF Cardinality(page) < size \/ Len(items) >= MaxFiles
           THEN Listed(c, SubSeq(items, 1, Min({Len(items), MaxFiles})))
           ELSE calls' = [calls EXCEPT ![c].page = @ + 1, ![c].items = items]
        /\ UNCHANGED <<head, weight, run, rows, told, listing, review, left>>

\* The last pass, file by file: one that overflows is left out.
TerminalPass(c) ==
    LET ask == calls[c]
        page == FilesPage(1, ask.page)
        fits == Bytes(page) <= PageBytes
        items == IF fits THEN ask.items \o AsBlocks(page) ELSE ask.items
    IN  /\ At(c, "page") /\ ask.pass > Len(PerPage)
        /\ IF \/ fits /\ page = {}
              \/ ask.page = MaxFiles \/ Len(items) = MaxFiles
           THEN Listed(c, items)
           ELSE calls' = [calls EXCEPT ![c].page = @ + 1, ![c].items = items]
        /\ UNCHANGED <<head, weight, run, rows, told, listing, review, left>>

-----------------------------------------------------------------------------
(* review_begin.                                                           *)

\* The run starts on the head the pull request had when it was read.
Begin(c, h) ==
    /\ run.status = "none" /\ h <= head
    /\ run' = [run EXCEPT !.status = "running", !.head = h]
    /\ calls' = [calls EXCEPT ![c].pc = "page"]
    /\ UNCHANGED <<head, weight, rows, told, listing, review, left>>

\* register_changed_files, of a list of n paths, "paths" being the different
\* ones.
Registers(paths, n) ==
    LET reported == Max({Cardinality(Listing[head]), n})
        registered == Cardinality(paths)
    IN  /\ rows' = [p \in Paths |->
               IF p \in paths THEN [rows[p] EXCEPT !.there = TRUE, !.changed = TRUE]
                              ELSE rows[p]]
        /\ run' = [run EXCEPT !.reported = reported, !.registered = registered,
               !.indexed = n >= reported /\ registered = reported]

\* Broken: the snapshot is not looked at again after the listing.
RegisterUnchecked(c) ==
    LET items == calls[c].items
    IN  /\ At(c, "register")
        /\ IF run.status = "running"
           THEN Registers(PathsOf(BlocksOf(items)), Len(items))
           ELSE UNCHANGED <<run, rows>>
        /\ Ends(c)
        /\ UNCHANGED <<head, weight, told, listing, review, left>>

Register(c) ==
    LET items == calls[c].items
    IN  /\ At(c, "register")
        /\ \/ Current /\ Registers(PathsOf(BlocksOf(items)), Len(items))
           \/ Outdated /\ Ended /\ UNCHANGED rows
           \/ run.status = "ended" /\ UNCHANGED <<run, rows>>
        /\ Ends(c)
        /\ UNCHANGED <<head, weight, told, listing, review, left>>

-----------------------------------------------------------------------------
(* The tools of the session, which has the run's id once review_begin has  *)
(* returned.                                                               *)

Begun ==
    /\ run.status # "none"
    /\ \A c \in Calls : At(c, "idle") \/ calls[c].kind # "begin"

Opens(c, call) ==
    /\ Begun /\ At(c, "idle") /\ left.call > 0
    /\ left' = [left EXCEPT !.call = @ - 1]
    /\ \/ Current /\ UNCHANGED run /\ calls' = [calls EXCEPT ![c] = call]
       \/ Outdated /\ Ended /\ UNCHANGED calls

StartDiff(c, path, chars) ==
    /\ Opens(c, [Idle EXCEPT !.pc = "fetch", !.kind = "diff", !.path = path,
                             !.chars = chars])
    /\ UNCHANGED <<head, weight, rows, told, listing, review>>

\* The diff of the head of the moment.  GitHub may refuse it (406) and may
\* leave paths out.
FetchDiff(c) ==
    LET ask == calls[c]
        patches == calls' = [calls EXCEPT ![c].pc = "page"]
        unpacked(shown) == Assembled(AsBlocks(shown), ask.path, ask.chars)
    IN  /\ At(c, "fetch")
        /\ \/ patches
           \/ /\ Bytes(Listing[head]) <= DiffBytes
              /\ \E shown \in SUBSET Listing[head] :
                     IF ask.path \in {All} \cup shown
                     THEN calls' = [calls EXCEPT ![c].pc = "store",
                              ![c].todo = Exposures({}, unpacked(shown)),
                              ![c].shows = unpacked(shown).whole]
                     ELSE patches
        /\ UNCHANGED <<head, weight, run, rows, told, listing, review, left>>

\* record_diff_exposure, for the next of the call's exposures.
StoreExposure(c) ==
    LET write == Head(calls[c].todo)
    IN  /\ At(c, "store") /\ calls[c].todo # <<>>
        /\ IF run.status = "running"
           THEN /\ rows' = [p \in Paths |->
                       IF p \in write.paths
                       THEN [rows[p] EXCEPT !.there = TRUE, !.diff = write.diff]
                       ELSE rows[p]]
                /\ calls' = [calls EXCEPT ![c].todo = Tail(@)]
                /\ UNCHANGED told
           ELSE UNCHANGED rows /\ Ends(c) /\ TooLate(c)
        /\ UNCHANGED <<head, weight, run, listing, review, left>>

\* The phase moves on, unless the run is over, and the answer is returned.
AnswerDiff(c) ==
    /\ At(c, "store") /\ calls[c].todo = <<>>
    /\ IF run.status = "running"
       THEN told' = [told EXCEPT !.shown = @ \cup calls[c].shows,
                                 !.refused = @ \cup calls[c].refuses]
       ELSE TooLate(c)
    /\ Ends(c)
    /\ UNCHANGED <<head, weight, run, rows, listing, review, left>>

StartFile(c, path, side, range) ==
    /\ Opens(c, [Idle EXCEPT !.pc = "file", !.kind = "file", !.path = path,
                             !.side = side, !.range = range])
    /\ UNCHANGED <<head, weight, rows, told, listing, review>>

\* lookup_run_file: the registered row decides, a complete index without the
\* path makes it unchanged context, any other index asks GitHub again.
LookupFile(c) ==
    /\ At(c, "file")
    /\ IF run.status # "running" THEN Ends(c)
       ELSE IF rows[calls[c].path].changed THEN FromFile(c, TRUE)
       ELSE IF run.indexed THEN FromFile(c, FALSE)
       ELSE calls' = [calls EXCEPT ![c].pc = "page"]
    /\ UNCHANGED <<head, weight, run, rows, told, listing, review, left>>

\* record_file_range reads the ranges of the side before its transaction ...
MergeRanges(c) ==
    LET ask == calls[c]
        before == {r \in rows[ask.path].reads : r[1] = ask.side}
    IN  /\ At(c, "merge")
        /\ IF run.status = "running"
           THEN calls' = [calls EXCEPT ![c].pc = "write",
                    ![c].reads = before \cup {<<ask.side, ask.range>>}]
           ELSE Ends(c)
        /\ UNCHANGED <<head, weight, run, rows, told, listing, review, left>>

\* ... and writes the column whole.
WriteRanges(c) ==
    LET ask == calls[c]
        others == {r \in rows[ask.path].reads : r[1] # ask.side}
    IN  /\ At(c, "write")
        /\ rows' = [rows EXCEPT ![ask.path].there = TRUE,
                                ![ask.path].reads = others \cup ask.reads]
        /\ Ends(c)
        /\ UNCHANGED <<head, weight, run, told, listing, review, left>>

\* Broken: the next page starts at an offset.
PageAtOffset(there) ==
    LET n == Min({Len(listing.got), Cardinality(there)})
    IN  SubSeq(Ascending(there), n + 1, Cardinality(there))

\* list_run_files: the rows after the cursor.
PageAfterCursor(there) == Ascending({p \in there : p > listing.cursor})

\* eneo_pr_files on every row, changed or read as context.
ListFiles ==
    LET there == {p \in Paths : rows[p].there}
        rest == PageAfterCursor(there)
        page == SubSeq(rest, 1, Min({ListLimit, Len(rest)}))
        more == Len(rest) > ListLimit
    IN  /\ Begun /\ ~listing.done
        /\ \/ /\ Current /\ UNCHANGED run
              /\ listing' = [cursor |-> IF more THEN page[ListLimit] ELSE listing.cursor,
                             got |-> listing.got \o page,
                             first |-> IF listing.cursor = All THEN there
                                                             ELSE listing.first,
                             done |-> ~more]
           \/ Outdated /\ Ended /\ UNCHANGED listing
        /\ UNCHANGED <<head, weight, rows, calls, told, review, left>>

-----------------------------------------------------------------------------
(* The review.                                                             *)

\* Broken: the registration is not asked whether it is complete.
CoverageOfRows ==
    LET changed == {p \in Paths : rows[p].changed}
    IN  CASE \A p \in Paths : ~rows[p].there -> "unknown"
          [] changed # {} /\ \A p \in changed : rows[p].diff = "complete" -> "complete"
          [] OTHER -> "incomplete"

\* coverage_summary.
Coverage ==
    LET changed == {p \in Paths : rows[p].changed}
    IN  CASE \A p \in Paths : ~rows[p].there -> "unknown"
          [] /\ run.registered > 0 /\ run.indexed
             /\ Cardinality({p \in changed : rows[p].diff = "complete"}) = run.registered
             /\ \A p \in changed : rows[p].diff \notin {"unavailable", "truncated"}
                 -> "complete"
          [] OTHER -> "incomplete"

\* The session finalizes; nothing asks whether calls of it are still open.
Finalize ==
    /\ Begun /\ review.coverage = "none"
    /\ \/ Current /\ review' = [review EXCEPT !.coverage = Coverage] /\ UNCHANGED run
       \/ Outdated /\ Ended /\ UNCHANGED review
    /\ UNCHANGED <<head, weight, rows, calls, told, listing, left>>

\* publish_review looks at the head once more; either way the run is over.
Publish ==
    /\ review.coverage # "none" /\ run.status = "running"
    /\ Ended
    /\ review' = [review EXCEPT !.posted = head = run.head]
    /\ UNCHANGED <<head, weight, rows, calls, told, listing, left>>

-----------------------------------------------------------------------------
(* The environment.                                                        *)

Push ==
    /\ head + 1 \in Heads
    /\ head' = head + 1
    /\ UNCHANGED <<weight, run, rows, calls, told, listing, review, left>>

\* Another review supersedes the run, or a reaper or operator ends it.
EndRun ==
    /\ run.status = "running"
    /\ Ended
    /\ UNCHANGED <<head, weight, rows, calls, told, listing, review, left>>

\* A request to GitHub fails: the tool returns an error, and review_begin
\* marks its run failed.
RequestFails(c) ==
    /\ calls[c].pc \in {"page", "register", "fetch"} /\ left.fault > 0
    /\ left' = [left EXCEPT !.fault = @ - 1]
    /\ IF calls[c].kind = "begin" THEN Ended ELSE UNCHANGED run
    /\ Ends(c)
    /\ UNCHANGED <<head, weight, rows, told, listing, review>>

FileIndexNext ==
    \/ \E c \in Calls, h \in Heads : Begin(c, h)
    \/ \E c \in Calls :
           \/ FullPass(c) \/ TerminalPass(c) \/ Register(c)
           \/ FetchDiff(c) \/ StoreExposure(c) \/ AnswerDiff(c)
           \/ LookupFile(c) \/ MergeRanges(c) \/ WriteRanges(c)
           \/ RequestFails(c)
    \/ \E c \in Calls, path \in Paths \cup {All}, chars \in Budgets :
           StartDiff(c, path, chars)
    \/ \E c \in Calls, path \in Paths, side \in {"head", "base"}, range \in Ranges :
           StartFile(c, path, side, range)
    \/ ListFiles \/ Finalize \/ Publish
    \/ Push \/ EndRun

FileIndexSpec == FileIndexInit /\ [][FileIndexNext]_vars

-----------------------------------------------------------------------------
\* Every variable holds values the columns and the calls can have.
FileIndexTypeOK ==
    /\ head \in Heads
    /\ run \in Run
    /\ rows \in [Paths -> Row]
    /\ calls \in [Calls -> Call]
    /\ told \in [shown : SUBSET Blocks, refused : SUBSET Blocks, late : SUBSET Blocks]
    /\ review.coverage \in {"none", "unknown", "incomplete", "complete"}

\* A registration called complete holds the changed files of the head under
\* review and no others, whatever was pushed between two pages of the list,
\* or between the list and the registration.
RegistrationIsOfTheHead ==
    run.indexed => {p \in Paths : rows[p].changed} = Listing[run.head]

\* A tool call of the session has the block whole, or had it when it ended.
Held(b) ==
    \/ b \in told.shown \cup told.refused \cup told.late
    \/ \E c \in Calls : b \in calls[c].shows \cup calls[c].refuses

\* A review that came out with complete coverage is one whose session called
\* for the diff of every file of its head and had it fetched whole, of that
\* head and of no other.  Blocks it was refused after they had been recorded
\* count (see CompleteMeansReturned), and so do those of calls that were open
\* when it delivered.
CompleteCoverageWasSeen ==
    review.posted /\ review.coverage = "complete" =>
        \A p \in Listing[run.head] : Held(<<run.head, p>>)

\* A session that follows the cursor to the end gets every row that was
\* there when it began, and none twice, although its own reads of context
\* add rows between the pages.
ListingMissesNothing ==
    /\ IsInjective(listing.got)
    /\ listing.done => listing.first \subseteq ToSet(listing.got)

\* What the comment in _pr_diff_from_patches says ("Fully returned files are
\* complete exposure"): a review with complete coverage rests on diffs that
\* were returned, or would have been had the session not delivered before.
CompleteMeansReturned ==
    review.posted /\ review.coverage = "complete" =>
        \A p \in Listing[run.head] :
            \/ <<run.head, p>> \in told.shown \cup told.late
            \/ \E c \in Calls : <<run.head, p>> \in calls[c].shows
=============================================================================

----------------------------- MODULE ResearchPage -----------------------------
(***************************************************************************)
(* The activity page (ResearchActivity.tsx) against a server that goes on  *)
(* working: a polling loop that reads every company separately and shows   *)
(* what it read when all have been read, deletion of a company's research, *)
(* and the page of one company with its button for fresh research.         *)
(*                                                                         *)
(* A behaviour is one mounting of the page; another starts from PageInit.  *)
(* The server is the statuses of its runs: waiting and running ones are    *)
(* active, and each one ends (ResearchJobs!EventuallySettled).  An answer  *)
(* is the runs of a company at one moment; its wording, the delays between *)
(* polls, the filter by the companies queued last and the search field     *)
(* that opens a company are left out.                                      *)
(***************************************************************************)
EXTENDS Integers, FiniteSets

CONSTANTS
  Companies,
  NoCompany,
  LastRun,      \* bound on research runs
  LastPoll,     \* bound on polling loops: the first and one for each press of Retry
  MaxFailures   \* bound on polls that fail

ASSUME PageAssumption ==
  /\ NoCompany \notin Companies
  /\ LastRun \in Nat /\ LastPoll \in Nat \ {0} /\ MaxFailures \in Nat

Polls == 1..LastPoll
Run(id, c, status) == [id |-> id, company |-> c, status |-> status]
\* Not read yet; different from every set of runs.
Unread == {Run(0, NoCompany, "unread")}

VARIABLES
  runs,       \* research runs in the database
  queued,     \* runs queued so far
  polls,      \* the polling loops: their phase, what they have read, whether aborted
  shown,      \* the runs shown for each company
  failed,     \* an error with its Retry button is shown
  failures,   \* polls that have failed
  deletions,  \* DELETE requests under way, by company
  opened,     \* the company whose page is open
  detail,     \* the runs that page has
  button,     \* its button for fresh research
  posts       \* submissions of fresh research under way

pageVars == <<runs, queued, polls, shown, failed, failures, deletions, opened, detail, button,
          posts>>
server == <<runs, queued>>
polling == <<polls, failures>>
company == <<opened, detail, button, posts>>

RunsOf(c) == {r \in runs : r.company = c}
Active(rs) == \E r \in rs : r.status = "active"
AllUnread == [c \in Companies |-> Unread]
Loop(phase) == [phase |-> phase, read |-> AllUnread, aborted |-> FALSE]

PageInit ==
  /\ \E old \in SUBSET Companies :
       /\ runs = {Run(0, c, "ended") : c \in old}
       /\ queued = 0
  /\ polls = [p \in Polls |-> IF p = 1 THEN Loop("reading") ELSE Loop("unused")]
  /\ shown = AllUnread
  /\ failed = FALSE /\ failures = 0
  /\ deletions = [c \in Companies |-> "none"]
  /\ opened = NoCompany /\ detail = {} /\ button = "idle" /\ posts = {}

-----------------------------------------------------------------------------
(* The polling loop *)

\* Every step of a loop after an await looks whether the loop has been aborted.
Discarded(p) == polls[p].aborted

ReadCompany(p, c) ==
  /\ polls[p].phase = "reading" /\ polls[p].read[c] = Unread
  /\ polls' = [polls EXCEPT ![p].read[c] = RunsOf(c)]
  /\ UNCHANGED <<server, shown, failed, failures, deletions, company>>

\* Mutant: what was read is merged into the list, which keeps the rows that are missing.
Merged(answer, c) == IF answer[c] = {} /\ shown[c] # Unread THEN shown[c] ELSE answer[c]

\* setCompanies(researched): the companies without runs are dropped.
Listed(answer, c) == answer[c]

\* The page of a company is left: what it has sent goes on without it.
Close ==
  /\ opened' = NoCompany /\ detail' = {} /\ button' = "idle"
  /\ posts' = {[m EXCEPT !.here = FALSE] : m \in posts}

\* The open company follows, or is closed when its research is gone.  The next poll is due in
\* 2.5 or 15 seconds, and after an error in 5.
Show(p) ==
  /\ polls[p].phase = "reading"
  /\ \A c \in Companies : polls[p].read[c] # Unread
  /\ ~Discarded(p)
  /\ shown' = [c \in Companies |-> Listed(polls[p].read, c)]
  /\ failed' = FALSE
  /\ polls' = [polls EXCEPT ![p].phase = "waiting"]
  /\ IF opened = NoCompany THEN UNCHANGED company
     ELSE IF polls[p].read[opened] = {} THEN Close
     ELSE detail' = polls[p].read[opened] /\ UNCHANGED <<opened, button, posts>>
  /\ UNCHANGED <<server, failures, deletions>>

ReadFails(p) ==
  /\ polls[p].phase = "reading" /\ failures < MaxFailures
  /\ ~Discarded(p)
  /\ failed' = TRUE /\ failures' = failures + 1
  /\ polls' = [polls EXCEPT ![p].phase = "waiting"]
  /\ UNCHANGED <<server, shown, deletions, company>>

Ends(p) ==
  /\ polls[p].phase = "reading" /\ Discarded(p)
  /\ polls' = [polls EXCEPT ![p].phase = "over"]
  /\ UNCHANGED <<server, shown, failed, failures, deletions, company>>

TimerFires(p) ==
  /\ polls[p].phase = "waiting"
  /\ polls' = [polls EXCEPT ![p] = [Loop("reading") EXCEPT !.aborted = polls[p].aborted]]
  /\ UNCHANGED <<server, shown, failed, failures, deletions, company>>

\* Pressed in the list: the clean-up aborts the loop and its timer, the effect starts another.
Retry(p) ==
  /\ failed /\ opened = NoCompany
  /\ p + 1 \in Polls /\ polls[p].phase # "unused" /\ polls[p + 1].phase = "unused"
  /\ polls' = [polls EXCEPT
       ![p].aborted = TRUE, ![p].phase = IF @ = "waiting" THEN "over" ELSE @,
       ![p + 1] = Loop("reading")]
  /\ shown' = AllUnread
  /\ failed' = FALSE
  /\ UNCHANGED <<server, failures, deletions, company>>

-----------------------------------------------------------------------------
(* Deletion of a company's research *)

RemoveResearch(c) ==
  /\ opened = NoCompany
  /\ shown[c] \notin {{}, Unread} /\ deletions[c] = "none"
  /\ deletions' = [deletions EXCEPT ![c] = "sent"]
  /\ failed' = FALSE
  /\ UNCHANGED <<server, polling, shown, company>>

ServerDeletes(c) ==
  /\ deletions[c] = "sent"
  /\ runs' = runs \ RunsOf(c)
  /\ deletions' = [deletions EXCEPT ![c] = "deleted"]
  /\ UNCHANGED <<queued, polling, shown, failed, company>>

\* The row is taken out of the list, if the list has been read.
RowRemoved(c) ==
  /\ deletions[c] = "deleted"
  /\ deletions' = [deletions EXCEPT ![c] = "none"]
  /\ shown' = IF shown[c] = Unread THEN shown ELSE [shown EXCEPT ![c] = {}]
  /\ UNCHANGED <<server, polling, failed, company>>

\* The request or its answer is lost.
RemovalFails(c) ==
  /\ deletions[c] # "none"
  /\ deletions' = [deletions EXCEPT ![c] = "none"]
  /\ failed' = TRUE
  /\ UNCHANGED <<server, polling, shown, company>>

-----------------------------------------------------------------------------
(* The page of one company *)

OpenCompany(c) ==
  /\ opened = NoCompany /\ shown[c] \notin {{}, Unread}
  /\ opened' = c /\ detail' = shown[c] /\ button' = "idle"
  /\ UNCHANGED <<server, polling, shown, failed, deletions, posts>>

Back ==
  /\ opened # NoCompany
  /\ Close
  /\ UNCHANGED <<server, polling, shown, failed, deletions>>

\* What counts is what the last poll showed: another run may be active by now.
RefreshResearch ==
  /\ opened # NoCompany /\ button = "idle"
  /\ ~Active(detail)
  /\ button' = "submitting"
  /\ posts' = posts \union {[company |-> opened, stored |-> FALSE, here |-> TRUE]}
  /\ UNCHANGED <<server, polling, shown, failed, deletions, opened, detail>>

\* submit queues a run for the fresh key.
Queue(c) ==
  /\ queued < LastRun
  /\ queued' = queued + 1
  /\ runs' = runs \union {Run(queued + 1, c, "active")}

Receive(m) ==
  /\ ~m.stored
  /\ Queue(m.company)
  /\ posts' = (posts \ {m}) \union {[m EXCEPT !.stored = TRUE]}
  /\ UNCHANGED <<polling, shown, failed, deletions, opened, detail, button>>

\* A page that was left hears of nothing.
PostAnswered(m) ==
  /\ m.stored
  /\ posts' = posts \ {m}
  /\ button' = IF m.here THEN "queued" ELSE button
  /\ UNCHANGED <<server, polling, shown, failed, deletions, opened, detail>>

\* The request or its answer is lost, and what was sent may arrive late.
PostFails(m) ==
  /\ \E late \in {{}} \union (IF m.stored THEN {} ELSE {{[m EXCEPT !.here = FALSE]}}) :
       posts' = (posts \ {m}) \union late
  /\ button' = IF m.here THEN "idle" ELSE button
  /\ UNCHANGED <<server, polling, shown, failed, deletions, opened, detail>>

-----------------------------------------------------------------------------
(* The server *)

\* A run is queued from elsewhere: the discovery page or another browser.
QueuedElsewhere(c) ==
  /\ Queue(c)
  /\ UNCHANGED <<polling, shown, failed, deletions, company>>

RunEnds(r) ==
  /\ r.status = "active"
  /\ runs' = (runs \ {r}) \union {[r EXCEPT !.status = "ended"]}
  /\ UNCHANGED <<queued, polling, shown, failed, deletions, company>>

SomeRunEnds == \E r \in runs : RunEnds(r)

PollStep(p) ==
  \/ Show(p) \/ Ends(p) \/ TimerFires(p)
  \/ \E c \in Companies : ReadCompany(p, c)

PageNext ==
  \/ \E p \in Polls : PollStep(p) \/ ReadFails(p) \/ Retry(p)
  \/ \E c \in Companies : \/ RemoveResearch(c) \/ ServerDeletes(c) \/ RowRemoved(c)
                          \/ RemovalFails(c) \/ OpenCompany(c) \/ QueuedElsewhere(c)
  \/ Back \/ RefreshResearch
  \/ \E m \in posts : Receive(m) \/ PostAnswered(m) \/ PostFails(m)
  \/ SomeRunEnds

\* Timers fire, requests have an end, runs end; the user and the network owe nothing.
PageFairness == WF_pageVars(SomeRunEnds) /\ \A p \in Polls : WF_pageVars(PollStep(p))

PageSpec == PageInit /\ [][PageNext]_pageVars /\ PageFairness

-----------------------------------------------------------------------------
\* A page that stays open comes to show what the server has, whatever was deleted, queued or
\* lost in between: a poll that began before a deletion brings the rows back, the next one
\* takes them out again.
PageCatchesUp == <>[](\A c \in Companies : shown[c] = RunsOf(c))
=============================================================================

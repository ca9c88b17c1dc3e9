--------------------------- MODULE ResearchSelection ---------------------------
(***************************************************************************)
(* The browser's way from found companies to research runs: the selection  *)
(* of DiscoveryWorkspace.tsx, its confirmation, and one POST               *)
(* /research-runs per company, for one saved profile version.  A POST can  *)
(* be lost, can be stored without its answer arriving, and can be stored   *)
(* after the browser has counted it as failed; the user can leave and come *)
(* back, which mounts another instance of the page, and reload.            *)
(*                                                                         *)
(* When something was queued the page hands over to the activity page in   *)
(* the same batch of React updates that takes the queued companies out of  *)
(* the selection: the page is unmounted, its update is dropped, and the    *)
(* effect that saves the selection does not run.                           *)
(***************************************************************************)
EXTENDS Integers, FiniteSets

CONSTANTS
  Candidates,     \* candidates of the discovery run, each with one domain
  MaxSelected,   \* companies that can be selected: 10
  LastChoice,    \* bound on the discovery runs shown one after another
  LastResearch   \* bound on the presses of "Research selected"

ASSUME SelectionAssumption ==
  MaxSelected \in Nat /\ LastChoice \in Nat \ {0} /\ LastResearch \in Nat

Presses == 1..LastResearch

VARIABLES
  mounted,   \* whether the discovery page is mounted
  workspace, \* the discovery run it shows and the companies selected
  presses,   \* what became of each press of "Research selected"
  storedRuns \* research runs in the database, and the press each one answers

selectionVars == <<mounted, workspace, presses, storedRuns>>

\* A POST is on its way, stored, answered, or counted as failed and perhaps late.
PostStates == {"none", "sent", "stored", "fulfilled", "rejected", "late"}

Unused == [phase |-> "unused", choice |-> 0, asked |-> {}, here |-> FALSE,
           posts |-> [c \in Candidates |-> "none"]]

SelectionInit ==
  /\ mounted = TRUE
  /\ workspace = [choice |-> 1, selected |-> {}]
  /\ presses = [n \in Presses |-> Unused]
  /\ storedRuns = {}

UnderWay == {n \in Presses : presses[n].phase \in {"confirming", "posting"}}

\* The instance of the page that is mounted is busy.
Busy == \E n \in UnderWay : presses[n].here

\* What is left of a press that nobody waits for: the submissions that can still arrive.
Over(press) ==
  [press EXCEPT !.phase = "over", !.asked = {}, !.here = FALSE,
     !.posts = [c \in Candidates |-> IF @[c] \in {"sent", "late"} THEN "late" ELSE "none"]]

Unmounted == [n \in Presses |-> [presses[n] EXCEPT !.here = FALSE]]

-----------------------------------------------------------------------------
(* The page *)

Toggle(c) ==
  /\ mounted
  /\ workspace' =
       [workspace EXCEPT !.selected =
          IF c \in @ THEN @ \ {c}
          ELSE IF Cardinality(@) < MaxSelected THEN @ \union {c} ELSE @]
  /\ UNCHANGED <<mounted, presses, storedRuns>>

ClearSelection ==
  /\ mounted /\ ~Busy
  /\ workspace' = [workspace EXCEPT !.selected = {}]
  /\ UNCHANGED <<mounted, presses, storedRuns>>

\* The server answers with its recent discovery run or with a new one.
RefreshResults ==
  /\ mounted /\ ~Busy
  /\ \E ch \in {workspace.choice, workspace.choice + 1} :
       ch <= LastChoice /\ workspace' = [choice |-> ch, selected |-> {}]
  /\ UNCHANGED <<mounted, presses, storedRuns>>

Research(n) ==
  /\ mounted /\ ~Busy
  /\ workspace.selected # {}
  /\ presses[n] = Unused /\ \A m \in 1..n - 1 : presses[m] # Unused
  /\ presses' = [presses EXCEPT ![n] =
       [Unused EXCEPT !.phase = "confirming", !.choice = workspace.choice,
                      !.asked = workspace.selected, !.here = TRUE]]
  /\ UNCHANGED <<mounted, workspace, storedRuns>>

\* The confirmation answers the companies in the order of the domains; all are submitted.
Confirmed(n) ==
  /\ presses[n].phase = "confirming"
  /\ presses' = [presses EXCEPT
       ![n].phase = "posting",
       ![n].posts = [c \in Candidates |-> IF c \in presses[n].asked THEN "sent" ELSE "none"]]
  /\ UNCHANGED <<mounted, workspace, storedRuns>>

ConfirmFails(n) ==
  /\ presses[n].phase = "confirming"
  /\ presses' = [presses EXCEPT ![n] = Over(@)]
  /\ UNCHANGED <<mounted, workspace, storedRuns>>

Succeeded(n) == {c \in presses[n].asked : presses[n].posts[c] = "fulfilled"}

Remaining(selected, succeeded) == selected \ succeeded

\* Promise.allSettled: every submission has been answered or has failed.
Settled(n) ==
  /\ presses[n].phase = "posting"
  /\ \A c \in presses[n].asked : presses[n].posts[c] \in {"fulfilled", "rejected", "late"}
  /\ IF Succeeded(n) = {}
       THEN /\ workspace' = IF presses[n].here
                             THEN [workspace EXCEPT !.selected = Remaining(@, Succeeded(n))]
                             ELSE workspace
            /\ presses' = [presses EXCEPT ![n] = Over(@)]
            /\ UNCHANGED mounted
       ELSE /\ mounted' = FALSE
            /\ presses' = [Unmounted EXCEPT ![n] = Over(@)]
            /\ UNCHANGED workspace
  /\ UNCHANGED storedRuns

Leave ==
  /\ mounted
  /\ mounted' = FALSE
  /\ presses' = Unmounted
  /\ UNCHANGED <<workspace, storedRuns>>

\* The selection is read back from the cache, or after a reload from the session storage.
Return ==
  /\ ~mounted
  /\ mounted' = TRUE
  /\ UNCHANGED <<workspace, presses, storedRuns>>

\* What was sent may still arrive; nobody waits for it.
Reload ==
  /\ mounted' = FALSE
  /\ presses' = [n \in Presses |-> IF n \in UnderWay THEN Over(presses[n]) ELSE presses[n]]
  /\ UNCHANGED <<workspace, storedRuns>>

-----------------------------------------------------------------------------
(* Submissions on their way, and the server *)

\* Mutant: a fresh key for every press.
FreshKey(n, c) == <<n, c>>

\* The idempotency key of a submission; the profile version in it is always the same.
Key(n, c) == <<presses[n].choice, c>>

NewRun(n, c) == [key |-> Key(n, c), choice |-> presses[n].choice, company |-> c, by |-> n]

\* submit: the run of the key is found, or queued.
SubmissionArrives(n, c) ==
  /\ presses[n].posts[c] \in {"sent", "late"}
  /\ presses' = [presses EXCEPT ![n].posts[c] =
       IF @ = "sent" THEN "stored" ELSE IF presses[n].phase = "over" THEN "none" ELSE "rejected"]
  /\ storedRuns' = IF \E r \in storedRuns : r.key = Key(n, c) THEN storedRuns
                   ELSE storedRuns \union {NewRun(n, c)}
  /\ UNCHANGED <<mounted, workspace>>

Answered(n, c) ==
  /\ presses[n].phase = "posting" /\ presses[n].posts[c] = "stored"
  /\ presses' = [presses EXCEPT ![n].posts[c] = "fulfilled"]
  /\ UNCHANGED <<mounted, workspace, storedRuns>>

\* The request or its answer is lost, or the server refuses.
SubmissionFails(n, c) ==
  /\ presses[n].phase = "posting" /\ presses[n].posts[c] \in {"sent", "stored"}
  /\ \E as \in {"rejected"} \union (IF presses[n].posts[c] = "sent" THEN {"late"} ELSE {}) :
       presses' = [presses EXCEPT ![n].posts[c] = as]
  /\ UNCHANGED <<mounted, workspace, storedRuns>>

DeleteResearch(c) ==
  /\ storedRuns' = {r \in storedRuns : r.company # c}
  /\ UNCHANGED <<mounted, workspace, presses>>

SelectionNext ==
  \/ ClearSelection \/ RefreshResults \/ Leave \/ Return \/ Reload
  \/ \E c \in Candidates : Toggle(c) \/ DeleteResearch(c)
  \/ \E n \in Presses : Research(n) \/ Confirmed(n) \/ ConfirmFails(n) \/ Settled(n)
  \/ \E n \in Presses, c \in Candidates : SubmissionArrives(n, c) \/ Answered(n, c) \/ SubmissionFails(n, c)

SelectionSpec == SelectionInit /\ [][SelectionNext]_selectionVars

-----------------------------------------------------------------------------
\* However often a selection is submitted again, after lost answers, in a second instance of
\* the page or after a reload, a company has one run for a discovery run and profile version
\* (README.md: "Retries reuse submission keys so accepted requests are not duplicated").
OneRunPerChoice ==
  \A r, s \in storedRuns : r.choice = s.choice /\ r.company = s.company => r = s
=============================================================================

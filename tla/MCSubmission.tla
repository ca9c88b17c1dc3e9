---------------------------- MODULE MCSubmission ----------------------------
(***************************************************************************)
(* Submissions at the two ends of the wire: requests that meet in the      *)
(* database, the discovery page that sends them and sends them again, and  *)
(* the activity page that shows what becomes of them.  A behaviour is one  *)
(* of the part that flow names, while the others rest.                     *)
(*                                                                         *)
(* In the database: two imports of the same companies in opposite orders,  *)
(* one of them with a repeated domain, and three submissions of one        *)
(* idempotency key.                                                        *)
(***************************************************************************)
EXTENDS Submission, ResearchSelection, ResearchPage

CONSTANTS ab, ba, s1, s2, s3, a, b, k, none, i1, i2

VARIABLE flow

Requests ==
  [c \in Clients |->
     CASE c = ab -> << [key |-> a, input |-> none], [key |-> b, input |-> none],
                       [key |-> a, input |-> none] >>
       [] c = ba -> << [key |-> b, input |-> none], [key |-> a, input |-> none] >>
       [] c = s3 -> << [key |-> k, input |-> i2] >>
       [] OTHER  -> << [key |-> k, input |-> i1] >>]

-----------------------------------------------------------------------------
\* Every request has failed before it did anything.
RequestsRest ==
  /\ store = [key \in Keys |-> NoRow] /\ pending = [c \in Clients |-> {}]
  /\ pc = [c \in Clients |-> "failed"] /\ answers = [c \in Clients |-> <<>>]

\* A page that was closed when it had shown that nothing was ever queued.
PageRests ==
  /\ runs = {} /\ queued = 0 /\ polls = [p \in Polls |-> Loop("over")]
  /\ shown = [c \in Companies |-> {}] /\ failed = FALSE /\ failures = 0
  /\ deletions = [c \in Companies |-> "none"]
  /\ opened = NoCompany /\ detail = {} /\ button = "idle" /\ posts = {}

BrowserInit ==
  /\ flow \in {"requests", "selection", "page"}
  /\ IF flow = "requests" THEN Init ELSE RequestsRest
  /\ SelectionInit
  /\ IF flow = "page" THEN PageInit ELSE PageRests

BrowserNext ==
  /\ UNCHANGED flow
  /\ \/ flow = "requests" /\ Next /\ UNCHANGED <<selectionVars, pageVars>>
     \/ flow = "selection" /\ SelectionNext /\ UNCHANGED <<vars, pageVars>>
     \/ flow = "page" /\ PageNext /\ UNCHANGED <<vars, selectionVars>>

BrowserSpec ==
  /\ BrowserInit /\ [][BrowserNext]_<<flow, vars, selectionVars, pageVars>>
  /\ Fairness /\ PageFairness
=============================================================================

------------------------------ MODULE Submission ------------------------------
(***************************************************************************)
(* Get-or-create under a unique key, as two endpoints of api/research.py   *)
(* use it: POST /companies/import resolves up to ten canonical domains in  *)
(* one transaction (jobs/imports.py), POST /research-runs one idempotency  *)
(* key, whose row must also hold the inputs asked for (jobs/service.py).   *)
(* Both select, insert in a savepoint, and select again when the unique    *)
(* index refuses.                                                          *)
(*                                                                         *)
(* PostgreSQL at READ COMMITTED: a select sees committed rows and its own; *)
(* an insert waits while another open transaction has inserted the key,    *)
(* and a transaction in a cycle of waits is aborted.                       *)
(***************************************************************************)
EXTENDS Integers, Sequences

CONSTANTS
  Clients,    \* requests being served
  Keys,       \* canonical domains, or idempotency keys
  Inputs,     \* company and profile version of a run; one value for imports
  Request,    \* what a client asks for: a sequence of keys with inputs
  Deletable,  \* keys whose rows can be deleted: research runs, but not companies
  Nobody      \* no row

Asked == [key : Keys, input : Inputs]

ASSUME NobodyAssumption == Nobody \notin Clients
ASSUME RequestAssumption == Request \in [Clients -> Seq(Asked)]
ASSUME DeletableAssumption == Deletable \subseteq Keys
ASSUME InputsAssumption == Inputs # {}
\* An import has one input for every domain, and a submission one key.
ASSUME OneInputPerKey ==
  \A c \in Clients : \A i, j \in DOMAIN Request[c] :
    Request[c][i].key = Request[c][j].key => Request[c][i] = Request[c][j]

VARIABLES
  store,    \* committed row of a key, named by the client that inserted it
  pending,  \* the same for rows a client has flushed but not committed
  pc,       \* where a request is
  answers   \* rows found or created for the entries handled so far

vars == <<store, pending, pc, answers>>

NoRow == [by |-> Nobody, input |-> CHOOSE i \in Inputs : TRUE]
Rows == [by : Clients \union {Nobody}, input : Inputs]
Answers == [row : Rows, created : BOOLEAN]

Working == {"select", "insert", "reselect", "commit"}
Ended == {"done", "conflict", "failed", "victim"}

Init ==
  /\ store = [k \in Keys |-> NoRow]
  /\ pending = [c \in Clients |-> {}]
  /\ pc = [c \in Clients |-> IF Request[c] = <<>> THEN "commit" ELSE "select"]
  /\ answers = [c \in Clients |-> <<>>]

-----------------------------------------------------------------------------
(* One entry of a request *)

Entry(c) == Request[c][Len(answers[c]) + 1]

\* Mutant: the identity is stored where the inputs belong.
RawRow(c) == [by |-> c, input |-> Entry(c).key]

NewRow(c) == [by |-> c, input |-> Entry(c).input]

\* What a select by key returns.
Visible(c, k) ==
  IF \E mine \in pending[c] : mine.key = k
  THEN [by |-> c, input |-> (CHOOSE mine \in pending[c] : mine.key = k).input]
  ELSE store[k]

\* After an entry: the next one, or the commit.
NextEntry(c) == IF Len(answers[c]) + 1 = Len(Request[c]) THEN "commit" ELSE "select"

\* Mutant: the session is left open with what it has flushed.
EndWithoutRollback(c, how) ==
  /\ pc' = [pc EXCEPT ![c] = how]
  /\ UNCHANGED <<store, pending, answers>>

\* The request ends without a commit; closing the session rolls back.
End(c, how) ==
  /\ pc' = [pc EXCEPT ![c] = how]
  /\ pending' = [pending EXCEPT ![c] = {}]
  /\ UNCHANGED <<store, answers>>

\* Mutant: the inputs are not compared.
FoundUnchecked(c, row) ==
  /\ answers' = [answers EXCEPT ![c] = Append(@, [row |-> row, created |-> FALSE])]
  /\ pc' = [pc EXCEPT ![c] = NextEntry(c)]
  /\ UNCHANGED <<store, pending>>

\* A row was found.  Other inputs under the same key are a conflict (409).
Found(c, row) ==
  \/ /\ row.input = Entry(c).input
     /\ answers' = [answers EXCEPT ![c] = Append(@, [row |-> row, created |-> FALSE])]
     /\ pc' = [pc EXCEPT ![c] = NextEntry(c)]
     /\ UNCHANGED <<store, pending>>
  \/ /\ row.input # Entry(c).input
     /\ End(c, "conflict")

Select(c) ==
  LET row == Visible(c, Entry(c).key)
  IN  /\ pc[c] = "select"
      /\ \/ row.by # Nobody /\ Found(c, row)
         \/ /\ row.by = Nobody
            /\ pc' = [pc EXCEPT ![c] = "insert"]
            /\ UNCHANGED <<store, pending, answers>>

\* d has inserted the key c wants to insert, and is still open.
WaitsFor(c, d) ==
  /\ c # d
  /\ pc[c] = "insert"
  /\ \E theirs \in pending[d] : theirs.key = Entry(c).key

Free(c) == \A d \in Clients : ~WaitsFor(c, d)

Insert(c) ==
  /\ pc[c] = "insert" /\ Free(c)
  /\ store[Entry(c).key].by = Nobody
  /\ pending' = [pending EXCEPT ![c] = @ \union {Entry(c)}]
  /\ answers' = [answers EXCEPT ![c] = Append(@, [row |-> NewRow(c), created |-> TRUE])]
  /\ pc' = [pc EXCEPT ![c] = NextEntry(c)]
  /\ UNCHANGED store

\* The unique index refuses; the savepoint is rolled back.
Refused(c) ==
  /\ pc[c] = "insert" /\ Free(c)
  /\ store[Entry(c).key].by # Nobody
  /\ pc' = [pc EXCEPT ![c] = "reselect"]
  /\ UNCHANGED <<store, pending, answers>>

\* Mutant: the row another request inserted is reported as created.
ReselectCreated(c) ==
  LET row == Visible(c, Entry(c).key)
  IN  /\ pc[c] = "reselect" /\ row.by # Nobody
      /\ answers' = [answers EXCEPT ![c] = Append(@, [row |-> row, created |-> TRUE])]
      /\ pc' = [pc EXCEPT ![c] = NextEntry(c)]
      /\ UNCHANGED <<store, pending>>

\* Mutant: a refused insert is answered as a conflict, whatever the row holds.
RefusalIsConflict(c) ==
  /\ pc[c] = "reselect"
  /\ End(c, "conflict")

\* A row deleted since the refusal re-raises the error.
Reselect(c) ==
  LET row == Visible(c, Entry(c).key)
  IN  /\ pc[c] = "reselect"
      /\ \/ row.by # Nobody /\ Found(c, row)
         \/ row.by = Nobody /\ End(c, "failed")

Commit(c) ==
  /\ pc[c] = "commit"
  /\ store' = [k \in Keys |-> Visible(c, k)]
  /\ pending' = [pending EXCEPT ![c] = {}]
  /\ pc' = [pc EXCEPT ![c] = "done"]
  /\ UNCHANGED answers

-----------------------------------------------------------------------------
(* The database and the rest of the program *)

\* Everyone in the group waits for one of the group, who is waited for.
Cycle(group) ==
  /\ \A c \in group : \E d \in group : WaitsFor(c, d)
  /\ \A d \in group : \E c \in group : WaitsFor(c, d)

\* The deadlock detector aborts a transaction of the cycle; the import fails.
AbortVictim(c) ==
  /\ pc[c] = "insert"
  /\ \E group \in SUBSET {d \in Clients : pc[d] = "insert"} : c \in group /\ Cycle(group)
  /\ End(c, "victim")

\* The process or its connection is lost.
Crash(c) ==
  /\ pc[c] \in Working
  /\ End(c, "failed")

\* delete_company_research removes the runs of one company.
Delete(i) ==
  /\ store' = [k \in Keys |-> IF k \in Deletable /\ store[k].input = i THEN NoRow ELSE store[k]]
  /\ UNCHANGED <<pending, pc, answers>>

Step(c) == Select(c) \/ Insert(c) \/ Refused(c) \/ Reselect(c) \/ Commit(c)

Next ==
  \/ \E c \in Clients : Step(c) \/ AbortVictim(c) \/ Crash(c)
  \/ \E i \in Inputs : Delete(i)
  \/ (\A c \in Clients : pc[c] \in Ended) /\ UNCHANGED vars

\* Statements return and each waiter looks for a deadlock; crashes are not owed.
Fairness == \A c \in Clients : WF_vars(Step(c)) /\ WF_vars(AbortVictim(c))

Spec == Init /\ [][Next]_vars /\ Fairness

-----------------------------------------------------------------------------
(* Properties *)

\* Every variable has its type, and no request answers more than it was asked.
TypeOK ==
  /\ store \in [Keys -> Rows]
  /\ pending \in [Clients -> SUBSET Asked]
  /\ pc \in [Clients -> Working \union Ended]
  /\ answers \in [Clients -> Seq(Answers)]
  /\ \A c \in Clients : Len(answers[c]) <= Len(Request[c])

\* An import or submission that returned named, for each of its entries, a row with
\* the inputs asked for that is stored, unless a deletion may have removed it.
AcceptedIsStored ==
  \A c \in Clients : pc[c] = "done" =>
    \A i \in DOMAIN Request[c] :
      LET row == answers[c][i].row
      IN  /\ row.input = Request[c][i].input
          /\ Request[c][i].key \notin Deletable => store[Request[c][i].key] = row

\* An answer names a row of a request that was itself answered, or of its own
\* transaction, and says "created" for exactly the rows that are its own.
AnswersAreCommitted ==
  \A c \in Clients : \A i \in DOMAIN answers[c] :
    LET answer == answers[c][i]
    IN  /\ answer.row.by = c \/ pc[answer.row.by] = "done"
        /\ answer.created => answer.row.by = c
        /\ answer.row.by = c => \E j \in 1..i : answers[c][j] = [answer EXCEPT !.created = TRUE]

\* A request is refused with 409 only when its key was accepted with other inputs.
ConflictIsReal ==
  \A c \in Clients : pc[c] = "conflict" =>
    \E d \in Clients : /\ pc[d] = "done"
                       /\ \E i \in DOMAIN Request[d] :
                            /\ Request[d][i].key = Entry(c).key
                            /\ Request[d][i].input # Entry(c).input

\* An import stores the companies it created together, or none of them.
StoredTogether ==
  \A k \in Keys : store[k].by # Nobody => pc[store[k].by] = "done"

\* Every request ends, though imports can wait for one another.
EveryRequestEnds == \A c \in Clients : <>(pc[c] \in Ended)
=============================================================================

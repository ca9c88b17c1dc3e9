--------------------------- MODULE SourceRetention ---------------------------
(***************************************************************************)
(* How long the full text of a source document is kept.  The collection    *)
(* transactions of worker slots (research/pipeline.py) store or refresh    *)
(* the rows of one company under a lock on the company's row; the cleanup  *)
(* script (collection/retention.py) clears expired texts in two statements *)
(* and takes no lock; api/research.py deletes a company's research.  Rows  *)
(* of different companies never meet, so one company is modelled.          *)
(*                                                                         *)
(* PostgreSQL runs each statement at READ COMMITTED; an ORM UPDATE writes  *)
(* only the columns whose value differs from what the session read.        *)
(***************************************************************************)
EXTENDS Integers

CONSTANTS
  Docs,        \* contents of the company: the unique (company_id, content_hash)
  Collectors,  \* worker slots
  Purgers,     \* concurrent runs of the cleanup script
  NoOne,       \* nobody holds the lock
  Retention,   \* retention_days
  Horizon      \* bound of the clock

ASSUME NoOneAssumption == NoOne \notin Collectors
ASSUME RetentionAssumption == Retention \in Nat \ {0}
ASSUME HorizonAssumption == Horizon \in Nat

VARIABLES
  clock,
  rows,        \* source_documents: stored or not, normalized_text or NULL, text_expires_at
  lock,        \* holder of the company row's FOR UPDATE lock
  collectors,  \* the collection of each slot
  purgers,     \* the cleanup runs
  copies       \* contents with their text in some run's stage_results

vars == <<clock, rows, lock, collectors, purgers, copies>>

NoRow == [stored |-> FALSE, text |-> FALSE, expires |-> 0]
Row(text, expires) == [stored |-> TRUE, text |-> text, expires |-> expires]
Rows == {row \in [stored : BOOLEAN, text : BOOLEAN, expires : Nat] :
           (row.stored <=> row.expires > 0) /\ (row.text => row.stored)}

NothingSeen == [d \in Docs |-> "unread"]
Idle == [pc |-> "idle", docs |-> {}, expires |-> 0, seen |-> NothingSeen, alive |-> TRUE]
Resting == [pc |-> "idle", ids |-> {}, cutoff |-> 0]

Init ==
  /\ clock = 0
  /\ rows = [d \in Docs |-> NoRow]
  /\ lock = NoOne
  /\ collectors = [c \in Collectors |-> Idle]
  /\ purgers = [p \in Purgers |-> Resting]
  /\ copies = {}

-----------------------------------------------------------------------------
(* Collection *)

Open(c) == collectors[c].pc \in {"waiting", "locked"}

\* The fetches are over and text_expires_at is computed, before the lock is asked for.
Begin(c, docs) ==
  /\ collectors[c].pc = "idle"
  /\ collectors' = [collectors EXCEPT ![c] =
       [pc |-> "waiting", docs |-> docs, expires |-> clock + Retention,
        seen |-> NothingSeen, alive |-> TRUE]]
  /\ UNCHANGED <<clock, rows, lock, purgers, copies>>

\* Mutant: the company row is read without FOR UPDATE.
LockNothing(c) ==
  /\ collectors[c].pc = "waiting"
  /\ lock' = c
  /\ collectors' = [collectors EXCEPT ![c].pc = "locked"]
  /\ UNCHANGED <<clock, rows, purgers, copies>>

LockCompany(c) ==
  /\ collectors[c].pc = "waiting" /\ lock = NoOne
  /\ lock' = c
  /\ collectors' = [collectors EXCEPT ![c].pc = "locked"]
  /\ UNCHANGED <<clock, rows, purgers, copies>>

\* What the session finds by id, or by company and content_hash.
Seen(row) == IF ~row.stored THEN "absent" ELSE IF row.text THEN "text" ELSE "cleared"

LookUp(c, d) ==
  /\ collectors[c].pc = "locked"
  /\ d \in collectors[c].docs /\ collectors[c].seen[d] = "unread"
  /\ collectors' = [collectors EXCEPT ![c].seen[d] = Seen(rows[d])]
  /\ UNCHANGED <<clock, rows, lock, purgers, copies>>

\* Insert, or update: normalized_text is left alone when it was read as the same text.
Flushed(row, seen, expires) ==
  CASE seen = "text" -> Row(row.text, expires)
    [] OTHER -> Row(TRUE, expires)

\* The flush finds each row as it was seen: an insert meets no duplicate key, an
\* update meets its row, and the run the foreign key names is there.
Writable(c) ==
  /\ collectors[c].docs # {} => collectors[c].alive
  /\ \A d \in collectors[c].docs : rows[d].stored <=> collectors[c].seen[d] # "absent"

CommitSources(c) ==
  /\ collectors[c].pc = "locked"
  /\ \A d \in collectors[c].docs : collectors[c].seen[d] # "unread"
  /\ Writable(c)
  /\ rows' = [d \in Docs |-> IF d \in collectors[c].docs
                             THEN Flushed(rows[d], collectors[c].seen[d], collectors[c].expires)
                             ELSE rows[d]]
  /\ lock' = NoOne
  /\ collectors' = [collectors EXCEPT ![c].pc = "returned"]
  /\ UNCHANGED <<clock, purgers, copies>>

\* A failing statement, or a lost connection or process, rolls back.
Abort(c) ==
  /\ Open(c)
  /\ lock' = IF lock = c THEN NoOne ELSE lock
  /\ collectors' = [collectors EXCEPT ![c] = Idle]
  /\ UNCHANGED <<clock, rows, purgers, copies>>

\* The runner checkpoints the stage, with the documents and their text, in the run.
Checkpoint(c) ==
  /\ collectors[c].pc = "returned" /\ collectors[c].alive
  /\ copies' = copies \union collectors[c].docs
  /\ collectors' = [collectors EXCEPT ![c] = Idle]
  /\ UNCHANGED <<clock, rows, lock, purgers>>

\* The lease is lost, with the run or to another worker, before the checkpoint.
LoseLease(c) ==
  /\ collectors[c].pc = "returned"
  /\ collectors' = [collectors EXCEPT ![c] = Idle]
  /\ UNCHANGED <<clock, rows, lock, purgers, copies>>

-----------------------------------------------------------------------------
(* Cleanup, deletion and time *)

\* Mutant: text_expires_at < cutoff.
ExpiredBefore(cutoff) == {d \in Docs : rows[d].text /\ rows[d].expires < cutoff}

Expired(cutoff) == {d \in Docs : rows[d].text /\ rows[d].expires <= cutoff}

\* Select the expired ids; without any the script returns.
SelectExpired(p) ==
  /\ purgers[p].pc = "idle"
  /\ Expired(clock) # {}
  /\ purgers' = [purgers EXCEPT ![p] =
       [pc |-> "clear", ids |-> Expired(clock), cutoff |-> clock]]
  /\ UNCHANGED <<clock, rows, lock, collectors, copies>>

\* Mutant: the expiry is reset with the text.
ClearedRow(row) == [row EXCEPT !.text = FALSE, !.expires = 0]

Cleared(row) == [row EXCEPT !.text = FALSE]

\* UPDATE ... WHERE id IN ids, and the commit.
ClearTexts(p) ==
  /\ purgers[p].pc = "clear"
  /\ rows' = [d \in Docs |-> IF d \in purgers[p].ids /\ rows[d].stored
                             THEN Cleared(rows[d]) ELSE rows[d]]
  /\ purgers' = [purgers EXCEPT ![p] = Resting]
  /\ UNCHANGED <<clock, lock, collectors, copies>>

\* The script dies between its statements.
PurgerDies(p) ==
  /\ purgers[p].pc = "clear"
  /\ purgers' = [purgers EXCEPT ![p] = Resting]
  /\ UNCHANGED <<clock, rows, lock, collectors, copies>>

\* delete_company_research: the sources, and the runs with their stage_results.
DeleteResearch ==
  /\ rows' = [d \in Docs |-> NoRow]
  /\ copies' = {}
  /\ collectors' = [c \in Collectors |-> IF collectors[c].pc = "idle" THEN collectors[c]
                                         ELSE [collectors[c] EXCEPT !.alive = FALSE]]
  /\ UNCHANGED <<clock, lock, purgers>>

\* Time passes up to Horizon.  A collection transaction takes far less than retention_days.
Tick ==
  /\ clock < Horizon
  /\ \A c \in Collectors : Open(c) => clock + 1 < collectors[c].expires
  /\ clock' = clock + 1
  /\ UNCHANGED <<rows, lock, collectors, purgers, copies>>

CollectorStep(c) ==
  \/ \E docs \in SUBSET Docs : Begin(c, docs)
  \/ LockCompany(c)
  \/ \E d \in Docs : LookUp(c, d)
  \/ CommitSources(c)
  \/ Abort(c)
  \/ Checkpoint(c)
  \/ LoseLease(c)

Next ==
  \/ \E c \in Collectors : CollectorStep(c)
  \/ \E p \in Purgers : SelectExpired(p) \/ ClearTexts(p) \/ PurgerDies(p)
  \/ DeleteResearch
  \/ Tick

Spec == Init /\ [][Next]_vars

-----------------------------------------------------------------------------
(* Properties *)

CollectorType ==
  [pc : {"idle", "waiting", "locked", "returned"}, docs : SUBSET Docs, expires : Nat,
   seen : [Docs -> {"unread", "absent", "text", "cleared"}], alive : BOOLEAN]
PurgerType == [pc : {"idle", "clear"}, ids : SUBSET Docs, cutoff : Nat]

\* Every variable has its type; a stored row always has an expiry.
TypeOK ==
  /\ clock \in Nat
  /\ rows \in [Docs -> Rows]
  /\ lock \in Collectors \union {NoOne}
  /\ collectors \in [Collectors -> CollectorType]
  /\ purgers \in [Purgers -> PurgerType]
  /\ copies \subseteq Docs

\* Deduplication never races: a content that a collection saw no row of is still
\* not stored when it flushes its insert, so the unique key is never met.
DeduplicationNeverConflicts ==
  \A c \in Collectors, d \in Docs :
    collectors[c].pc = "locked" /\ collectors[c].seen[d] = "absent" => ~rows[d].stored

\* A cleanup misses nothing: between its two statements every text that had expired
\* by its cutoff, whichever collection commits meanwhile, is one it will clear.
CleanupIsComplete ==
  \A p \in Purgers, d \in Docs :
    purgers[p].pc = "clear" /\ rows[d].text /\ rows[d].expires <= purgers[p].cutoff
      => d \in purgers[p].ids

\* A text whose retention period has not ended is stored.
FreshTextIsKept ==
  \A d \in Docs : rows[d].stored /\ clock < rows[d].expires => rows[d].text

\* A text the cleanup has removed is stored nowhere else.
ClearedTextIsGone ==
  \A d \in Docs : rows[d].stored /\ ~rows[d].text => d \notin copies

-----------------------------------------------------------------------------
(* Why the first three hold *)

\* A slot in its locked section holds the company's row lock.
LockHeld == \A c \in Collectors : collectors[c].pc = "locked" => lock = c

\* Rows are looked up only under the lock.
NothingSeenBefore ==
  \A c \in Collectors : collectors[c].pc = "waiting" => collectors[c].seen = NothingSeen

\* The expiry an open collection will write lies ahead.
ExpiryAhead == \A c \in Collectors : Open(c) => clock < collectors[c].expires

CutoffPassed == \A p \in Purgers : purgers[p].pc = "clear" => purgers[p].cutoff <= clock

IInv ==
  /\ TypeOK
  /\ LockHeld
  /\ NothingSeenBefore
  /\ ExpiryAhead
  /\ CutoffPassed
  /\ DeduplicationNeverConflicts
  /\ CleanupIsComplete
=============================================================================

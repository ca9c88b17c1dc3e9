------------------------ MODULE SourceRetentionProofs ------------------------
(***************************************************************************)
(* IInv of SourceRetention is inductive, for any number of contents,       *)
(* worker slots and cleanup runs and any retention period.                 *)
(***************************************************************************)
EXTENDS SourceRetention, TLAPS

\* The records a collection and a cleanup are in at rest, and rows, have their types.
LEMMA ConstantTypes ==
  /\ NoRow \in Rows /\ ~NoRow.stored /\ ~NoRow.text
  /\ Idle \in CollectorType /\ Idle.pc = "idle"
  /\ Resting \in PurgerType /\ Resting.pc = "idle"
  /\ \A text \in BOOLEAN, expires \in Nat \ {0} :
       /\ Row(text, expires) \in Rows /\ Row(text, expires).stored
       /\ Row(text, expires).text = text /\ Row(text, expires).expires = expires
BY DEF NoRow, Rows, Row, Idle, NothingSeen, CollectorType, Resting, PurgerType

\* What a flush and a cleanup make of a row is a row.
LEMMA RowTypes ==
  ASSUME NEW row \in Rows
  PROVE  /\ row.stored => Cleared(row) \in Rows /\ Cleared(row).stored /\ ~Cleared(row).text
         /\ row.text => row.stored
         /\ row.stored \in BOOLEAN /\ row.text \in BOOLEAN /\ row.expires \in Nat
         /\ Seen(row) \in {"absent", "text", "cleared"}
         /\ Seen(row) = "absent" <=> ~row.stored
<1>1. row.stored \in BOOLEAN /\ row.text \in BOOLEAN /\ row.expires \in Nat
  BY DEF Rows, NoRow
<1>2. row.text => row.stored
  BY DEF Rows, NoRow
<1>3. row.stored => Cleared(row) \in Rows /\ Cleared(row).stored /\ ~Cleared(row).text
  BY DEF Rows, NoRow, Cleared
<1>4. Seen(row) \in {"absent", "text", "cleared"} /\ (Seen(row) = "absent" <=> ~row.stored)
  BY <1>1 DEF Seen
<1> QED
  BY <1>1, <1>2, <1>3, <1>4

\* A flushed row is stored, with the expiry of the collection that flushed it.
LEMMA FlushTypes ==
  ASSUME NEW row \in Rows, NEW seen, NEW expires \in Nat \ {0}
  PROVE  /\ Flushed(row, seen, expires) \in Rows
         /\ Flushed(row, seen, expires).stored
         /\ Flushed(row, seen, expires).expires = expires
<1>1. row.text \in BOOLEAN
  BY RowTypes
<1>2. CASE seen = "text"
  BY <1>1, <1>2, ConstantTypes DEF Flushed
<1>3. CASE seen # "text"
  BY <1>3, ConstantTypes DEF Flushed
<1> QED
  BY <1>2, <1>3

\* The initial states satisfy the invariant.
LEMMA Initially == Init => IInv
BY ConstantTypes, NoOneAssumption
   DEF Init, IInv, TypeOK, LockHeld, NothingSeenBefore, ExpiryAhead, CutoffPassed, Open,
       DeduplicationNeverConflicts, CleanupIsComplete

\* The types of the variables, as facts of their own.
LEMMA Types ==
  ASSUME TypeOK
  PROVE  /\ clock \in Nat /\ lock \in Collectors \union {NoOne} /\ copies \subseteq Docs
         /\ rows \in [Docs -> Rows]
         /\ collectors \in [Collectors -> CollectorType]
         /\ purgers \in [Purgers -> PurgerType]
         /\ \A c \in Collectors :
              /\ collectors[c].docs \subseteq Docs /\ collectors[c].expires \in Nat
              /\ collectors[c].seen \in [Docs -> {"unread", "absent", "text", "cleared"}]
         /\ \A p \in Purgers : purgers[p].cutoff \in Nat /\ purgers[p].ids \subseteq Docs
BY DEF TypeOK, CollectorType, PurgerType

\* A collection that asks for the lock leaves the rows alone.
LEMMA BeginPreserves ==
  ASSUME IInv, NEW c \in Collectors, NEW docs \in SUBSET Docs, Begin(c, docs)
  PROVE  IInv'
<1> USE DEF IInv
<1>1. clock + Retention \in Nat /\ clock < clock + Retention
  BY Types, RetentionAssumption
<1>2. TypeOK'
  BY Types, <1>1 DEF Begin, TypeOK, CollectorType, NothingSeen
<1>3. LockHeld' /\ DeduplicationNeverConflicts' /\ NothingSeenBefore'
  BY Types DEF Begin, LockHeld, DeduplicationNeverConflicts, NothingSeenBefore, NothingSeen
<1>4. ExpiryAhead'
  BY Types, <1>1 DEF Begin, ExpiryAhead, Open
<1>5. CutoffPassed' /\ CleanupIsComplete'
  BY DEF Begin, CutoffPassed, CleanupIsComplete
<1> QED
  BY <1>2, <1>3, <1>4, <1>5

\* The lock was free, so its new holder is the only slot in the locked section.
LEMMA LockPreserves ==
  ASSUME IInv, NEW c \in Collectors, LockCompany(c)
  PROVE  IInv'
<1> USE DEF IInv
<1>1. TypeOK'
  BY Types DEF LockCompany, TypeOK, CollectorType
<1>2. LockHeld'
  BY Types, NoOneAssumption DEF LockCompany, LockHeld
<1>3. DeduplicationNeverConflicts' /\ NothingSeenBefore'
  BY Types DEF LockCompany, DeduplicationNeverConflicts, NothingSeenBefore, NothingSeen
<1>4. ExpiryAhead'
  BY Types DEF LockCompany, ExpiryAhead, Open
<1>5. CutoffPassed' /\ CleanupIsComplete'
  BY DEF LockCompany, CutoffPassed, CleanupIsComplete
<1> QED
  BY <1>1, <1>2, <1>3, <1>4, <1>5

\* A look-up that finds no row finds it absent now.
LEMMA LookUpPreserves ==
  ASSUME IInv, NEW c \in Collectors, NEW d \in Docs, LookUp(c, d)
  PROVE  IInv'
<1> USE DEF IInv
<1>1. Seen(rows[d]) \in {"absent", "text", "cleared"} /\ (Seen(rows[d]) = "absent" <=> ~rows[d].stored)
  BY Types, RowTypes
<1>2. TypeOK'
  BY Types, <1>1 DEF LookUp, TypeOK, CollectorType
<1>3. LockHeld' /\ NothingSeenBefore' /\ ExpiryAhead'
  BY Types DEF LookUp, LockHeld, NothingSeenBefore, ExpiryAhead, Open
<1>4. DeduplicationNeverConflicts'
  BY Types, <1>1 DEF LookUp, DeduplicationNeverConflicts
<1>5. CutoffPassed' /\ CleanupIsComplete'
  BY DEF LookUp, CutoffPassed, CleanupIsComplete
<1> QED
  BY <1>2, <1>3, <1>4, <1>5

\* Only the lock's holder inserts, and what it writes expires after every cutoff.
LEMMA CommitPreserves ==
  ASSUME IInv, NEW c \in Collectors, CommitSources(c)
  PROVE  IInv'
<1> USE DEF IInv
<1>1. collectors[c].expires \in Nat \ {0} /\ clock < collectors[c].expires
  BY Types DEF CommitSources, ExpiryAhead, Open
<1>2. \A d \in collectors[c].docs :
        LET row == Flushed(rows[d], collectors[c].seen[d], collectors[c].expires)
        IN  row \in Rows /\ row.expires = collectors[c].expires
  <2> TAKE d \in collectors[c].docs
  <2>1. rows[d] \in Rows
    BY Types
  <2> QED
    BY <1>1, <2>1, FlushTypes
<1>3. TypeOK'
  BY Types, <1>2 DEF CommitSources, TypeOK, CollectorType
<1>4. LockHeld' /\ NothingSeenBefore' /\ ExpiryAhead'
  BY Types DEF CommitSources, LockHeld, NothingSeenBefore, ExpiryAhead, Open
<1>5. DeduplicationNeverConflicts'
  BY Types DEF CommitSources, DeduplicationNeverConflicts, LockHeld
<1>6. CutoffPassed'
  BY DEF CommitSources, CutoffPassed
<1>7. CleanupIsComplete'
  <2> SUFFICES ASSUME NEW p \in Purgers, purgers[p].pc = "clear",
                      NEW d \in Docs, rows'[d].text, rows'[d].expires <= purgers[p].cutoff
               PROVE  d \in purgers[p].ids
    BY DEF CommitSources, CleanupIsComplete
  <2>1. d \notin collectors[c].docs
    BY Types, <1>1, <1>2 DEF CommitSources, CutoffPassed
  <2> QED
    BY Types, <2>1 DEF CommitSources, CleanupIsComplete
<1> QED
  BY <1>3, <1>4, <1>5, <1>6, <1>7

\* Ending a collection without a write frees the lock at most.
LEMMA EndPreserves ==
  ASSUME IInv, NEW c \in Collectors, Abort(c) \/ Checkpoint(c) \/ LoseLease(c)
  PROVE  IInv'
<1> USE DEF IInv
<1>1. TypeOK'
  BY Types, ConstantTypes DEF Abort, Checkpoint, LoseLease, TypeOK
<1>2. LockHeld' /\ NothingSeenBefore' /\ ExpiryAhead' /\ DeduplicationNeverConflicts'
  BY Types, ConstantTypes DEF Abort, Checkpoint, LoseLease, LockHeld, NothingSeenBefore,
     ExpiryAhead, Open, DeduplicationNeverConflicts
<1>3. CutoffPassed' /\ CleanupIsComplete'
  BY DEF Abort, Checkpoint, LoseLease, CutoffPassed, CleanupIsComplete
<1> QED
  BY <1>1, <1>2, <1>3

\* A cleanup selects everything that has expired now; clearing only takes texts away.
LEMMA PurgerPreserves ==
  ASSUME IInv, NEW p \in Purgers, SelectExpired(p) \/ ClearTexts(p) \/ PurgerDies(p)
  PROVE  IInv'
<1> USE DEF IInv
<1>1. CASE SelectExpired(p)
  <2>1. TypeOK'
    BY Types, <1>1 DEF SelectExpired, TypeOK, PurgerType, Expired
  <2>2. CutoffPassed' /\ CleanupIsComplete'
    BY Types, <1>1 DEF SelectExpired, CutoffPassed, CleanupIsComplete, Expired
  <2>3. LockHeld' /\ NothingSeenBefore' /\ ExpiryAhead' /\ DeduplicationNeverConflicts'
    BY <1>1 DEF SelectExpired, LockHeld, NothingSeenBefore, ExpiryAhead, Open,
       DeduplicationNeverConflicts
  <2> QED BY <2>1, <2>2, <2>3
<1>2. CASE ClearTexts(p)
  <2>1. \A d \in Docs : /\ rows'[d] \in Rows
                        /\ rows'[d].stored = rows[d].stored
                        /\ rows'[d].text => rows'[d] = rows[d]
    BY Types, RowTypes, <1>2 DEF ClearTexts
  <2>2. TypeOK'
    BY Types, ConstantTypes, <1>2, <2>1 DEF ClearTexts, TypeOK
  <2>3. CutoffPassed' /\ CleanupIsComplete'
    BY Types, ConstantTypes, <1>2, <2>1 DEF ClearTexts, CutoffPassed, CleanupIsComplete
  <2>4. LockHeld' /\ NothingSeenBefore' /\ ExpiryAhead' /\ DeduplicationNeverConflicts'
    BY <1>2, <2>1 DEF ClearTexts, LockHeld, NothingSeenBefore, ExpiryAhead, Open,
       DeduplicationNeverConflicts
  <2> QED BY <2>2, <2>3, <2>4
<1>3. CASE PurgerDies(p)
  <2>1. TypeOK'
    BY Types, ConstantTypes, <1>3 DEF PurgerDies, TypeOK
  <2>2. CutoffPassed' /\ CleanupIsComplete'
    BY Types, ConstantTypes, <1>3 DEF PurgerDies, CutoffPassed, CleanupIsComplete
  <2>3. LockHeld' /\ NothingSeenBefore' /\ ExpiryAhead' /\ DeduplicationNeverConflicts'
    BY <1>3 DEF PurgerDies, LockHeld, NothingSeenBefore, ExpiryAhead, Open,
       DeduplicationNeverConflicts
  <2> QED BY <2>1, <2>2, <2>3
<1> QED
  BY <1>1, <1>2, <1>3

\* A deletion removes rows, which no property minds.
LEMMA DeletePreserves ==
  ASSUME IInv, DeleteResearch
  PROVE  IInv'
<1> USE DEF IInv
<1>1. \A c \in Collectors :
        /\ collectors'[c] \in CollectorType
        /\ collectors'[c].pc = collectors[c].pc /\ collectors'[c].seen = collectors[c].seen
        /\ collectors'[c].expires = collectors[c].expires
  <2> TAKE c \in Collectors
  <2>1. collectors[c] \in CollectorType
    BY Types
  <2>2. collectors'[c] \in {collectors[c], [collectors[c] EXCEPT !.alive = FALSE]}
    BY DEF DeleteResearch
  <2> QED
    BY <2>1, <2>2 DEF CollectorType
<1>2. TypeOK'
  BY Types, ConstantTypes, <1>1 DEF DeleteResearch, TypeOK
<1>3. LockHeld' /\ NothingSeenBefore' /\ ExpiryAhead'
  BY <1>1 DEF DeleteResearch, LockHeld, NothingSeenBefore, ExpiryAhead, Open
<1>4. DeduplicationNeverConflicts' /\ CleanupIsComplete' /\ CutoffPassed'
  BY ConstantTypes DEF DeleteResearch, DeduplicationNeverConflicts, CleanupIsComplete,
     CutoffPassed
<1> QED
  BY <1>2, <1>3, <1>4

\* The clock stops short of the expiry of an open collection.
LEMMA TickPreserves ==
  ASSUME IInv, Tick
  PROVE  IInv'
<1> USE DEF IInv
<1>1. TypeOK'
  BY Types DEF Tick, TypeOK
<1>2. ExpiryAhead' /\ CutoffPassed'
  BY Types DEF Tick, ExpiryAhead, Open, CutoffPassed
<1>3. LockHeld' /\ NothingSeenBefore' /\ DeduplicationNeverConflicts' /\ CleanupIsComplete'
  BY DEF Tick, LockHeld, NothingSeenBefore, DeduplicationNeverConflicts, CleanupIsComplete
<1> QED
  BY <1>1, <1>2, <1>3

\* A step that changes nothing.
LEMMA StutterPreserves ==
  ASSUME IInv, UNCHANGED vars
  PROVE  IInv'
BY DEF vars, IInv, TypeOK, LockHeld, NothingSeenBefore, ExpiryAhead, Open, CutoffPassed,
   DeduplicationNeverConflicts, CleanupIsComplete

\* The invariant holds in every reachable state.
THEOREM RetentionInvariant == Spec => []IInv
<1>1. IInv /\ [Next]_vars => IInv'
  <2> SUFFICES ASSUME IInv, [Next]_vars PROVE IInv'
    OBVIOUS
  <2>1. ASSUME NEW c \in Collectors, CollectorStep(c) PROVE IInv'
    BY <2>1, BeginPreserves, LockPreserves, LookUpPreserves, CommitPreserves, EndPreserves
       DEF CollectorStep
  <2>2. ASSUME NEW p \in Purgers, SelectExpired(p) \/ ClearTexts(p) \/ PurgerDies(p) PROVE IInv'
    BY <2>2, PurgerPreserves
  <2>3. CASE DeleteResearch
    BY <2>3, DeletePreserves
  <2>4. CASE Tick
    BY <2>4, TickPreserves
  <2>5. CASE UNCHANGED vars
    BY <2>5, StutterPreserves
  <2> QED
    BY <2>1, <2>2, <2>3, <2>4, <2>5 DEF Next
<1> QED
  BY Initially, <1>1, PTL DEF Spec

\* Every variable keeps its type.
THEOREM RetentionTypeCorrect == Spec => []TypeOK
BY RetentionInvariant, PTL DEF IInv

\* The company lock makes the unique key of source_documents unreachable: no
\* collection flushes an insert of a content that is stored.
THEOREM DeduplicationIsSerial == Spec => []DeduplicationNeverConflicts
BY RetentionInvariant, PTL DEF IInv

\* No collection that commits between the two statements of a cleanup leaves an
\* expired text that the cleanup will not clear.
THEOREM CleanupMissesNothing == Spec => []CleanupIsComplete
BY RetentionInvariant, PTL DEF IInv
=============================================================================

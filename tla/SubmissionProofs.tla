--------------------------- MODULE SubmissionProofs ---------------------------
(***************************************************************************)
(* Imports and submissions: what is stored, answered and refused is        *)
(* consistent for any number of requests, keys and entries, whichever of   *)
(* them crash, wait for one another or are deleted; and the browser that   *)
(* sends submissions again makes no second run.                            *)
(***************************************************************************)
EXTENDS Submission, ResearchSelection, TLAPS

-----------------------------------------------------------------------------
(* The inductive invariant *)

\* A request has answered its entries up to the one it is at.
PlaceInv ==
  \A c \in Clients :
    /\ pc[c] \in {"select", "insert", "reselect"} => Len(answers[c]) < Len(Request[c])
    /\ pc[c] \in {"commit", "done"} => Len(answers[c]) = Len(Request[c])

\* Flushed rows belong to open requests, which have answered them as created.
PendingInv ==
  \A c \in Clients : \A p \in pending[c] :
    /\ pc[c] \in Working
    /\ store[p.key].by = Nobody
    /\ \E i \in DOMAIN answers[c] :
         /\ Request[c][i] = p
         /\ answers[c][i] = [row |-> [by |-> c, input |-> p.input], created |-> TRUE]

\* No key is flushed twice.
KeysInv ==
  \A c, d \in Clients : \A p \in pending[c], q \in pending[d] : p.key = q.key => c = d /\ p = q

\* A request inserts only a key it has not flushed itself.
InsertInv ==
  \A c \in Clients : pc[c] = "insert" => \A mine \in pending[c] : mine.key # Entry(c).key

\* A stored row was asked for by a request that has been answered.
StoreInv ==
  \A k \in Keys : store[k].by # Nobody =>
    /\ pc[store[k].by] = "done"
    /\ \E i \in DOMAIN Request[store[k].by] :
         Request[store[k].by][i] = [key |-> k, input |-> store[k].input]

\* Answered rows have the inputs asked for and are flushed, or stored unless deleted.
AnswerInv ==
  \A c \in Clients : \A i \in DOMAIN answers[c] :
    LET row == answers[c][i].row
    IN  /\ row.by \in Clients
        /\ pc[c] \in Working \union {"done"} => row.input = Request[c][i].input
        /\ pc[c] \in Working /\ row.by = c => Request[c][i] \in pending[c]
        /\ pc[c] = "done" \/ (pc[c] \in Working /\ row.by # c) =>
             (Request[c][i].key \notin Deletable => store[Request[c][i].key] = row)

IInv ==
  /\ TypeOK /\ PlaceInv /\ PendingInv /\ KeysInv /\ InsertInv /\ StoreInv /\ AnswerInv
  /\ AnswersAreCommitted /\ ConflictIsReal

-----------------------------------------------------------------------------
(* Lemmas about one request *)

LEMMA RequestFacts ==
  ASSUME NEW c \in Clients
  PROVE  /\ Request[c] \in Seq(Asked) /\ Len(Request[c]) \in Nat
         /\ DOMAIN Request[c] = 1..Len(Request[c])
         /\ \A i \in DOMAIN Request[c] :
              /\ Request[c][i] \in Asked /\ Request[c][i].key \in Keys
              /\ Request[c][i].input \in Inputs
              /\ Request[c][i] = [key |-> Request[c][i].key, input |-> Request[c][i].input]
<1>1. Request[c] \in Seq(Asked)
  BY RequestAssumption
<1>2. /\ Len(Request[c]) \in Nat /\ DOMAIN Request[c] = 1..Len(Request[c])
      /\ \A i \in DOMAIN Request[c] : Request[c][i] \in Asked
  BY <1>1
<1> QED
  BY <1>1, <1>2 DEF Asked

LEMMA AnswerFacts ==
  ASSUME IInv, NEW c \in Clients
  PROVE  /\ answers[c] \in Seq(Answers) /\ Len(answers[c]) \in Nat
         /\ DOMAIN answers[c] = 1..Len(answers[c])
         /\ Len(answers[c]) <= Len(Request[c])
         /\ \A i \in DOMAIN answers[c] : answers[c][i] \in Answers /\ i \in DOMAIN Request[c]
<1>1. answers[c] \in Seq(Answers) /\ Len(answers[c]) <= Len(Request[c])
  BY DEF IInv, TypeOK
<1> QED
  BY <1>1, RequestFacts

\* The entry a request is at.
LEMMA EntryFacts ==
  ASSUME IInv, NEW c \in Clients, pc[c] \in {"select", "insert", "reselect"}
  PROVE  /\ Len(answers[c]) + 1 \in DOMAIN Request[c]
         /\ Entry(c) = Request[c][Len(answers[c]) + 1]
         /\ Entry(c) \in Asked /\ Entry(c).key \in Keys /\ Entry(c).input \in Inputs
         /\ Entry(c) = [key |-> Entry(c).key, input |-> Entry(c).input]
<1>1. Len(answers[c]) < Len(Request[c])
  BY DEF IInv, PlaceInv
<1>2. Len(answers[c]) + 1 \in DOMAIN Request[c]
  BY <1>1, AnswerFacts, RequestFacts
<1> QED
  BY <1>2, RequestFacts DEF Entry

LEMMA CreatedForm ==
  ASSUME NEW S, NEW b, NEW answer \in [row : S, created : BOOLEAN]
  PROVE  [answer EXCEPT !.created = b] = [row |-> answer.row, created |-> b]
OBVIOUS

\* A select returns a row of the request's own, or the stored one.
LEMMA VisibleFacts ==
  ASSUME IInv, NEW c \in Clients, NEW k \in Keys
  PROVE  /\ Visible(c, k) \in Rows
         /\ \/ \E mine \in pending[c] :
                 mine.key = k /\ Visible(c, k) = [by |-> c, input |-> mine.input]
            \/ /\ \A mine \in pending[c] : mine.key # k
               /\ Visible(c, k) = store[k]
<1>1. store[k] \in Rows /\ pending[c] \subseteq Asked
  BY DEF IInv, TypeOK
<1>2. CASE \E mine \in pending[c] : mine.key = k
  <2> DEFINE own == CHOOSE mine \in pending[c] : mine.key = k
  <2>1. own \in pending[c] /\ own.key = k
    BY <1>2
  <2>2. Visible(c, k) = [by |-> c, input |-> own.input]
    BY <1>2 DEF Visible
  <2> HIDE DEF own
  <2>3. own.input \in Inputs
    BY <1>1, <2>1 DEF Asked
  <2> QED
    BY <2>1, <2>2, <2>3 DEF Rows
<1>3. CASE \A mine \in pending[c] : mine.key # k
  BY <1>1, <1>3 DEF Visible
<1> QED
  BY <1>2, <1>3

-----------------------------------------------------------------------------
(* Every step keeps the invariant *)

\* A request goes on to insert, or to select again.
LEMMA MoveKeeps ==
  ASSUME IInv, NEW c \in Clients, NEW how \in {"insert", "reselect"},
         pc[c] \in {"select", "insert"}, pc' = [pc EXCEPT ![c] = how],
         how = "insert" => \A mine \in pending[c] : mine.key # Entry(c).key,
         UNCHANGED <<store, pending, answers>>
  PROVE  IInv'
<1>1. /\ \A d \in Clients : pc'[d] = IF d = c THEN how ELSE pc[d]
      /\ pc' \in [Clients -> Working \union Ended]
      /\ how \in Working /\ pc[c] \in Working
      /\ pc[c] \notin {"done", "conflict"} /\ how \notin {"done", "conflict"}
  BY DEF IInv, TypeOK, Working
<1>2. TypeOK'
  BY <1>1 DEF IInv, TypeOK
<1>3. PlaceInv'
  BY <1>1 DEF IInv, PlaceInv
<1>4. PendingInv' /\ KeysInv'
  BY <1>1 DEF IInv, PendingInv, KeysInv
<1>5. StoreInv'
  <2>1. \A k \in Keys : store[k].by # Nobody => store[k].by \in Clients
    BY DEF IInv, TypeOK, Rows
  <2> QED
    BY <1>1, <2>1 DEF IInv, StoreInv
<1>6. AnswerInv'
  BY <1>1 DEF IInv, AnswerInv
<1>7. AnswersAreCommitted'
  BY <1>1 DEF IInv, AnswersAreCommitted, AnswerInv
<1>8. ConflictIsReal'
  BY <1>1 DEF IInv, ConflictIsReal, Entry
<1>9. InsertInv'
  BY <1>1 DEF IInv, InsertInv, Entry
<1> QED
  BY <1>2, <1>3, <1>4, <1>5, <1>6, <1>7, <1>8, <1>9 DEF IInv

\* A request ends without a commit.
LEMMA EndKeeps ==
  ASSUME IInv, NEW c \in Clients, NEW how \in {"conflict", "failed", "victim"},
         pc[c] \in Working, End(c, how),
         how = "conflict" =>
           \E d \in Clients : /\ pc[d] = "done"
                              /\ \E i \in DOMAIN Request[d] :
                                   /\ Request[d][i].key = Entry(c).key
                                   /\ Request[d][i].input # Entry(c).input
  PROVE  IInv'
<1>1. /\ \A d \in Clients : pc'[d] = IF d = c THEN how ELSE pc[d]
      /\ pc' \in [Clients -> Working \union Ended]
      /\ pc[c] # "done" /\ how \notin Working /\ how # "done"
  BY DEF IInv, TypeOK, Working, Ended, End
<1>2. /\ pending' \in [Clients -> SUBSET Asked] /\ pending'[c] = {}
      /\ \A d \in Clients : d # c => pending'[d] = pending[d]
  BY DEF IInv, TypeOK, End
<1>3. store' = store /\ answers' = answers
  BY DEF End
<1>4. TypeOK'
  BY <1>1, <1>2, <1>3 DEF IInv, TypeOK
<1>5. PlaceInv'
  BY <1>1, <1>3 DEF IInv, PlaceInv
<1>6. PendingInv'
  BY <1>1, <1>2, <1>3 DEF IInv, PendingInv
<1>7. KeysInv'
  BY <1>2 DEF IInv, KeysInv
<1>8. StoreInv'
  <2>1. \A k \in Keys : store[k].by # Nobody => store[k].by \in Clients
    BY DEF IInv, TypeOK, Rows
  <2> QED
    BY <1>1, <1>3, <2>1 DEF IInv, StoreInv
<1>9. AnswerInv'
  BY <1>1, <1>2, <1>3 DEF IInv, AnswerInv
<1>10. AnswersAreCommitted'
  BY <1>1, <1>3 DEF IInv, AnswersAreCommitted, AnswerInv
<1>11. ConflictIsReal'
  BY <1>1, <1>3 DEF IInv, ConflictIsReal, Entry
<1>12. InsertInv'
  BY <1>1, <1>2, <1>3 DEF IInv, InsertInv, Entry
<1> QED
  BY <1>4, <1>5, <1>6, <1>7, <1>8, <1>9, <1>10, <1>11, <1>12 DEF IInv

\* A request that finds a row answers it, or is refused for its inputs.
LEMMA FoundKeeps ==
  ASSUME IInv, NEW c \in Clients, pc[c] \in {"select", "reselect"},
         NEW row, row = Visible(c, Entry(c).key), row.by # Nobody, Found(c, row)
  PROVE  IInv'
<1> DEFINE entry == Entry(c)
           n == Len(answers[c]) + 1
           answer == [row |-> row, created |-> FALSE]
<1>1. /\ n \in DOMAIN Request[c] /\ entry = Request[c][n] /\ entry \in Asked
      /\ entry.key \in Keys /\ entry.input \in Inputs
      /\ entry = [key |-> entry.key, input |-> entry.input]
  BY EntryFacts
<1>2. row \in Rows /\ row.by \in Clients /\ row.input \in Inputs
  BY <1>1, VisibleFacts DEF Rows
<1>3. CASE row.input = entry.input
  <2>1. /\ answers' = [answers EXCEPT ![c] = Append(answers[c], answer)]
        /\ pc' = [pc EXCEPT ![c] = NextEntry(c)] /\ store' = store /\ pending' = pending
    BY <1>3 DEF Found, End
  <2>2. n \in Nat /\ n <= Len(Request[c]) /\ Len(answers[c]) = n - 1
        /\ DOMAIN answers[c] = 1..(n - 1)
    BY <1>1, AnswerFacts, RequestFacts
  <2>3. /\ Append(answers[c], answer) \in Seq(Answers)
        /\ Len(Append(answers[c], answer)) = n /\ DOMAIN Append(answers[c], answer) = 1..n
        /\ Append(answers[c], answer)[n] = answer
        /\ \A i \in DOMAIN answers[c] : Append(answers[c], answer)[i] = answers[c][i]
    <3>1. answer \in Answers
      BY <1>2 DEF Answers
    <3> HIDE DEF answer
    <3> QED
      BY <2>2, <3>1, AnswerFacts
  <2>4. /\ \A d \in Clients : answers'[d] = IF d = c THEN Append(answers[c], answer) ELSE answers[d]
        /\ \A d \in Clients : d # c => pc'[d] = pc[d]
        /\ pc'[c] = NextEntry(c)
    BY <2>1 DEF IInv, TypeOK
  <2>5. /\ NextEntry(c) \in {"select", "commit"}
        /\ NextEntry(c) = "commit" => n = Len(Request[c])
        /\ NextEntry(c) = "select" => n < Len(Request[c])
    BY <2>2, RequestFacts DEF NextEntry
  <2>6. pc[c] \in Working /\ pc'[c] \in Working /\ pc[c] # "done" /\ pc'[c] # "done"
        /\ pc'[c] # "conflict"
    BY <2>4, <2>5 DEF Working
  <2>7. row.by = c => \E mine \in pending[c] :
                        mine = entry /\ row = [by |-> c, input |-> mine.input]
    <3> SUFFICES ASSUME row.by = c
                 PROVE  \E mine \in pending[c] :
                          mine = entry /\ row = [by |-> c, input |-> mine.input]
      OBVIOUS
    <3>1. store[entry.key].by # c
      BY <1>1, <2>6, NobodyAssumption DEF IInv, StoreInv
    <3>2. PICK mine \in pending[c] :
            mine.key = entry.key /\ row = [by |-> c, input |-> mine.input]
      BY <1>1, <3>1, VisibleFacts
    <3>3. mine = [key |-> mine.key, input |-> mine.input]
      BY DEF IInv, TypeOK, Asked
    <3>4. mine.input = entry.input
      BY <1>3, <3>2
    <3> QED
      BY <1>1, <3>2, <3>3, <3>4
  <2>8. row.by # c => row = store[entry.key] /\ pc[row.by] = "done"
    <3> SUFFICES ASSUME row.by # c
                 PROVE  row = store[entry.key] /\ pc[row.by] = "done"
      OBVIOUS
    <3>1. row = store[entry.key]
      BY <1>1, VisibleFacts
    <3>2. pc[store[entry.key].by] = "done"
      BY <1>1, <3>1 DEF IInv, StoreInv
    <3> QED
      BY <3>1, <3>2
  <2> HIDE DEF answer, n, entry
  <2>9. \A d \in Clients : \A i \in DOMAIN answers[d] :
           i \in DOMAIN answers'[d] /\ answers'[d][i] = answers[d][i]
    <3> SUFFICES ASSUME NEW d \in Clients, NEW i \in DOMAIN answers[d]
                 PROVE  i \in DOMAIN answers'[d] /\ answers'[d][i] = answers[d][i]
      OBVIOUS
    <3>1. CASE d # c
      BY <2>4, <3>1
    <3>2. CASE d = c
      <4>1. answers'[d] = Append(answers[c], answer)
        BY <2>4, <3>2
      <4>2. i \in 1..(n - 1) /\ i \in 1..n
        BY <2>2, <3>2
      <4> QED
        BY <2>3, <3>2, <4>1, <4>2
    <3> QED
      BY <3>1, <3>2
  <2>10. n \in DOMAIN answers'[c] /\ answers'[c][n] = answer /\ DOMAIN answers'[c] = 1..n
    <3>1. answers'[c] = Append(answers[c], answer)
      BY <2>4
    <3> QED
      BY <2>2, <2>3, <3>1
  <2>11. \A i \in DOMAIN answers'[c] : i = n \/ i \in DOMAIN answers[c]
    BY <2>2, <2>10
  <2>12. TypeOK'
    <3>1. pc' \in [Clients -> Working \union Ended]
      BY <2>1, <2>6, <2>4 DEF IInv, TypeOK
    <3>2. answers' \in [Clients -> Seq(Answers)]
      BY <2>1, <2>3 DEF IInv, TypeOK
    <3>3. \A d \in Clients : Len(answers'[d]) <= Len(Request[d])
      BY <2>2, <2>3, <2>4 DEF IInv, TypeOK
    <3> QED
      BY <2>1, <3>1, <3>2, <3>3 DEF IInv, TypeOK
  <2>13. PlaceInv'
    BY <2>2, <2>3, <2>4, <2>5 DEF IInv, PlaceInv
  <2>14. PendingInv'
    <3> SUFFICES ASSUME NEW d \in Clients, NEW p \in pending[d]
                 PROVE  /\ pc'[d] \in Working
                        /\ store[p.key].by = Nobody
                        /\ \E i \in DOMAIN answers'[d] :
                             /\ Request[d][i] = p
                             /\ answers'[d][i] =
                                  [row |-> [by |-> d, input |-> p.input], created |-> TRUE]
      BY <2>1 DEF PendingInv
    <3>1. pc[d] \in Working /\ store[p.key].by = Nobody
      BY DEF IInv, PendingInv
    <3>2. PICK i \in DOMAIN answers[d] :
            /\ Request[d][i] = p
            /\ answers[d][i] = [row |-> [by |-> d, input |-> p.input], created |-> TRUE]
      BY DEF IInv, PendingInv
    <3>3. i \in DOMAIN answers'[d] /\ answers'[d][i] = answers[d][i]
      BY <2>9, <3>2
    <3> QED
      BY <2>4, <2>6, <3>1, <3>2, <3>3
  <2>15. KeysInv'
    BY <2>1 DEF IInv, KeysInv
  <2>16. StoreInv'
    <3>1. \A k \in Keys : store[k].by # Nobody => store[k].by \in Clients
      BY DEF IInv, TypeOK, Rows
    <3> QED
      BY <2>1, <2>4, <2>6, <3>1 DEF IInv, StoreInv
  <2>17. AnswerInv'
    <3> SUFFICES ASSUME NEW d \in Clients, NEW i \in DOMAIN answers'[d]
                 PROVE  LET its == answers'[d][i].row
                        IN  /\ its.by \in Clients
                            /\ pc'[d] \in Working \union {"done"} => its.input = Request[d][i].input
                            /\ pc'[d] \in Working /\ its.by = d => Request[d][i] \in pending[d]
                            /\ pc'[d] = "done" \/ (pc'[d] \in Working /\ its.by # d) =>
                                 (Request[d][i].key \notin Deletable => store[Request[d][i].key] = its)
      BY <2>1 DEF AnswerInv
    <3>1. CASE d # c
      BY <2>4, <3>1 DEF IInv, AnswerInv
    <3>2. CASE d = c /\ i \in DOMAIN answers[c]
      <4>1. answers'[d][i] = answers[c][i]
        BY <2>9, <3>2
      <4> QED
        BY <2>6, <3>2, <4>1 DEF IInv, AnswerInv
    <3>3. CASE d = c /\ i = n
      <4>1. answers'[d][i] = answer
        BY <2>10, <3>3
      <4>2. answers'[d][i].row = row
        BY <4>1 DEF answer
      <4>3. Request[d][i] = entry
        BY <1>1, <3>3
      <4>4. row.by = d => Request[d][i] \in pending[d]
        BY <2>7, <3>3, <4>3
      <4>5. row.by # d => store[Request[d][i].key] = row
        BY <2>8, <3>3, <4>3
      <4>6. pc'[d] # "done"
        BY <2>6, <3>3
      <4> QED
        BY <1>2, <1>3, <4>2, <4>3, <4>4, <4>5, <4>6
    <3> QED
      BY <2>11, <3>1, <3>2, <3>3
  <2>18. AnswersAreCommitted'
    <3> SUFFICES ASSUME NEW d \in Clients, NEW i \in DOMAIN answers'[d]
                 PROVE  LET its == answers'[d][i]
                        IN  /\ its.row.by = d \/ pc'[its.row.by] = "done"
                            /\ its.created => its.row.by = d
                            /\ its.row.by = d => \E j \in 1..i :
                                 answers'[d][j] = [its EXCEPT !.created = TRUE]
      BY DEF AnswersAreCommitted
    <3>1. \A b \in Clients : pc[b] = "done" => pc'[b] = "done"
      BY <2>4, <2>6
    <3>2. CASE d # c
      BY <2>4, <3>1, <3>2 DEF IInv, AnswersAreCommitted, AnswerInv
    <3>3. CASE d = c /\ i \in DOMAIN answers[c]
      <4>1. \A j \in 1..i : answers'[d][j] = answers[c][j]
        <5>1. \A j \in 1..i : j \in DOMAIN answers[c]
          BY <2>2, <3>3
        <5> QED
          BY <2>9, <3>3, <5>1
      <4>2. i \in 1..i
        BY <2>2, <3>3
      <4> QED
        BY <3>1, <3>3, <4>1, <4>2 DEF IInv, AnswersAreCommitted, AnswerInv
    <3>4. CASE d = c /\ i = n
      <4>1. answers'[d][i] = [row |-> row, created |-> FALSE]
        BY <2>10, <3>4 DEF answer
      <4>2. answers'[d][i].row = row /\ ~answers'[d][i].created
        BY <4>1
      <4>3. ASSUME row.by = c
            PROVE  \E j \in 1..i : answers'[d][j] = [row |-> row, created |-> TRUE]
        <5>1. entry \in pending[c] /\ row = [by |-> c, input |-> entry.input]
          BY <2>7, <4>3
        <5>2. PICK j \in DOMAIN answers[c] :
                answers[c][j] = [row |-> [by |-> c, input |-> entry.input], created |-> TRUE]
          BY <5>1 DEF IInv, PendingInv
        <5>3. j \in 1..i /\ answers'[d][j] = answers[c][j]
          BY <2>2, <2>9, <3>4, <5>2
        <5> QED
          BY <5>1, <5>2, <5>3
      <4>4. row.by = d \/ pc'[row.by] = "done"
        BY <1>2, <2>8, <3>1, <3>4
      <4>5. [answers'[d][i] EXCEPT !.created = TRUE] = [row |-> row, created |-> TRUE]
        <5>1. answers'[d][i] \in Answers
          BY <1>2, <4>1 DEF Answers
        <5> QED
          BY <4>2, <5>1, CreatedForm DEF Answers
      <4> QED
        BY <3>4, <4>2, <4>3, <4>4, <4>5
    <3> QED
      BY <2>11, <3>2, <3>3, <3>4
  <2>19. ConflictIsReal'
    BY <2>4, <2>6 DEF IInv, ConflictIsReal, Entry
  <2>20. InsertInv'
    BY <2>1, <2>4, <2>5 DEF IInv, InsertInv, Entry
  <2> QED
    BY <2>12, <2>13, <2>14, <2>15, <2>16, <2>17, <2>18, <2>19, <2>20 DEF IInv
<1>4. CASE row.input # entry.input
  <2>1. pc[c] \in Working /\ pc[c] # "done" /\ End(c, "conflict")
    BY <1>4 DEF Found, Working
  <2>2. row = store[entry.key]
    <3> SUFFICES ASSUME NEW mine \in pending[c], mine.key = entry.key, row.input = mine.input
                 PROVE  FALSE
      BY <1>1, VisibleFacts
    <3>1. PICK i \in DOMAIN answers[c] : Request[c][i] = mine
      BY DEF IInv, PendingInv
    <3>2. i \in DOMAIN Request[c]
      BY AnswerFacts
    <3> QED
      BY <1>1, <1>4, <3>1, <3>2, OneInputPerKey
  <2>3. /\ pc[row.by] = "done"
        /\ \E i \in DOMAIN Request[row.by] :
             Request[row.by][i] = [key |-> entry.key, input |-> row.input]
    BY <1>1, <2>2 DEF IInv, StoreInv
  <2>4. \E i \in DOMAIN Request[row.by] :
          Request[row.by][i].key = Entry(c).key /\ Request[row.by][i].input # Entry(c).input
    BY <1>4, <2>3
  <2> QED
    BY <1>2, <2>1, <2>3, <2>4, EndKeeps
<1> QED
  BY <1>3, <1>4

\* A request inserts the row of the entry it is at.
LEMMA InsertKeeps ==
  ASSUME IInv, NEW c \in Clients, Insert(c)
  PROVE  IInv'
<1> DEFINE entry == Entry(c)
           n == Len(answers[c]) + 1
           row == [by |-> c, input |-> entry.input]
           answer == [row |-> row, created |-> TRUE]
<1>1. /\ n \in DOMAIN Request[c] /\ entry = Request[c][n] /\ entry \in Asked
      /\ entry.key \in Keys /\ entry.input \in Inputs
      /\ entry = [key |-> entry.key, input |-> entry.input]
      /\ pc[c] = "insert" /\ store[entry.key].by = Nobody
  BY EntryFacts DEF Insert
<1>2. /\ answers' = [answers EXCEPT ![c] = Append(answers[c], answer)]
      /\ pending' = [pending EXCEPT ![c] = pending[c] \union {entry}]
      /\ pc' = [pc EXCEPT ![c] = NextEntry(c)] /\ store' = store
  BY DEF Insert, NewRow
<1>3. row \in Rows /\ row.by = c /\ row.input = entry.input
  BY <1>1 DEF Rows
<1>4. n \in Nat /\ n <= Len(Request[c]) /\ Len(answers[c]) = n - 1
      /\ DOMAIN answers[c] = 1..(n - 1)
  BY <1>1, AnswerFacts, RequestFacts
<1>5. /\ Append(answers[c], answer) \in Seq(Answers)
      /\ Len(Append(answers[c], answer)) = n /\ DOMAIN Append(answers[c], answer) = 1..n
      /\ Append(answers[c], answer)[n] = answer
      /\ \A i \in DOMAIN answers[c] : Append(answers[c], answer)[i] = answers[c][i]
  <2>1. answer \in Answers
    BY <1>3 DEF Answers
  <2> HIDE DEF answer
  <2> QED
    BY <1>4, <2>1, AnswerFacts
<1>6. /\ \A d \in Clients : answers'[d] = IF d = c THEN Append(answers[c], answer) ELSE answers[d]
      /\ \A d \in Clients : d # c => pc'[d] = pc[d] /\ pending'[d] = pending[d]
      /\ pc'[c] = NextEntry(c) /\ pending'[c] = pending[c] \union {entry}
  BY <1>2 DEF IInv, TypeOK
<1>7. /\ NextEntry(c) \in {"select", "commit"}
      /\ NextEntry(c) = "commit" => n = Len(Request[c])
      /\ NextEntry(c) = "select" => n < Len(Request[c])
  BY <1>4, RequestFacts DEF NextEntry
<1>8. pc[c] \in Working /\ pc'[c] \in Working /\ pc[c] # "done" /\ pc'[c] # "done"
      /\ pc'[c] # "conflict"
  BY <1>1, <1>6, <1>7 DEF Working
<1>9. answer.row = row /\ answer.created = TRUE
  OBVIOUS
<1>10. row = [by |-> c, input |-> entry.input] /\ answer = [row |-> row, created |-> TRUE]
  OBVIOUS
<1> HIDE DEF answer, n, entry, row
<1>11. \A d \in Clients : \A i \in DOMAIN answers[d] :
         i \in DOMAIN answers'[d] /\ answers'[d][i] = answers[d][i]
  <2> SUFFICES ASSUME NEW d \in Clients, NEW i \in DOMAIN answers[d]
               PROVE  i \in DOMAIN answers'[d] /\ answers'[d][i] = answers[d][i]
    OBVIOUS
  <2>1. CASE d # c
    BY <1>6, <2>1
  <2>2. CASE d = c
    <3>1. answers'[d] = Append(answers[c], answer)
      BY <1>6, <2>2
    <3>2. i \in 1..(n - 1) /\ i \in 1..n
      BY <1>4, <2>2
    <3> QED
      BY <1>5, <2>2, <3>1, <3>2
  <2> QED
    BY <2>1, <2>2
<1>12. n \in DOMAIN answers'[c] /\ answers'[c][n] = answer /\ DOMAIN answers'[c] = 1..n
  <2>1. answers'[c] = Append(answers[c], answer)
    BY <1>6
  <2> QED
    BY <1>4, <1>5, <2>1
<1>13. \A i \in DOMAIN answers'[c] : i = n \/ i \in DOMAIN answers[c]
  BY <1>4, <1>12
<1>14. TypeOK'
  <2>1. pc' \in [Clients -> Working \union Ended]
    BY <1>2, <1>6, <1>8 DEF IInv, TypeOK
  <2>2. answers' \in [Clients -> Seq(Answers)]
    BY <1>2, <1>5 DEF IInv, TypeOK
  <2>3. \A d \in Clients : Len(answers'[d]) <= Len(Request[d])
    BY <1>4, <1>5, <1>6 DEF IInv, TypeOK
  <2>4. pending' \in [Clients -> SUBSET Asked]
    BY <1>1, <1>2 DEF IInv, TypeOK
  <2> QED
    BY <1>2, <2>1, <2>2, <2>3, <2>4 DEF IInv, TypeOK
<1>15. PlaceInv'
  BY <1>4, <1>5, <1>6, <1>7 DEF IInv, PlaceInv
<1>16. PendingInv'
  <2> SUFFICES ASSUME NEW d \in Clients, NEW p \in pending'[d]
               PROVE  /\ pc'[d] \in Working
                      /\ store[p.key].by = Nobody
                      /\ \E i \in DOMAIN answers'[d] :
                           /\ Request[d][i] = p
                           /\ answers'[d][i] =
                                [row |-> [by |-> d, input |-> p.input], created |-> TRUE]
    BY <1>2 DEF PendingInv
  <2>1. CASE p \in pending[d]
    <3>1. pc[d] \in Working /\ store[p.key].by = Nobody
      BY <2>1 DEF IInv, PendingInv
    <3>2. PICK i \in DOMAIN answers[d] :
            /\ Request[d][i] = p
            /\ answers[d][i] = [row |-> [by |-> d, input |-> p.input], created |-> TRUE]
      BY <2>1 DEF IInv, PendingInv
    <3>3. i \in DOMAIN answers'[d] /\ answers'[d][i] = answers[d][i]
      BY <1>11, <3>2
    <3> QED
      BY <1>6, <1>8, <3>1, <3>2, <3>3
  <2>2. CASE d = c /\ p = entry
    <3>1. /\ n \in DOMAIN answers'[d] /\ Request[d][n] = p
          /\ answers'[d][n] = [row |-> [by |-> d, input |-> p.input], created |-> TRUE]
      BY <1>1, <1>10, <1>12, <2>2
    <3> QED
      BY <1>1, <1>8, <2>2, <3>1
  <2> QED
    BY <1>6, <2>1, <2>2
<1>17. KeysInv'
  <2>1. \A d \in Clients : \A p \in pending[d] : p.key # entry.key
    <3> SUFFICES ASSUME NEW d \in Clients, NEW p \in pending[d], p.key = entry.key PROVE FALSE
      OBVIOUS
    <3>1. d # c
      BY <1>1 DEF IInv, InsertInv, entry
    <3>2. WaitsFor(c, d)
      BY <1>1, <3>1 DEF WaitsFor, entry
    <3> QED
      BY <3>2 DEF Insert, Free
  <2>2. \A d \in Clients : \A p \in pending'[d] : p \in pending[d] \/ (d = c /\ p = entry)
    BY <1>6
  <2> QED
    BY <2>1, <2>2 DEF IInv, KeysInv
<1>18. StoreInv'
  <2>1. \A k \in Keys : store[k].by # Nobody => store[k].by \in Clients
    BY DEF IInv, TypeOK, Rows
  <2> QED
    BY <1>2, <1>6, <1>8, <2>1 DEF IInv, StoreInv
<1>19. AnswerInv'
  <2> SUFFICES ASSUME NEW d \in Clients, NEW i \in DOMAIN answers'[d]
               PROVE  LET its == answers'[d][i].row
                      IN  /\ its.by \in Clients
                          /\ pc'[d] \in Working \union {"done"} => its.input = Request[d][i].input
                          /\ pc'[d] \in Working /\ its.by = d => Request[d][i] \in pending'[d]
                          /\ pc'[d] = "done" \/ (pc'[d] \in Working /\ its.by # d) =>
                               (Request[d][i].key \notin Deletable => store[Request[d][i].key] = its)
    BY <1>2 DEF AnswerInv
  <2>1. CASE d # c
    BY <1>6, <2>1 DEF IInv, AnswerInv
  <2>2. CASE d = c /\ i \in DOMAIN answers[c]
    <3>1. answers'[d][i] = answers[c][i] /\ pending[c] \subseteq pending'[c]
      BY <1>6, <1>11, <2>2
    <3> QED
      BY <1>8, <2>2, <3>1 DEF IInv, AnswerInv
  <2>3. CASE d = c /\ i = n
    <3>1. answers'[d][i].row = row /\ Request[d][i] = entry /\ entry \in pending'[d]
      BY <1>1, <1>6, <1>9, <1>12, <2>3
    <3>2. pc'[d] # "done" /\ row.by = d
      BY <1>3, <1>8, <2>3
    <3> QED
      BY <1>3, <2>3, <3>1, <3>2
  <2> QED
    BY <1>13, <2>1, <2>2, <2>3
<1>20. AnswersAreCommitted'
  <2> SUFFICES ASSUME NEW d \in Clients, NEW i \in DOMAIN answers'[d]
               PROVE  LET its == answers'[d][i]
                      IN  /\ its.row.by = d \/ pc'[its.row.by] = "done"
                          /\ its.created => its.row.by = d
                          /\ its.row.by = d => \E j \in 1..i :
                               answers'[d][j] = [its EXCEPT !.created = TRUE]
    BY DEF AnswersAreCommitted
  <2>1. \A b \in Clients : pc[b] = "done" => pc'[b] = "done"
    BY <1>6, <1>8
  <2>2. CASE d # c
    BY <1>6, <2>1, <2>2 DEF IInv, AnswersAreCommitted, AnswerInv
  <2>3. CASE d = c /\ i \in DOMAIN answers[c]
    <3>1. \A j \in 1..i : answers'[d][j] = answers[c][j]
      <4>1. \A j \in 1..i : j \in DOMAIN answers[c]
        BY <1>4, <2>3
      <4> QED
        BY <1>11, <2>3, <4>1
    <3>2. i \in 1..i
      BY <1>4, <2>3
    <3> QED
      BY <2>1, <2>3, <3>1, <3>2 DEF IInv, AnswersAreCommitted, AnswerInv
  <2>4. CASE d = c /\ i = n
    <3>1. answers'[d][i] = answer /\ i \in 1..i /\ answer \in Answers
      BY <1>3, <1>4, <1>10, <1>12, <2>4 DEF Answers
    <3>2. [answer EXCEPT !.created = TRUE] = answer
      <4>1. [answer EXCEPT !.created = TRUE] = [row |-> answer.row, created |-> TRUE]
        BY <3>1, CreatedForm DEF Answers
      <4> QED
        BY <1>9, <1>10, <4>1
    <3>3. answers'[d][i].row.by = d
      BY <1>3, <1>9, <2>4, <3>1
    <3> QED
      BY <3>1, <3>2, <3>3
  <2> QED
    BY <1>13, <2>2, <2>3, <2>4
<1>21. ConflictIsReal'
  BY <1>6, <1>8 DEF IInv, ConflictIsReal, Entry
<1>22. InsertInv'
  BY <1>6, <1>7 DEF IInv, InsertInv, Entry
<1> QED
  BY <1>14, <1>15, <1>16, <1>17, <1>18, <1>19, <1>20, <1>21, <1>22 DEF IInv

\* A commit stores what was flushed, and nothing else changes.
LEMMA CommitKeeps ==
  ASSUME IInv, NEW c \in Clients, Commit(c)
  PROVE  IInv'
<1>1. /\ pc[c] = "commit" /\ pc' = [pc EXCEPT ![c] = "done"]
      /\ pending' = [pending EXCEPT ![c] = {}] /\ answers' = answers
      /\ store' = [k \in Keys |-> Visible(c, k)]
  BY DEF Commit
<1>2. /\ \A d \in Clients : d # c => pc'[d] = pc[d] /\ pending'[d] = pending[d]
      /\ pc'[c] = "done" /\ pending'[c] = {} /\ pc[c] \in Working
      /\ \A k \in Keys : store'[k] = Visible(c, k)
  BY <1>1 DEF IInv, TypeOK, Working
<1>3. \A k \in Keys : store[k].by # Nobody => store'[k] = store[k] /\ store[k].by \in Clients \ {c}
  <2> SUFFICES ASSUME NEW k \in Keys, store[k].by # Nobody
               PROVE  store'[k] = store[k] /\ store[k].by \in Clients \ {c}
    OBVIOUS
  <2>1. \A mine \in pending[c] : mine.key # k
    BY DEF IInv, PendingInv
  <2>2. store[k].by \in Clients /\ pc[store[k].by] = "done"
    BY DEF IInv, TypeOK, Rows, StoreInv
  <2> QED
    BY <1>1, <1>2, <2>1, <2>2, VisibleFacts
<1>4. \A mine \in pending[c] : mine.key \in Keys /\ store'[mine.key] = [by |-> c, input |-> mine.input]
  <2> SUFFICES ASSUME NEW mine \in pending[c]
               PROVE  mine.key \in Keys /\ store'[mine.key] = [by |-> c, input |-> mine.input]
    OBVIOUS
  <2>1. mine.key \in Keys
    BY DEF IInv, TypeOK, Asked
  <2>2. PICK other \in pending[c] :
          other.key = mine.key /\ Visible(c, mine.key) = [by |-> c, input |-> other.input]
    BY <2>1, VisibleFacts
  <2>3. other = mine
    BY <2>2 DEF IInv, KeysInv
  <2> QED
    BY <1>2, <2>1, <2>2, <2>3
<1>5. \A k \in Keys : store'[k] = store[k] \/ \E mine \in pending[c] : mine.key = k
  BY <1>2, VisibleFacts
<1>6. TypeOK'
  <2>1. pc' \in [Clients -> Working \union Ended]
    BY <1>1 DEF IInv, TypeOK, Ended
  <2>2. store' \in [Keys -> Rows]
    BY <1>1, VisibleFacts
  <2>3. pending' \in [Clients -> SUBSET Asked]
    BY <1>1 DEF IInv, TypeOK
  <2> QED
    BY <1>1, <2>1, <2>2, <2>3 DEF IInv, TypeOK
<1>7. PlaceInv'
  BY <1>1, <1>2 DEF IInv, PlaceInv
<1>8. PendingInv'
  <2> SUFFICES ASSUME NEW d \in Clients, d # c, NEW p \in pending[d]
               PROVE  /\ pc[d] \in Working /\ store'[p.key].by = Nobody
                      /\ \E i \in DOMAIN answers[d] :
                           /\ Request[d][i] = p
                           /\ answers[d][i] =
                                [row |-> [by |-> d, input |-> p.input], created |-> TRUE]
    BY <1>1, <1>2 DEF PendingInv
  <2>1. p.key \in Keys
    BY DEF IInv, TypeOK, Asked
  <2>2. \A mine \in pending[c] : mine.key # p.key
    BY DEF IInv, KeysInv
  <2> QED
    BY <1>5, <2>1, <2>2 DEF IInv, PendingInv
<1>9. KeysInv' /\ InsertInv'
  BY <1>1, <1>2 DEF IInv, KeysInv, InsertInv, Entry
<1>10. StoreInv'
  <2> SUFFICES ASSUME NEW k \in Keys, store'[k].by # Nobody
               PROVE  /\ pc'[store'[k].by] = "done"
                      /\ \E i \in DOMAIN Request[store'[k].by] :
                           Request[store'[k].by][i] = [key |-> k, input |-> store'[k].input]
    BY DEF StoreInv
  <2>1. CASE store'[k] = store[k]
    BY <1>2, <1>3, <2>1 DEF IInv, StoreInv
  <2>2. ASSUME NEW mine \in pending[c], mine.key = k
        PROVE  /\ pc'[store'[k].by] = "done"
               /\ \E i \in DOMAIN Request[store'[k].by] :
                    Request[store'[k].by][i] = [key |-> k, input |-> store'[k].input]
    <3>1. store'[k].by = c /\ store'[k].input = mine.input
      <4>1. store'[k] = [by |-> c, input |-> mine.input]
        BY <1>4, <2>2
      <4> QED
        BY <4>1
    <3>2. PICK i \in DOMAIN answers[c] : Request[c][i] = mine
      BY <2>2 DEF IInv, PendingInv
    <3>3. mine = [key |-> mine.key, input |-> mine.input]
      BY <2>2 DEF IInv, TypeOK, Asked
    <3>4. i \in DOMAIN Request[c]
      BY AnswerFacts
    <3> QED
      BY <1>2, <2>2, <3>1, <3>2, <3>3, <3>4
  <2> QED
    BY <1>5, <2>1, <2>2
<1>11. AnswerInv'
  <2> SUFFICES ASSUME NEW d \in Clients, NEW i \in DOMAIN answers[d]
               PROVE  LET its == answers[d][i].row
                      IN  /\ its.by \in Clients
                          /\ pc'[d] \in Working \union {"done"} => its.input = Request[d][i].input
                          /\ pc'[d] \in Working /\ its.by = d => Request[d][i] \in pending'[d]
                          /\ pc'[d] = "done" \/ (pc'[d] \in Working /\ its.by # d) =>
                               (Request[d][i].key \notin Deletable => store'[Request[d][i].key] = its)
    BY <1>1 DEF AnswerInv
  <2> DEFINE its == answers[d][i].row
             k == Request[d][i].key
  <2>1. its.by \in Clients /\ its \in Rows /\ its.by # Nobody /\ i \in DOMAIN Request[d] /\ k \in Keys
    <3>1. answers[d][i] \in Answers /\ i \in DOMAIN Request[d]
      BY AnswerFacts
    <3>2. its \in Rows /\ k \in Keys
      BY <3>1, RequestFacts DEF Answers
    <3>3. its.by \in Clients
      BY DEF IInv, AnswerInv
    <3> QED
      BY <3>1, <3>2, <3>3, NobodyAssumption
  <2>2. its = [by |-> its.by, input |-> its.input]
    BY <2>1 DEF Rows
  <2>3. CASE d # c
    <3>1. store[k] = its => store'[k] = its
      BY <1>3, <2>1
    <3> QED
      BY <1>2, <2>3, <3>1 DEF IInv, AnswerInv
  <2>4. CASE d = c
    <3>1. its.input = Request[d][i].input
      BY <1>2, <2>4 DEF IInv, AnswerInv
    <3>2. its.by # c => (k \notin Deletable => store'[k] = its)
      BY <1>2, <1>3, <2>1, <2>4 DEF IInv, AnswerInv
    <3>3. its.by = c => store'[k] = its
      <4> SUFFICES ASSUME its.by = c PROVE store'[k] = its
        OBVIOUS
      <4>1. Request[d][i] \in pending[c]
        BY <1>2, <2>4 DEF IInv, AnswerInv
      <4> QED
        BY <1>4, <2>2, <3>1, <4>1
    <3> QED
      BY <1>2, <2>1, <2>4, <3>1, <3>2, <3>3 DEF Working
  <2> QED
    BY <2>3, <2>4
<1>12. AnswersAreCommitted'
  BY <1>1, <1>2 DEF IInv, AnswersAreCommitted, AnswerInv
<1>13. ConflictIsReal'
  BY <1>1, <1>2 DEF IInv, ConflictIsReal, Entry
<1> QED
  BY <1>6, <1>7, <1>8, <1>9, <1>10, <1>11, <1>12, <1>13 DEF IInv

\* A deletion takes rows that can be deleted.
LEMMA DeleteKeeps ==
  ASSUME IInv, NEW input \in Inputs, Delete(input)
  PROVE  IInv'
<1>1. NoRow \in Rows /\ NoRow.by = Nobody
  BY InputsAssumption DEF NoRow, Rows
<1>2. /\ \A k \in Keys : store'[k] = store[k] \/ (k \in Deletable /\ store'[k] = NoRow)
      /\ store' \in [Keys -> Rows]
      /\ pc' = pc /\ pending' = pending /\ answers' = answers
  <2>1. store' = [k \in Keys |-> IF k \in Deletable /\ store[k].input = input THEN NoRow
                                 ELSE store[k]]
    BY DEF Delete
  <2>2. \A k \in Keys : store[k] \in Rows
    BY DEF IInv, TypeOK
  <2> HIDE DEF NoRow, Rows
  <2> QED
    BY <1>1, <2>1, <2>2 DEF Delete
<1>3. TypeOK' /\ PlaceInv' /\ KeysInv' /\ InsertInv'
  BY <1>2 DEF IInv, TypeOK, PlaceInv, KeysInv, InsertInv, Entry
<1>4. PendingInv'
  <2>1. \A d \in Clients : \A p \in pending[d] : p.key \in Keys
    BY DEF IInv, TypeOK, Asked
  <2> QED
    BY <1>1, <1>2, <2>1 DEF IInv, PendingInv
<1>5. StoreInv'
  BY <1>1, <1>2 DEF IInv, StoreInv
<1>6. AnswerInv'
  <2>1. \A d \in Clients : \A i \in DOMAIN answers[d] : Request[d][i].key \in Keys
    BY AnswerFacts, RequestFacts
  <2> QED
    BY <1>2, <2>1 DEF IInv, AnswerInv
<1>7. AnswersAreCommitted' /\ ConflictIsReal'
  BY <1>2 DEF IInv, AnswersAreCommitted, ConflictIsReal, Entry
<1> QED
  BY <1>3, <1>4, <1>5, <1>6, <1>7 DEF IInv

-----------------------------------------------------------------------------
(* Theorems *)

LEMMA InitEstablishes == Init => IInv
<1> SUFFICES ASSUME Init PROVE IInv
  OBVIOUS
<1>1. NoRow \in Rows /\ NoRow.by = Nobody
  BY InputsAssumption DEF NoRow, Rows
<1>2. \A c \in Clients : /\ answers[c] = <<>> /\ pending[c] = {}
                         /\ pc[c] = IF Request[c] = <<>> THEN "commit" ELSE "select"
  BY DEF Init
<1>3. TypeOK
  <2>1. store \in [Keys -> Rows] /\ pending \in [Clients -> SUBSET Asked]
    BY <1>1 DEF Init
  <2>2. pc \in [Clients -> Working \union Ended]
    BY DEF Init, Working
  <2>3. answers \in [Clients -> Seq(Answers)] /\ \A c \in Clients : Len(answers[c]) <= Len(Request[c])
    BY RequestFacts DEF Init
  <2> QED
    BY <2>1, <2>2, <2>3 DEF TypeOK
<1>4. PlaceInv
  <2> SUFFICES ASSUME NEW c \in Clients
               PROVE  /\ pc[c] \in {"select", "insert", "reselect"} => 0 < Len(Request[c])
                      /\ pc[c] \in {"commit", "done"} => 0 = Len(Request[c])
    BY <1>2 DEF PlaceInv
  <2>1. Len(Request[c]) \in Nat /\ Request[c] \in Seq(Asked)
    BY RequestFacts
  <2>2. Request[c] = <<>> <=> Len(Request[c]) = 0
    BY <2>1
  <2> QED
    BY <1>2, <2>1, <2>2
<1>5. PendingInv /\ KeysInv /\ InsertInv
  BY <1>2 DEF PendingInv, KeysInv, InsertInv
<1>6. StoreInv
  BY <1>1 DEF Init, StoreInv
<1>7. AnswerInv /\ AnswersAreCommitted /\ ConflictIsReal
  BY <1>2 DEF AnswerInv, AnswersAreCommitted, ConflictIsReal
<1> QED
  BY <1>3, <1>4, <1>5, <1>6, <1>7 DEF IInv

LEMMA StepKeeps == ASSUME IInv, [Next]_vars PROVE IInv'
<1>1. ASSUME NEW c \in Clients, Select(c) PROVE IInv'
  <2>1. CASE Visible(c, Entry(c).key).by # Nobody
    BY <1>1, <2>1, FoundKeeps DEF Select
  <2>2. CASE Visible(c, Entry(c).key).by = Nobody
    <3>1. /\ pc[c] = "select" /\ pc' = [pc EXCEPT ![c] = "insert"]
          /\ UNCHANGED <<store, pending, answers>>
      BY <1>1, <2>2 DEF Select
    <3>2. Entry(c).key \in Keys
      BY <3>1, EntryFacts
    <3>3. \A mine \in pending[c] : mine.key # Entry(c).key
      BY <2>2, <3>2, VisibleFacts, NobodyAssumption
    <3> QED
      BY <3>1, <3>3, MoveKeeps
  <2> QED
    BY <2>1, <2>2
<1>2. ASSUME NEW c \in Clients, Refused(c) PROVE IInv'
  BY <1>2, MoveKeeps DEF Refused
<1>3. ASSUME NEW c \in Clients, Reselect(c) PROVE IInv'
  <2>1. CASE Visible(c, Entry(c).key).by # Nobody
    BY <1>3, <2>1, FoundKeeps DEF Reselect
  <2>2. CASE Visible(c, Entry(c).key).by = Nobody
    BY <1>3, <2>2, EndKeeps DEF Reselect, Working
  <2> QED
    BY <2>1, <2>2
<1>4. ASSUME NEW c \in Clients, AbortVictim(c) PROVE IInv'
  BY <1>4, EndKeeps DEF AbortVictim, Working
<1>5. ASSUME NEW c \in Clients, Crash(c) PROVE IInv'
  BY <1>5, EndKeeps DEF Crash
<1>6. CASE UNCHANGED vars
  <2>1. store' = store /\ pending' = pending /\ pc' = pc /\ answers' = answers
    BY <1>6 DEF vars
  <2>2. TypeOK' /\ PlaceInv' /\ KeysInv' /\ StoreInv'
    BY <2>1 DEF IInv, TypeOK, PlaceInv, KeysInv, StoreInv
  <2>4. PendingInv'
    BY <2>1 DEF IInv, PendingInv
  <2>5. AnswerInv'
    BY <2>1 DEF IInv, AnswerInv
  <2>3. InsertInv' /\ AnswersAreCommitted' /\ ConflictIsReal'
    BY <2>1 DEF IInv, InsertInv, AnswersAreCommitted, ConflictIsReal, Entry
  <2> QED
    BY <2>2, <2>3, <2>4, <2>5 DEF IInv
<1>7. ASSUME NEW c \in Clients, Step(c) \/ AbortVictim(c) \/ Crash(c) PROVE IInv'
  <2>1. CASE Insert(c)
    BY <2>1, InsertKeeps
  <2>2. CASE Commit(c)
    BY <2>2, CommitKeeps
  <2> QED
    BY <1>1, <1>2, <1>3, <1>4, <1>5, <1>7, <2>1, <2>2 DEF Step
<1>8. ASSUME NEW input \in Inputs, Delete(input) PROVE IInv'
  BY <1>8, DeleteKeeps
<1>9. CASE Next
  BY <1>6, <1>7, <1>8, <1>9 DEF Next
<1> QED
  BY <1>6, <1>9

\* The strengthened invariant of imports and submissions.
THEOREM SubmissionInvariant == Spec => []IInv
BY InitEstablishes, StepKeeps, PTL DEF Spec

\* Every variable has its type, and no request answers more than it was asked.
THEOREM TypeCorrect == Spec => []TypeOK
<1>1. IInv => TypeOK
  BY DEF IInv
<1> QED
  BY <1>1, SubmissionInvariant, PTL

\* jobs/imports.py and jobs/service.py: what a request returned is stored, with the inputs
\* asked for, unless a deletion may have removed it.
THEOREM AcceptedRowsAreStored == Spec => []AcceptedIsStored
<1>1. IInv => AcceptedIsStored
  BY RequestFacts DEF IInv, TypeOK, PlaceInv, AnswerInv, AcceptedIsStored
<1> QED
  BY <1>1, SubmissionInvariant, PTL

\* No request answers with a row of a request that was rolled back, and "created" is said
\* of exactly its own rows.
THEOREM AnsweredRowsAreCommitted == Spec => []AnswersAreCommitted
<1>1. IInv => AnswersAreCommitted
  BY DEF IInv
<1> QED
  BY <1>1, SubmissionInvariant, PTL

\* A 409 has a request behind it that was answered with other inputs under the same key.
THEOREM ConflictsAreReal == Spec => []ConflictIsReal
<1>1. IInv => ConflictIsReal
  BY DEF IInv
<1> QED
  BY <1>1, SubmissionInvariant, PTL

\* Rows are stored by requests that were committed as a whole.
THEOREM CommittedTogether == Spec => []StoredTogether
<1>1. IInv => StoredTogether
  BY DEF IInv, StoreInv, StoredTogether
<1> QED
  BY <1>1, SubmissionInvariant, PTL

-----------------------------------------------------------------------------
(* Submissions that are sent again *)

\* A run has the key of what it was submitted for, and no other run has it.
SelectionInv ==
  /\ \A r \in storedRuns : r.key = <<r.choice, r.company>>
  /\ \A r, s \in storedRuns : r.key = s.key => r = s

\* Only an arriving submission adds a run, and only a deletion removes one.
LEMMA SelectionStep == SelectionInv /\ [SelectionNext]_selectionVars => SelectionInv'
  <1> SUFFICES ASSUME SelectionInv, [SelectionNext]_selectionVars PROVE SelectionInv'
    OBVIOUS
  <1>1. ASSUME NEW n \in Presses, NEW c \in Candidates, SubmissionArrives(n, c)
        PROVE  SelectionInv'
    <2>1. CASE \E r \in storedRuns : r.key = Key(n, c)
      <3>1. storedRuns' = storedRuns
        BY <1>1, <2>1 DEF SubmissionArrives
      <3>2. QED BY <3>1 DEF SelectionInv
    <2>2. CASE ~ \E r \in storedRuns : r.key = Key(n, c)
      <3>1. storedRuns' = storedRuns \union {NewRun(n, c)}
        BY <1>1, <2>2 DEF SubmissionArrives
      <3>2. /\ NewRun(n, c).key = Key(n, c)
            /\ Key(n, c) = <<NewRun(n, c).choice, NewRun(n, c).company>>
        BY DEF NewRun, Key
      <3>3. \A r \in storedRuns : r.key # NewRun(n, c).key
        BY <2>2, <3>2
      <3>4. QED BY <3>1, <3>2, <3>3 DEF SelectionInv
    <2>3. QED BY <2>1, <2>2
  <1>2. ASSUME NEW c \in Candidates, DeleteResearch(c) PROVE SelectionInv'
    BY <1>2 DEF DeleteResearch, SelectionInv
  <1>3. CASE UNCHANGED storedRuns
    BY <1>3 DEF SelectionInv
  <1>4. CASE ClearSelection \/ RefreshResults \/ Leave \/ Return \/ Reload
    BY <1>3, <1>4 DEF ClearSelection, RefreshResults, Leave, Return, Reload
  <1>5. ASSUME NEW c \in Candidates, Toggle(c) PROVE SelectionInv'
    BY <1>3, <1>5 DEF Toggle
  <1>6. ASSUME NEW n \in Presses, Research(n) \/ Confirmed(n) \/ ConfirmFails(n) \/ Settled(n)
        PROVE  SelectionInv'
    BY <1>3, <1>6 DEF Research, Confirmed, ConfirmFails, Settled
  <1>7. ASSUME NEW n \in Presses, NEW c \in Candidates, Answered(n, c) \/ SubmissionFails(n, c)
        PROVE  SelectionInv'
    BY <1>3, <1>7 DEF Answered, SubmissionFails
  <1>8. CASE UNCHANGED selectionVars
    BY <1>3, <1>8 DEF selectionVars
  <1>9. QED
    BY <1>1, <1>2, <1>4, <1>5, <1>6, <1>7, <1>8 DEF SelectionNext

\* README.md: "Retries reuse submission keys so accepted requests are not duplicated".  For any
\* companies, presses and discovery runs, whatever is lost, late, repeated or deleted, a company
\* has one run for a discovery run.
THEOREM ResubmissionsAreOneRun == SelectionSpec => []OneRunPerChoice
<1>1. SelectionInit => SelectionInv
  BY DEF SelectionInit, SelectionInv
<1>2. SelectionInv => OneRunPerChoice
  <2> SUFFICES ASSUME SelectionInv, NEW r \in storedRuns, NEW s \in storedRuns,
                      r.choice = s.choice, r.company = s.company
               PROVE  r = s
    BY DEF OneRunPerChoice
  <2>1. r.key = s.key
    BY DEF SelectionInv
  <2>2. QED BY <2>1 DEF SelectionInv
<1>3. QED BY <1>1, <1>2, SelectionStep, PTL DEF SelectionSpec
=============================================================================

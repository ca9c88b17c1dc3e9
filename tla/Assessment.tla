------------------------------ MODULE Assessment ------------------------------
(***************************************************************************)
(* The assessment of collected documents (ResearchPipeline.assess up to    *)
(* the score): the prompt and the answer of the provider                   *)
(* (assessment/providers/openrouter.py), the validation of every excerpt   *)
(* it quotes (assessment/validation.py), and what is left per signal.      *)
(*                                                                         *)
(* A document has an id and a text, a sequence of letters.  A proposal     *)
(* answers a signal with a status, a strength or "none", and the excerpts  *)
(* it quotes: source, excerpt, the advisory offset, and the event.         *)
(***************************************************************************)
EXTENDS Integers, Sequences, FiniteSets, SequencesExt

CONSTANTS
  SignalIds,      \* signals of the profile
  DocumentLists,  \* what collection may have stored
  Answers,        \* proposals in an answer of the provider: sequences
  Failures,       \* failures of a call: [is, status, code, type]
  NoCode,         \* no error code in the body
  MaxCharacters,  \* MAX_DOCUMENT_CHARACTERS
  MaxPerSource,   \* MAX_DOCUMENT_CHARACTERS_PER_SOURCE
  FairFloor,      \* the share no document gets less of
  Costs,          \* costs a call may report
  RunBudget       \* the model budget of a run

ASSUME AssessmentAssumption ==
  /\ FairFloor \in Nat \ {0} /\ MaxPerSource \in Nat /\ FairFloor <= MaxPerSource
  /\ MaxCharacters \in Nat
  /\ \A docs \in DocumentLists :
       /\ Len(docs) \in Nat /\ docs = [i \in 1..Len(docs) |-> docs[i]]
       /\ \A i \in DOMAIN docs : Len(docs[i].text) \in Nat
       /\ \A i, j \in DOMAIN docs : docs[i].id = docs[j].id => i = j
  /\ \A answer \in Answers :
       /\ Len(answer) \in Nat /\ answer = [i \in 1..Len(answer) |-> answer[i]]
       /\ \A i \in DOMAIN answer :
            LET quotes == answer[i].evidence IN
            /\ Len(quotes) \in Nat /\ quotes = [k \in 1..Len(quotes) |-> quotes[k]]
            /\ \A k \in DOMAIN quotes : Len(quotes[k].excerpt) \in Nat

VARIABLES
  documents,  \* the documents assessed
  exchange    \* the call and what became of it

assessmentVars == <<documents, exchange>>

Least(a, b) == IF a < b THEN a ELSE b

-----------------------------------------------------------------------------
(* The prompt *)

\* Mutant: each document takes what is left.
WhatIsLeft(remaining, waiting) == remaining

FairShare(remaining, waiting) ==
  IF remaining \div waiting > FairFloor THEN remaining \div waiting ELSE FairFloor

\* How much of a document is shown; those after the end of the budget are not in the prompt.
Show(docs, prompt, i) ==
  LET part == Least(Len(docs[i].text),
                    Least(MaxPerSource, FairShare(prompt.remaining, Len(docs) - i + 1)))
  IN  IF prompt.remaining <= 0 THEN prompt
      ELSE [remaining |-> prompt.remaining - part, shown |-> Append(prompt.shown, part)]

\* _documents_payload
ShownOf(docs) ==
  FoldLeft(LAMBDA prompt, i : Show(docs, prompt, i),
           [remaining |-> MaxCharacters, shown |-> <<>>], [i \in DOMAIN docs |-> i]).shown

-----------------------------------------------------------------------------
(* Failures of the provider *)

\* _raise_error, _raise_error_field: a code in the body stands for the HTTP status.
\* What is not reported, a read that timed out or a malformed answer, is permanent.
Transient(f) ==
  \/ f.is = "unreachable"
  \/ /\ f.is = "reported"
     /\ \/ (IF f.code = NoCode THEN f.status ELSE f.code) \in {429, 500, 502, 503, 504}
        \/ f.type \in {"provider_overloaded", "rate_limit", "timeout", "no_credentials",
                       "upstream_error"}

-----------------------------------------------------------------------------
(* assessment/validation.py *)

IsDocument(docs, id) == \E i \in DOMAIN docs : docs[i].id = id
TextOf(docs, id) == docs[CHOOSE i \in DOMAIN docs : docs[i].id = id].text

\* Mutant: the search goes on after the end of a match.
DisjointMatches(text, excerpt) ==
  LET all == {o \in 0..(Len(text) - Len(excerpt)) :
                SubSeq(text, o + 1, o + Len(excerpt)) = excerpt}
  IN  {o \in all : \A p \in all : p >= o \/ p + Len(excerpt) <= o}

\* Every place where the excerpt occurs, overlapping ones too.
Matches(text, excerpt) ==
  {o \in 0..(Len(text) - Len(excerpt)) : SubSeq(text, o + 1, o + Len(excerpt)) = excerpt}

\* An excerpt that occurs once is where it occurs; else the advisory offset must say.
Placed(docs, e) ==
  LET matches == Matches(TextOf(docs, e.source), e.excerpt)
  IN  IF ~IsDocument(docs, e.source) THEN {}
      ELSE IF Cardinality(matches) = 1 THEN matches ELSE matches \intersect {e.offset}

Sound(docs, p) ==
  IF p.status = "insufficient" THEN p.evidence = <<>> /\ p.strength = "none"
  ELSE /\ p.evidence # <<>> /\ p.strength # "none"
       /\ \A i \in DOMAIN p.evidence : Placed(docs, p.evidence[i]) # {}

AtPlace(docs, e) ==
  [source |-> e.source, excerpt |-> e.excerpt, event |-> e.event,
   start |-> CHOOSE o \in Placed(docs, e) : TRUE]

\* One excerpt per event, the first, at the offset found.
FirstOfEvent(docs, kept, e) ==
  IF \E i \in DOMAIN kept : kept[i].event = e.event THEN kept ELSE Append(kept, AtPlace(docs, e))

ValidatedEvidence(docs, p) ==
  FoldLeft(LAMBDA kept, e : FirstOfEvent(docs, kept, e), <<>>, p.evidence)

\* A proposal becomes an assessment, or one of the run's partial errors.
Validate(docs, done, p) ==
  IF Sound(docs, p)
  THEN [done EXCEPT !.assessments =
          Append(@, [signal |-> p.signal, evidence |-> ValidatedEvidence(docs, p)])]
  ELSE [done EXCEPT !.invalid = Append(@, p)]

Validated(docs, answer) ==
  FoldLeft(LAMBDA done, p : Validate(docs, done, p), [assessments |-> <<>>, invalid |-> <<>>], answer)

-----------------------------------------------------------------------------
(* The stage *)

AssessmentInit ==
  /\ documents \in DocumentLists
  /\ exchange = [is |-> "start", shown |-> <<>>, answer |-> <<>>,
                 assessments |-> <<>>, invalid |-> <<>>]

Outcome(is) == exchange' = [exchange EXCEPT !.is = is]

Ask ==
  /\ exchange.is = "start"
  /\ IF documents = <<>> THEN Outcome("no documents")
     ELSE exchange' = [exchange EXCEPT !.is = "asked", !.shown = ShownOf(documents)]
  /\ UNCHANGED documents

CallFails(f) ==
  /\ exchange.is = "asked"
  /\ Outcome(IF Transient(f) THEN "retry" ELSE "failed")
  /\ UNCHANGED documents

OneResultPerSignal(answer) ==
  /\ {answer[i].signal : i \in DOMAIN answer} = SignalIds
  /\ Len(answer) = Cardinality(SignalIds)

\* An answer for each signal within the budget is validated result by result.
CallAnswers(answer, cost) ==
  /\ exchange.is = "asked"
  /\ IF OneResultPerSignal(answer) /\ cost <= RunBudget
     THEN exchange' = [exchange EXCEPT !.is = "assessed", !.answer = answer,
                         !.assessments = Validated(documents, answer).assessments,
                         !.invalid = Validated(documents, answer).invalid]
     ELSE Outcome("failed")
  /\ UNCHANGED documents

AssessmentNext ==
  \/ Ask
  \/ \E f \in Failures : CallFails(f)
  \/ \E answer \in Answers, cost \in Costs : CallAnswers(answer, cost)

AssessmentSpec == AssessmentInit /\ [][AssessmentNext]_assessmentVars

-----------------------------------------------------------------------------
(* Properties *)

\* docs/architecture.md: an excerpt is verbatim and its place is known.  Stored evidence
\* is found at its offset in the whole text of its document, and where the text
\* holds it more than once the offset is the one the provider gave, never a guess.
QuotesAreVerbatim ==
  \A i \in DOMAIN exchange.assessments : \A k \in DOMAIN exchange.assessments[i].evidence :
    LET e == exchange.assessments[i].evidence[k]
        found(o) == \E d \in DOMAIN documents :
          /\ documents[d].id = e.source /\ o + Len(e.excerpt) <= Len(documents[d].text)
          /\ SubSeq(documents[d].text, o + 1, o + Len(e.excerpt)) = e.excerpt
    IN  /\ found(e.start)
        /\ (\E d \in DOMAIN documents : \E o \in 0..Len(documents[d].text) :
              o # e.start /\ found(o)) =>
             \E a \in DOMAIN exchange.answer :
               /\ exchange.answer[a].signal = exchange.assessments[i].signal
               /\ \E q \in DOMAIN exchange.answer[a].evidence :
                    exchange.answer[a].evidence[q].offset = e.start

\* Characters in a prompt.
Total(shown) == FoldLeft(LAMBDA sum, part : sum + part, 0, shown)

\* The prompt keeps its limit, but for the last document's floor; and when the
\* documents are few enough for the floor, none is crowded out by those before it.
PromptIsShared ==
  exchange.is # "start" /\ documents # <<>> =>
    LET few == Len(documents) * FairFloor <= MaxCharacters
    IN  /\ Total(exchange.shown) <= MaxCharacters + (IF few THEN 0 ELSE FairFloor - 1)
        /\ few => \A i \in DOMAIN documents :
                    /\ i \in DOMAIN exchange.shown
                    /\ exchange.shown[i] >= Least(FairFloor, Len(documents[i].text))
=============================================================================

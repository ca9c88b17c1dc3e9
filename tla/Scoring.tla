------------------------------- MODULE Scoring -------------------------------
(***************************************************************************)
(* The score of a research run (scoring/scorer.py), from the assessments   *)
(* of its signals in profile order and the decided ICP criteria.           *)
(*                                                                         *)
(* A signal has an effect and a weight; a supported one has a strength in  *)
(* tenths, cites items of a publisher and an event each, and carries dates *)
(* as ages in steps of its freshness window, negative for the future.      *)
(* Numbers are whole: freshness counts steps of Window, novelty shares of  *)
(* Share, and the value of a signal is in Unit-ths of a weight point.      *)
(* A criterion is "met", "missed" or "unknown".                            *)
(***************************************************************************)
EXTENDS Integers, Sequences, FiniteSets, SequencesExt

CONSTANTS
  Assessments, \* sequences of signals as they are assessed
  Criteria,    \* sequences of criteria
  NoDate,      \* no event date, or no publication date
  Window,      \* steps of age in a freshness window
  Share        \* a common multiple of the numbers of events that signals cite

VARIABLES
  scoreInput,  \* signals and criteria of the run
  snapshot     \* the calculation: not done, refused, or done with its result

scoringVars == <<scoreInput, snapshot>>

Unit == 10 * Window * Share

Low(a, b) == IF a < b THEN a ELSE b
High(a, b) == IF a > b THEN a ELSE b

\* The event date, else the publication date; without either half the weight counts.
Freshness(signal) ==
  LET age == IF signal.event # NoDate THEN signal.event ELSE signal.published
  IN  IF age = NoDate THEN Window \div 2
      ELSE IF age < 0 THEN Window ELSE High(0, Window - age)

Positive(signal) == signal.effect = "positive"
Events(signal) == {item.event : item \in signal.items}
Publishers(signal) == {item.publisher : item \in signal.items}

ASSUME ScoringAssumption ==
  /\ Window \in Nat \ {0} /\ Window % 2 = 0 /\ Share \in Nat \ {0} /\ NoDate \notin Int
  /\ \A signals \in Assessments :
       /\ Len(signals) \in Nat /\ signals = [i \in 1..Len(signals) |-> signals[i]]
       /\ \A i \in DOMAIN signals :
            LET signal == signals[i] IN
            /\ signal.weight \in Nat /\ signal.strength \in 0..10
            /\ {signal.event, signal.published} \subseteq Int \union {NoDate}
            /\ IsFiniteSet(signal.items)
            /\ signal.items # {} => Share % Cardinality(Events(signal)) = 0
            /\ signal.status = "supported" /\ Positive(signal) => signal.items # {}

Denominator(signals) ==
  FoldLeft(LAMBDA sum, s : IF Positive(s) THEN sum + s.weight ELSE sum, 0, signals)

Tally == [claimed |-> {}, value |-> 0, penalty |-> 0, publishers |-> {}, strengths |-> 0,
          counted |-> 0, credible |-> FALSE, excluded |-> FALSE, parts |-> <<>>]

\* Mutant: an event counts for every signal that cites it.
EveryEvent(tally, signal) == Share

\* The share of a positive signal's events that no earlier one has claimed.
Novelty(tally, signal) ==
  IF Positive(signal) /\ Events(signal) # {}
  THEN (Share * Cardinality(Events(signal) \ tally.claimed)) \div Cardinality(Events(signal))
  ELSE Share

\* Mutant: a signal counts, however old what it rests on.
CountsAnyAge(signal, value) == Positive(signal)

Counts(signal, value) == Positive(signal) /\ value > 0

Value(tally, signal) ==
  signal.weight * signal.strength * Freshness(signal) * Novelty(tally, signal)

\* One signal; only a supported one contributes.
Counted(tally, signal) ==
  LET value == Value(tally, signal)
      positive == Positive(signal)
      worth == Counts(signal, value)
  IN  IF signal.status # "supported" THEN tally ELSE
      [claimed |-> IF positive THEN tally.claimed \union Events(signal) ELSE tally.claimed,
       value |-> tally.value + IF positive THEN value ELSE 0,
       penalty |-> tally.penalty + IF signal.effect = "penalty" THEN value ELSE 0,
       publishers |-> tally.publishers \union IF worth THEN Publishers(signal) ELSE {},
       strengths |-> tally.strengths + IF worth THEN signal.strength ELSE 0,
       counted |-> tally.counted + IF worth THEN 1 ELSE 0,
       credible |-> tally.credible \/ (worth /\ signal.strength >= 7),
       excluded |-> tally.excluded \/ signal.effect = "disqualifier",
       parts |-> Append(tally.parts, [signal |-> signal, value |-> value])]

Tallied(signals) == FoldLeft(Counted, Tally, signals)

\* Criteria nobody could compare are left out of the fit.
Number(criteria, answers) == Cardinality({i \in DOMAIN criteria : criteria[i] \in answers})

Coverage(signals) == Cardinality({i \in DOMAIN signals : signals[i].status = "supported"})

\* calculate_score; the score is a fraction top / bottom.
Score(signals, criteria) ==
  LET tally == Tallied(signals)
      total == Denominator(signals)
      sources == Low(2, Cardinality(tally.publishers))
      counted == High(1, tally.counted)
      bottom == 20 * Unit * total * counted
      raw == 100 * tally.value * sources * tally.strengths - 20 * total * counted * tally.penalty
      cap == IF ~tally.credible THEN 39 ELSE IF sources < 2 THEN 49 ELSE 100
      met == Number(criteria, {"met"})
      decided == Number(criteria, {"met", "missed"})
  IN  [is |-> "scored", top |-> Low(cap * bottom, High(0, raw)), bottom |-> bottom,
       parts |-> tally.parts,
       fit |-> <<met, decided>>, sources |-> Cardinality(tally.publishers),
       eligibility |->
         IF tally.excluded THEN "excluded"
         ELSE IF \/ 2 * Coverage(signals) < Len(signals)
                 \/ ~tally.credible \/ sources < 2
                 \/ sources * tally.strengths < 13 * counted
                 \/ 2 * tally.value < Unit * total
                 \/ decided # 0 /\ met = 0
              THEN "needs_research" ELSE "eligible"]

ScoringInit == scoreInput \in [signals : Assessments, criteria : Criteria] /\ snapshot = [is |-> "none"]

\* A profile needs a positive signal with a weight.
Calculate ==
  /\ snapshot.is = "none"
  /\ snapshot' = IF Denominator(scoreInput.signals) <= 0 THEN [is |-> "refused"]
                 ELSE Score(scoreInput.signals, scoreInput.criteria)
  /\ UNCHANGED scoreInput

ScoringNext == Calculate

ScoringSpec == ScoringInit /\ [][ScoringNext]_scoringVars

-----------------------------------------------------------------------------
(* Properties *)

IsScored == snapshot.is = "scored"

\* The positive contributions that add to the score.
Adding == {i \in DOMAIN snapshot.parts :
             Positive(snapshot.parts[i].signal) /\ snapshot.parts[i].value > 0}

\* docs/architecture.md: several citations do not multiply a score.  No more signals add
\* to it than events are cited, and no citation makes a signal count above its weight.
EventsCountOnce ==
  IsScored =>
    LET events == UNION {{item.event : item \in snapshot.parts[i].signal.items} : i \in Adding}
    IN  /\ Cardinality(Adding) <= Cardinality(events)
        /\ \A i \in Adding : snapshot.parts[i].value <= Unit * snapshot.parts[i].signal.weight

\* An opportunity that is shown as eligible rests on fresh evidence of two publishers,
\* one of them for a signal that is more than weakly supported.
EligibleIsCorroborated ==
  IsScored /\ snapshot.eligibility = "eligible" =>
    LET signals == scoreInput.signals
        fresh == {i \in DOMAIN signals :
                    /\ signals[i].status = "supported"
                    /\ signals[i].effect = "positive" /\ signals[i].weight > 0
                    /\ signals[i].event = NoDate \/ signals[i].event < Window
                    /\ signals[i].event = NoDate =>
                         signals[i].published = NoDate \/ signals[i].published < Window}
        publishers == UNION {{item.publisher : item \in signals[i].items} : i \in fresh}
    IN  /\ Cardinality(publishers) >= 2
        /\ \E i \in fresh : signals[i].strength > 4

=============================================================================

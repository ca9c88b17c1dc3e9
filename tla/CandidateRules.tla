---------------------------- MODULE CandidateRules ----------------------------
(***************************************************************************)
(* Which companies a discovery request finds, and how it qualifies them    *)
(* (discovery/wikidata.py, discovery/qualification.py).                    *)
(*                                                                         *)
(* A binding is a row of Wikidata's answer: the entity, its web domain and *)
(* country, the industry and head count when known, whether the entity has *)
(* a label and enough statements.  A request holds countries (none: all),  *)
(* industry (a hard filter, or Unknown), preferred industries, the minimum *)
(* head count, whether an unknown one is taken, and the limit.             *)
(***************************************************************************)
EXTENDS Integers, Sequences, FiniteSets, SequencesExt

CONSTANTS
  Wikidata,     \* bindings in the order Wikidata gives them
  Within,       \* pairs of industry labels, the first of which is part of the second
  Unknown,      \* an unknown industry or head count
  MaxPlausible  \* head counts above are taken for unknown

ASSUME CandidateAssumption ==
  /\ Unknown \notin Nat
  /\ Wikidata = [i \in 1..Len(Wikidata) |-> Wikidata[i]] /\ Len(Wikidata) \in Nat
  /\ \A i \in DOMAIN Wikidata : Wikidata[i].employees \in Nat \union {Unknown}

\* Industries are compared as text: a term is found in a label, or the other way round.
In(term, label) == <<term, label>> \in Within
SomeIn(terms, label) == \E term \in terms : In(term, label)

FirstOf(s, n) == SubSeq(s, 1, IF n < Len(s) THEN n ELSE Len(s))

-----------------------------------------------------------------------------
(* discovery/wikidata.py *)

LargeEnough(count, q) == IF count = Unknown THEN q.unknown ELSE count >= q.minimum

\* What the SPARQL query filters on the server, and the page of rows it returns.
OnServer(q, kept, b) ==
  IF /\ q.countries = {} \/ b.country \in q.countries
     /\ LargeEnough(b.employees, q)
     /\ b.statements
  THEN Append(kept, b) ELSE kept

Matching(q) == FoldLeft(LAMBDA kept, b : OnServer(q, kept, b), <<>>, Wikidata)

ServerRows(q, limit, offset) ==
  FirstOf(SubSeq(Matching(q), offset + 1, Len(Matching(q))), limit)

PlausibleCount(b) ==
  IF b.employees # Unknown /\ b.employees > MaxPlausible THEN Unknown ELSE b.employees

\* The client's own checks: a label, a head count, the industry asked for.
Acceptable(b, q) ==
  /\ b.labelled
  /\ LargeEnough(PlausibleCount(b), q)
  /\ q.industry # Unknown => In(q.industry, b.industry)

Candidate(b) == [entity |-> b.entity, domain |-> b.domain, country |-> b.country,
                 industry |-> b.industry, employees |-> PlausibleCount(b)]

\* The first acceptable row of an entity and of a domain is taken.
TakeFirst(q, seen, b) ==
  IF Acceptable(b, q) /\ \A i \in DOMAIN seen : seen[i].domain # b.domain /\ seen[i].entity # b.entity
  THEN Append(seen, Candidate(b)) ELSE seen

Deduplicated(rows, q) == FoldLeft(LAMBDA seen, b : TakeFirst(q, seen, b), <<>>, rows)

\* Preferred industries come first; the order is kept otherwise.
InGroup(group, kept, c) ==
  IF SomeIn(group.industries, c.industry) = group.preferred THEN Append(kept, c) ELSE kept

Group(s, group) == FoldLeft(LAMBDA kept, c : InGroup(group, kept, c), <<>>, s)

Preferred(s, industries) ==
  Group(s, [industries |-> industries, preferred |-> TRUE])
  \o Group(s, [industries |-> industries, preferred |-> FALSE])

WikidataPage(q, limit, rows) ==
  FirstOf(Preferred(Deduplicated(rows, q), q.industries), limit)

\* A discovery asks for four times as many rows as it returns.
FromWikidata(q) == WikidataPage(q, q.limit, ServerRows(q, 4 * q.limit, 0))

-----------------------------------------------------------------------------
(* discovery/qualification.py *)

\* Every industry a request names.
Industries(q) == IF q.industry = Unknown THEN q.industries ELSE q.industries \union {q.industry}

MatchesIndustry(label, terms) == SomeIn(terms, label) \/ \E term \in terms : In(label, term)

WrongCountry(c, q) == q.countries # {} /\ c.country \notin q.countries
WrongIndustry(c, q) ==
  Industries(q) # {} /\ c.industry # Unknown /\ ~MatchesIndustry(c.industry, Industries(q))
TooSmall(c, q) == q.minimum > 1 /\ c.employees # Unknown /\ c.employees < q.minimum

\* Mutant: an industry is a preference here too.
IndustryPreferred(c, q) ==
  IF WrongCountry(c, q) \/ TooSmall(c, q) THEN "out" ELSE "qualified"

\* A known mismatch comes first, then a fact to verify.
Qualification(c, q) ==
  IF WrongCountry(c, q) \/ WrongIndustry(c, q) \/ TooSmall(c, q) THEN "out"
  ELSE IF \/ Industries(q) # {} /\ c.industry = Unknown
          \/ q.minimum > 1 /\ c.employees = Unknown
  THEN "verify" ELSE "qualified"
=============================================================================

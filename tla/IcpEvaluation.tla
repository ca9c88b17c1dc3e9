---------------------------- MODULE IcpEvaluation ----------------------------
(***************************************************************************)
(* The ideal customer profile from the words that were typed to the answer *)
(* of each criterion (contracts/icp.py, icp/employees.py, icp/geography.py, *)
(* icp/evaluation.py), and the discovery search the frontend makes of the  *)
(* same profile (discovery/matching.ts).                                   *)
(*                                                                         *)
(* A size phrase is the set of markers the regular expressions find in it: *)
(* range (<<a, b>> or <<>>), least, most and bare (a number or Unknown),   *)
(* and about: it speaks of employees or is nothing but the number.         *)
(* A profile states a key once (profiles/repository.ts sends one value per *)
(* key), so its criteria are a set.  A criterion is answered "met",        *)
(* "missed" or "unknown".                                                  *)
(***************************************************************************)
EXTENDS CandidateRules

CONSTANTS
  Versions,       \* stored profile configurations
  Codes,          \* countries a place name stands for: a function on the known names
  CountryName,    \* the name of each country code
  Worldwide,      \* phrases that mean every country
  NoRestriction,  \* legacy values that state nothing
  Phrases,        \* markers of the size phrases: a function
  MaxEmployees,   \* a typed head count is cut to this
  DefaultMarket,  \* countries searched when the profile names none
  MaxCountries,   \* country codes a discovery request may hold
  SearchLimit     \* candidates the search asks for

VARIABLE icpCase  \* a stored version on its way from search to evaluation

Band(minimum, maximum) == [minimum |-> minimum, maximum |-> maximum]
Open == Band(Unknown, Unknown)

-----------------------------------------------------------------------------
(* icp/employees.py *)

Bounded(n) == IF n > MaxEmployees THEN MaxEmployees ELSE n

Ordered(a, b) == IF a <= b THEN Band(Bounded(a), Bounded(b)) ELSE Band(Bounded(b), Bounded(a))

\* parse_employee_range: a span, two bounds in either order, one bound, or a lone
\* number about employees, which is read as a minimum.
EmployeeRange(m) ==
  IF m.range # <<>> THEN Ordered(m.range[1], m.range[2])
  ELSE IF m.least # Unknown /\ m.most # Unknown THEN Ordered(m.least, m.most)
  ELSE IF m.least # Unknown THEN Band(Bounded(m.least), Unknown)
  ELSE IF m.most # Unknown THEN Band(Unknown, Bounded(m.most))
  ELSE IF m.bare # Unknown /\ m.about THEN Band(Bounded(m.bare), Unknown) ELSE Open

-----------------------------------------------------------------------------
(* icp/geography.py *)

Resolved(values) == UNION {Codes[v] : v \in values \intersect DOMAIN Codes}
Unresolved(values) == values \ (DOMAIN Codes \union Worldwide \union {""})
IsWorldwide(values) == values \intersect Worldwide # {}

\* resolve_country_text: the countries a stored fact may mean, none if not understood.
PossibleCountries(fact) ==
  IF fact \in Worldwide THEN DOMAIN CountryName
  ELSE IF fact \in DOMAIN Codes THEN Codes[fact] ELSE {}

-----------------------------------------------------------------------------
(* contracts/icp.py *)

CriterionKeys == {"industry", "geography", "company_size", "operational_complexity"}

Criterion(key, values, employees) ==
  [key |-> key, values |-> values, employees |-> employees, includeUnknown |-> TRUE]

Alias(key) ==
  CASE key \in {"companies", "company_size", "employees", "size"} -> "company_size"
    [] key \in {"countries", "geography", "markets", "region"} -> "geography"
    [] key \in {"industry", "industries"} -> "industry"
    [] key \in {"complexity", "operational_complexity"} -> "operational_complexity"
    [] OTHER -> "not a criterion"

\* criteria_from_legacy_icp, for a dictionary of key to values: the values of all
\* aliases of a key, in one criterion; a profile states one size phrase.
FromLegacy(icp) ==
  LET stated(key) == (UNION {icp[k] : k \in {k \in DOMAIN icp : Alias(k) = key}}) \ NoRestriction
      criterion(key) ==
        Criterion(key, stated(key),
          IF key = "company_size" /\ stated(key) # {}
          THEN EmployeeRange(Phrases[CHOOSE p \in stated(key) : TRUE]) ELSE Open)
  IN  {criterion(key) : key \in {k \in CriterionKeys : stated(k) # {}}}

StoredCriteria(version) == IF version.typed THEN version.criteria ELSE FromLegacy(version.icp)

IsRestrictive(c) ==
  \/ c.key = "company_size" /\ c.employees # Open
  \/ c.values \ {""} # {} /\ (c.key = "geography" => ~IsWorldwide(c.values))

EffectiveCriteria(version) == {c \in StoredCriteria(version) : IsRestrictive(c)}

ASSUME IcpAssumption ==
  /\ MaxEmployees \in Nat /\ SearchLimit \in Nat
  \* Reference data: a place stands for countries, and a country's name for itself too.
  /\ DefaultMarket \subseteq DOMAIN CountryName
  /\ \A place \in DOMAIN Codes : Codes[place] # {} /\ Codes[place] \subseteq DOMAIN CountryName
  /\ \A c \in DOMAIN CountryName :
       CountryName[c] \in DOMAIN Codes => c \in Codes[CountryName[c]]
  /\ \A p \in DOMAIN Phrases :
       LET m == Phrases[p] IN
       /\ {m.least, m.most, m.bare} \subseteq Nat \union {Unknown}
       /\ m.range # <<>> => m.range[1] \in Nat /\ m.range[2] \in Nat
  /\ \A v \in Versions :
       IF v.typed
       THEN \A c \in v.criteria :
              /\ c.key \in CriterionKeys /\ \A d \in v.criteria : d.key = c.key => d = c
              /\ {c.employees.minimum, c.employees.maximum} \subseteq Nat \union {Unknown}
       ELSE \A k \in DOMAIN v.icp :
              Alias(k) = "company_size" => v.icp[k] \subseteq DOMAIN Phrases \union NoRestriction

-----------------------------------------------------------------------------
(* icp/evaluation.py *)

MatchIndustry(c, fact) ==
  IF fact = Unknown THEN "unknown"
  ELSE IF \E v \in c.values : In(v, fact) \/ In(fact, v) THEN "met" ELSE "missed"

MatchGeography(c, fact) ==
  LET possible == PossibleCountries(fact)
      configured == Resolved(c.values)
  IN  IF Unresolved(c.values) # {} THEN "unknown"
      ELSE IF IsWorldwide(c.values) THEN "met"
      ELSE IF possible = {} THEN "unknown"
      ELSE IF possible \subseteq configured THEN "met"
      ELSE IF possible \intersect configured # {} THEN "unknown" ELSE "missed"

\* Head counts are stored as numbers by the confirmation of a discovery.
MatchCompanySize(c, fact) ==
  LET below == c.employees.minimum # Unknown /\ fact < c.employees.minimum
      above == c.employees.maximum # Unknown /\ fact > c.employees.maximum
  IN  IF fact = Unknown THEN IF c.includeUnknown THEN "unknown" ELSE "missed"
      ELSE IF c.employees = Open THEN "unknown"
      ELSE IF below \/ above THEN "missed" ELSE "met"

\* Prose that differs is not evidence of absence.
MatchOperationalComplexity(c, fact) ==
  IF fact # Unknown /\ fact \in c.values THEN "met" ELSE "unknown"

CriterionAnswer(c, facts) ==
  CASE c.key = "industry" -> MatchIndustry(c, facts.industry)
    [] c.key = "geography" -> MatchGeography(c, facts.geography)
    [] c.key = "company_size" -> MatchCompanySize(c, facts.company_size)
    [] OTHER -> MatchOperationalComplexity(c, facts.operational_complexity)

\* evaluate_criteria
Evaluated(criteria, facts) == [c \in criteria |-> CriterionAnswer(c, facts)]

-----------------------------------------------------------------------------
(* frontend/src/features/discovery/matching.ts *)

\* The criterion of a key, with what the server resolved; none: nothing stated.
CriterionOf(version, key) ==
  LET criteria == {c \in StoredCriteria(version) : c.key = key}
  IN  IF criteria = {} THEN Criterion(key, {}, Open) ELSE CHOOSE c \in criteria : TRUE

\* Mutant: companies of unknown size are always asked for.
UnknownSizesTaken(size) == TRUE

IncludeUnknownSize(size) == size.includeUnknown

\* profileSearch; a place that could not be interpreted stops it before.
ProfileSearch(version) ==
  LET geography == CriterionOf(version, "geography")
      size == CriterionOf(version, "company_size")
      countries == IF IsWorldwide(geography.values) THEN {} ELSE Resolved(geography.values)
  IN  [countries |-> IF countries = {} THEN DefaultMarket ELSE countries,
       minimum |-> IF size.employees.minimum = Unknown THEN 1 ELSE size.employees.minimum,
       unknown |-> IncludeUnknownSize(size), industry |-> Unknown,
       industries |-> CriterionOf(version, "industry").values, limit |-> SearchLimit]

\* The server's own bounds of a request (discovery/models.py).
RequestAccepted(q) == q.minimum >= 1 /\ Cardinality(q.countries) <= MaxCountries

NoFacts == [industry |-> Unknown, geography |-> Unknown, company_size |-> Unknown,
            operational_complexity |-> Unknown]

IcpInit == icpCase \in [at : {"saved"}, version : Versions, facts : {NoFacts}]

Search ==
  /\ icpCase.at = "saved"
  /\ LET v == icpCase.version IN
     icpCase' = [icpCase EXCEPT !.at =
       IF Unresolved(CriterionOf(v, "geography").values) # {} THEN "not searchable"
       ELSE IF RequestAccepted(ProfileSearch(v)) THEN "searched" ELSE "rejected"]

\* A candidate that is not out of the ICP becomes a company with its facts.
ConfirmCandidate ==
  /\ icpCase.at = "searched"
  /\ LET q == ProfileSearch(icpCase.version)
         found == FromWikidata(q)
     IN  \E i \in DOMAIN found :
           /\ Qualification(found[i], q) # "out"
           /\ icpCase' = [icpCase EXCEPT !.at = "confirmed",
                !.facts = [@ EXCEPT !.geography = CountryName[found[i].country],
                                    !.industry = found[i].industry,
                                    !.company_size = found[i].employees]]

IcpNext == Search \/ ConfirmCandidate

IcpSpec == IcpInit /\ [][IcpNext]_icpCase

-----------------------------------------------------------------------------
\* icp/geography.py: scorer and discovery search compare the same values.  A company
\* that the search of a profile finds and qualification lets pass is never counted as a
\* mismatch of that profile, but for being larger than it asks, which no search filters;
\* and a stated place the scorer can never compare is refused by the search.
SearchAgreesWithScorer ==
  LET criteria == EffectiveCriteria(icpCase.version)
      answers == Evaluated(criteria, icpCase.facts)
  IN  /\ icpCase.at = "confirmed" =>
           \A c \in criteria :
             answers[c] = "missed" =>
               /\ c.key = "company_size" /\ icpCase.facts.company_size # Unknown
               /\ icpCase.facts.company_size > c.employees.maximum
      /\ icpCase.at \in {"searched", "confirmed"} =>
           \A c \in criteria : c.key = "geography" => Unresolved(c.values) = {}
=============================================================================

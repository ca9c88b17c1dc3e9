------------------------------ MODULE MCServices ------------------------------
(***************************************************************************)
(* Instances of the components that share no state with one another, for   *)
(* one run of TLC: a behaviour is one of the component that service names, *)
(* while the others stay in an initial state.                              *)
(***************************************************************************)
EXTENDS ResultsApi, Profiles, Discovery, Scoring, IcpEvaluation, Assessment

VARIABLE service

-----------------------------------------------------------------------------
(* Discovery and ICP evaluation: companies, requests and profile versions *)

Entity(e, domain, country, industry, employees, labelled) ==
  [entity |-> e, domain |-> domain, country |-> country, industry |-> industry,
   employees |-> employees, labelled |-> labelled, statements |-> TRUE]

\* Entity 1 has two domains, entities 1 and 2 share one, and one head count is implausible.
SmallWikidata ==
  <<Entity(1, "a", "RO", "steel", 9, TRUE), Entity(1, "b", "RO", "retail", 5, TRUE),
    Entity(2, "b", "RO", "steel", 5, TRUE), Entity(3, "c", "RO", Unknown, Unknown, TRUE),
    Entity(4, "d", "PL", "retail", 2, TRUE), Entity(5, "e", "PL", "steel", 6, FALSE)>>

SmallWithin == {<<"steel", "steel">>, <<"retail", "retail">>, <<"metal", "metal">>,
                <<"metal", "steel">>}

SmallRequests ==
  {[countries |-> {"RO"}, industry |-> Unknown, industries |-> {"steel"}, minimum |-> 3,
    unknown |-> TRUE, limit |-> 2],
   [countries |-> {}, industry |-> "retail", industries |-> {}, minimum |-> 1,
    unknown |-> FALSE, limit |-> 1]}

SmallCodes == [p \in {"Romania", "Poland", "France", "CEE", "Europe"} |->
                 CASE p = "Romania" -> {"RO"} [] p = "Poland" -> {"PL"} [] p = "France" -> {"FR"}
                   [] p = "CEE" -> {"RO", "PL"} [] OTHER -> {"RO", "PL", "FR"}]

SmallCountries == [c \in {"RO", "PL", "FR"} |->
                     CASE c = "RO" -> "Romania" [] c = "PL" -> "Poland" [] OTHER -> "France"]

Markers(range, least, most, bare, about) ==
  [range |-> range, least |-> least, most |-> most, bare |-> bare, about |-> about]

SmallPhrases ==
  [p \in {"5+", "6-2", "0 to 3", "large", "6 people", "turnover of 5", "over 6, under 3"} |->
     CASE p = "5+" -> Markers(<<>>, 5, Unknown, 5, TRUE)
       [] p = "6-2" -> Markers(<<6, 2>>, Unknown, Unknown, 6, TRUE)
       [] p = "0 to 3" -> Markers(<<0, 3>>, Unknown, Unknown, 0, TRUE)
       [] p = "large" -> Markers(<<>>, Unknown, Unknown, Unknown, TRUE)
       [] p = "6 people" -> Markers(<<>>, Unknown, Unknown, 6, TRUE)
       [] p = "turnover of 5" -> Markers(<<>>, Unknown, Unknown, 5, FALSE)
       [] OTHER -> Markers(<<>>, 6, 3, 6, FALSE)]

SomePlaces == {{"CEE"}, {"Romania"}, {"Atlantis"}, {"any", "Romania"}, {"Europe"}}
SomeSizes == {{p} : p \in DOMAIN SmallPhrases}

TypedVersions ==
  {[typed |-> TRUE, criteria |->
      {Criterion("industry", {i}, Open), Criterion("geography", g, Open),
       [Criterion("company_size", s, EmployeeRange(Phrases[CHOOSE p \in s : TRUE]))
          EXCEPT !.includeUnknown = u]}] :
     i \in {"metal", "retail"}, g \in SomePlaces \union {{""}}, s \in SomeSizes, u \in BOOLEAN}

LegacyVersions ==
  {[typed |-> FALSE,
    icp |-> [industries |-> i, markets |-> g, region |-> h, size |-> s, turnover |-> {"x"}]] :
     i \in {{}, {"metal"}}, g \in SomePlaces, h \in {{}, {"unknown"}, {"Poland"}},
     s \in SomeSizes \union {{}}}

SmallVersions == TypedVersions \union LegacyVersions

-----------------------------------------------------------------------------
(* Scoring: two positive signals and one of another effect *)

Item(publisher, event) == [publisher |-> publisher, event |-> event]
Cited == {{Item(p, e)} : p \in {"p", "q"}, e \in {"x", "y"}}
           \union {{Item("p", "x"), Item("q", e)} : e \in {"x", "y"}}

PositiveSignals(w) ==
  [effect : {"positive"}, weight : {w}, status : {"supported"}, strength : {10, 4}, items : Cited,
   event : {-1, 2, NoDate}, published : {1, NoDate}]
  \union [effect : {"positive"}, weight : {w}, status : {"contradicted"}, strength : {7},
          items : {{}}, event : {NoDate}, published : {NoDate}]
  \union [effect : {"positive"}, weight : {w}, status : {"supported"}, strength : {7}, items : Cited,
          event : {NoDate}, published : {2, 1}]

OtherSignals ==
  [effect : {"penalty", "disqualifier"}, weight : {1}, status : {"supported", "insufficient"},
   strength : {7}, items : {{}}, event : {0}, published : {NoDate}]

SmallAssessments ==
  {<<a, b, c>> : a \in PositiveSignals(1), b \in PositiveSignals(2), c \in OtherSignals}
    \union {<<a>> : a \in PositiveSignals(0)}

SmallCriteria == {<<>>, <<"unknown">>, <<"missed", "unknown">>, <<"met", "missed">>}

-----------------------------------------------------------------------------
(* Assessment: texts in which excerpts repeat and overlap *)

Document(id, text) == [id |-> id, text |-> text]
AAA == <<"a", "a", "a">>

SmallDocuments ==
  {<<>>, <<Document("d", AAA)>>, <<Document("d", <<"a", "b">>), Document("e", <<"b", "a", "b">>)>>,
   <<Document("d", AAA), Document("e", AAA), Document("f", AAA)>>,
   <<Document("d", <<>>), Document("e", AAA \o AAA), Document("f", <<"b">>)>>,
   <<Document("d", AAA), Document("e", AAA), Document("f", AAA), Document("g", <<"b">>)>>}

Quote(source, excerpt, offset, event) ==
  [source |-> source, excerpt |-> excerpt, offset |-> offset, event |-> event]

Quotes ==
  {<<Quote(s, x, o, "y")>> :
     s \in {"d", "e", "unknown"}, x \in {<<"a">>, <<"a", "a">>, <<"a", "b">>}, o \in {0, 1}}
  \union {<<Quote("d", <<"a">>, o, "y"), Quote(s, <<"b">>, 0, v)>> :
            o \in 0..2, s \in {"d", "e"}, v \in {"y", "z"}}

Insufficient(s, strength) ==
  [signal |-> s, status |-> "insufficient", strength |-> strength, evidence |-> <<>>]

Proposed(s) ==
  [signal : {s}, status : {"supported"}, strength : {"weak"}, evidence : Quotes \union {<<>>}]
    \union {Insufficient(s, "none")}

Briefly == {Insufficient(s, strength) : s \in {1, 2}, strength \in {"none", "weak"}}

SmallAnswers ==
  {<<p, q>> : p \in Proposed(1), q \in Briefly} \union {<<p>> : p \in Briefly}
    \union {<<p, q, r>> : p \in Briefly, q \in Briefly, r \in Briefly}

SmallFailures ==
  [is : {"reported"}, status : {200, 400, 503}, code : {NoCode, 429, 401}, type : {"none", "timeout"}]
    \union [is : {"unreachable", "read timeout", "malformed"}, status : {0}, code : {NoCode},
            type : {"none"}]

-----------------------------------------------------------------------------
\* Requests and documents are interchangeable: nothing chooses among them.
Interchangeable == Permutations(Docs) \union Permutations(Clients) \union Permutations(Visitors)

All == <<apiVars, profileVars, discoveryVars, scoringVars, icpCase, assessmentVars>>

\* A component that is not the subject starts in one of its initial states.
ScoringRests == scoreInput = [signals |-> <<>>, criteria |-> <<>>] /\ snapshot = [is |-> "none"]
IcpRests == icpCase = [at |-> "none"]
AssessmentRests == documents = <<>> /\ exchange = [is |-> "none", assessments |-> <<>>, shown |-> <<>>]

ServicesInit ==
  /\ service \in {"results", "profiles", "discovery", "scoring", "icp", "assessment"}
  /\ ApiInit /\ ProfilesInit /\ DiscoveryInit
  /\ IF service = "scoring" THEN ScoringInit ELSE ScoringRests
  /\ IF service = "icp" THEN IcpInit ELSE IcpRests
  /\ IF service = "assessment" THEN AssessmentInit ELSE AssessmentRests

ServicesNext ==
  /\ UNCHANGED service
  /\ \/ /\ service = "results" /\ ApiNext
        /\ UNCHANGED <<profileVars, discoveryVars, scoringVars, icpCase, assessmentVars>>
     \/ /\ service = "profiles" /\ ProfilesNext
        /\ UNCHANGED <<apiVars, discoveryVars, scoringVars, icpCase, assessmentVars>>
     \/ /\ service = "discovery" /\ DiscoveryNext
        /\ UNCHANGED <<apiVars, profileVars, scoringVars, icpCase, assessmentVars>>
     \/ /\ service = "scoring" /\ ScoringNext
        /\ UNCHANGED <<apiVars, profileVars, discoveryVars, icpCase, assessmentVars>>
     \/ /\ service = "icp" /\ IcpNext
        /\ UNCHANGED <<apiVars, profileVars, discoveryVars, scoringVars, assessmentVars>>
     \/ /\ service = "assessment" /\ AssessmentNext
        /\ UNCHANGED <<apiVars, profileVars, discoveryVars, scoringVars, icpCase>>

ServicesSpec == ServicesInit /\ [][ServicesNext]_<<All, service>>
=============================================================================

---------------------------- MODULE ServicesProofs ----------------------------
(***************************************************************************)
(* Services of the API and the functions they call.  Versions of a service *)
(* profile stand for any number of updates at once; the company page,      *)
(* sales changes and translations keep their promises for any number of    *)
(* runs, documents and requests; discovery answers what it was asked for;  *)
(* prompts are shared and quotes verbatim for any documents and answers;   *)
(* an event scores once and an eligible score is corroborated for any      *)
(* signals; the search made of a profile and its criteria agree.           *)
(***************************************************************************)
EXTENDS Profiles, ResultsApi, Discovery, Assessment, Scoring, IcpEvaluation, FiniteSetTheorems, TLAPS

-----------------------------------------------------------------------------
(* Service profiles *)

EditRecords ==
  [at : {"idle", "loaded", "ok", "error", "not found"}, seen : Nat, was : Names, name : Names,
   version : Nat]

\* A request that is answered has stored one version, and every stored version has
\* been answered; a loaded list is a beginning of the stored one.
VersionsInv ==
  /\ profile \in [name : Names, versions : Seq(Editors)]
  /\ edits \in [Editors -> EditRecords]
  /\ profile.name = NoName => profile.versions = <<>>
  /\ \A v \in DOMAIN profile.versions :
       edits[profile.versions[v]].at = "ok" /\ edits[profile.versions[v]].version = v
  /\ \A e \in Editors : edits[e].at = "ok" =>
       edits[e].version \in DOMAIN profile.versions /\ profile.versions[edits[e].version] = e
  /\ \A e \in Editors : edits[e].at = "loaded" =>
       profile.name # NoName /\ edits[e].seen <= Len(profile.versions)

LEMMA CreateKeepsVersions ==
  ASSUME VersionsInv, NEW e \in Editors, NEW name \in ProfileNames, CreateProfile(e, name)
  PROVE  VersionsInv'
<1>1. /\ profile.versions = <<>> /\ edits[e].at = "idle"
      /\ profile' = [name |-> name, versions |-> <<e>>] /\ name \in Names /\ name # NoName
  BY ProfilesAssumption DEF VersionsInv, CreateProfile, Names
<1>2. \A d \in Editors : edits[d].at \notin {"ok", "loaded"}
  BY <1>1 DEF VersionsInv, CreateProfile
<1>3. /\ edits' \in [Editors -> EditRecords]
      /\ edits'[e].at = "ok" /\ edits'[e].version = 1
      /\ \A d \in Editors : d # e => edits'[d] = edits[d]
  <2> DEFINE f == [edits[e] EXCEPT !.at = "ok", !.version = 1]
  <2>1. edits[e] \in EditRecords
    BY DEF VersionsInv
  <2>2. f \in EditRecords /\ f.at = "ok" /\ f.version = 1
    BY <2>1 DEF EditRecords
  <2>3. edits' = [edits EXCEPT ![e] = f]
    BY DEF CreateProfile, VersionsInv
  <2> HIDE DEF f
  <2> QED
    BY <2>2, <2>3 DEF VersionsInv
<1>4. profile' \in [name : Names, versions : Seq(Editors)] /\ DOMAIN profile'.versions = {1}
      /\ profile'.versions[1] = e /\ profile'.name # NoName
  BY <1>1
<1>5. Len(profile'.versions) = 1 /\ \A v \in DOMAIN profile'.versions : v = 1
  BY <1>1, <1>4
<1>6. \A d \in Editors : edits'[d].at = "ok" => d = e
  BY <1>2, <1>3
<1>7. \A d \in Editors : edits'[d].at # "loaded"
  BY <1>2, <1>3
<1>8. \A v \in DOMAIN profile'.versions :
        edits'[profile'.versions[v]].at = "ok" /\ edits'[profile'.versions[v]].version = v
  BY <1>3, <1>4, <1>5
<1>9. \A d \in Editors : edits'[d].at = "ok" =>
        edits'[d].version \in DOMAIN profile'.versions
          /\ profile'.versions[edits'[d].version] = d
  BY <1>3, <1>4, <1>6
<1> QED
  BY <1>3, <1>4, <1>7, <1>8, <1>9 DEF VersionsInv

LEMMA LoadKeepsVersions ==
  ASSUME VersionsInv, NEW e \in Editors, NEW name \in Names, LoadProfile(e, name)
  PROVE  VersionsInv'
<1> DEFINE f == [at |-> IF profile.name = NoName THEN "not found" ELSE "loaded",
                 seen |-> Len(profile.versions), was |-> profile.name, name |-> name,
                 version |-> 0]
<1>1. UNCHANGED profile /\ edits' = [edits EXCEPT ![e] = f] /\ edits[e].at = "idle"
  BY DEF LoadProfile
<1>2. Len(profile.versions) \in Nat /\ profile.name \in Names
  BY DEF VersionsInv
<1>3. /\ f \in EditRecords /\ f.at # "ok" /\ f.seen = Len(profile.versions)
      /\ f.at = "loaded" => profile.name # NoName
  BY <1>2 DEF EditRecords
<1> HIDE DEF f
<1>4. \A d \in Editors : edits'[d] = IF d = e THEN f ELSE edits[d]
  BY <1>1 DEF VersionsInv
<1>5. edits' \in [Editors -> EditRecords]
  BY <1>1, <1>3 DEF VersionsInv
<1>6. \A v \in DOMAIN profile.versions : profile.versions[v] \in Editors \ {e}
  BY <1>1 DEF VersionsInv
<1> QED
  BY <1>1, <1>2, <1>3, <1>4, <1>5, <1>6 DEF VersionsInv

LEMMA CommitKeepsVersions ==
  ASSUME VersionsInv, NEW e \in Editors, CommitVersion(e)
  PROVE  VersionsInv'
<1> DEFINE versions == profile.versions
           n == edits[e].seen + 1
<1>1. /\ edits[e] \in EditRecords /\ edits[e].at = "loaded" /\ profile.name # NoName
      /\ edits[e].seen \in Nat /\ edits[e].seen <= Len(versions)
      /\ versions \in Seq(Editors) /\ Len(versions) \in Nat /\ DOMAIN versions = 1..Len(versions)
  <2>1. edits[e] \in EditRecords /\ edits[e].at = "loaded"
    BY DEF VersionsInv, CommitVersion
  <2>2. profile.name # NoName /\ edits[e].seen <= Len(profile.versions)
    BY <2>1 DEF VersionsInv
  <2>3. edits[e].seen \in Nat
    BY <2>1 DEF EditRecords
  <2>4. profile.versions \in Seq(Editors)
    BY DEF VersionsInv
  <2>5. /\ Len(profile.versions) \in Nat
        /\ DOMAIN profile.versions = 1..Len(profile.versions)
    BY <2>4
  <2> QED
    BY <2>1, <2>2, <2>3, <2>4, <2>5
<1>2. \A v \in DOMAIN versions : versions[v] \in Editors \ {e}
  BY <1>1 DEF VersionsInv
<1>3. CASE VersionFree(e)
  <2> DEFINE f == [edits[e] EXCEPT !.at = "ok", !.version = n]
             name == IF edits[e].name \notin {NoName, edits[e].was} THEN edits[e].name
                     ELSE profile.name
  <2>1. n = Len(versions) + 1
    BY <1>1, <1>3 DEF VersionFree
  <2>2. profile' = [name |-> name, versions |-> Append(versions, e)]
    BY <1>3 DEF CommitVersion
  <2>3. name \in Names /\ name # NoName
    BY <1>1 DEF VersionsInv, EditRecords
  <2>4. /\ Append(versions, e) \in Seq(Editors) /\ Len(Append(versions, e)) = n
        /\ DOMAIN Append(versions, e) = 1..n
        /\ \A v \in DOMAIN versions : Append(versions, e)[v] = versions[v]
        /\ Append(versions, e)[n] = e
    BY <1>1, <2>1
  <2>5. f \in EditRecords /\ f.at = "ok" /\ f.version = n
    <3>1. n \in Nat
      BY <1>1
    <3> HIDE DEF n
    <3> QED
      BY <1>1, <3>1 DEF EditRecords
  <2>6. edits' = [edits EXCEPT ![e] = f]
    BY <1>3 DEF CommitVersion, VersionsInv
  <2> HIDE DEF f, name
  <2>7. /\ edits' \in [Editors -> EditRecords]
        /\ \A d \in Editors : edits'[d] = IF d = e THEN f ELSE edits[d]
    BY <2>5, <2>6 DEF VersionsInv
  <2>8. profile'.versions = Append(versions, e) /\ profile'.name = name
        /\ profile' \in [name : Names, versions : Seq(Editors)]
    BY <2>2, <2>3, <2>4
  <2>9. \A v \in DOMAIN profile'.versions :
          edits'[profile'.versions[v]].at = "ok" /\ edits'[profile'.versions[v]].version = v
    <3> SUFFICES ASSUME NEW v \in 1..n
                 PROVE  /\ edits'[Append(versions, e)[v]].at = "ok"
                        /\ edits'[Append(versions, e)[v]].version = v
      BY <2>4, <2>8
    <3>1. CASE v = n
      BY <2>4, <2>5, <2>7, <3>1
    <3>2. CASE v # n
      <4>1. v \in DOMAIN versions
        BY <1>1, <2>1, <3>2
      <4> QED
        BY <1>2, <2>4, <2>7, <4>1 DEF VersionsInv
    <3> QED
      BY <3>1, <3>2
  <2>10. \A d \in Editors : edits'[d].at = "ok" =>
           edits'[d].version \in DOMAIN profile'.versions
             /\ profile'.versions[edits'[d].version] = d
    <3> SUFFICES ASSUME NEW d \in Editors, edits'[d].at = "ok"
                 PROVE  edits'[d].version \in 1..n /\ Append(versions, e)[edits'[d].version] = d
      BY <2>4, <2>8
    <3>1. CASE d = e
      BY <1>1, <2>4, <2>5, <2>7, <3>1
    <3>2. CASE d # e
      <4>1. edits[d].version \in DOMAIN versions /\ versions[edits[d].version] = d
        BY <2>7, <3>2 DEF VersionsInv
      <4> QED
        BY <1>1, <2>1, <2>4, <2>7, <3>2, <4>1
    <3> QED
      BY <3>1, <3>2
  <2>11. \A d \in Editors : edits'[d].at = "loaded" =>
           profile'.name # NoName /\ edits'[d].seen <= Len(profile'.versions)
    <3> SUFFICES ASSUME NEW d \in Editors, edits'[d].at = "loaded"
                 PROVE  edits'[d].seen <= n
      BY <2>3, <2>4, <2>8
    <3>1. d # e /\ edits[d].at = "loaded" /\ edits'[d] = edits[d] /\ edits[d] \in EditRecords
      BY <2>5, <2>7 DEF VersionsInv
    <3>2. edits[d].seen <= Len(versions) /\ edits[d].seen \in Nat
      BY <3>1 DEF VersionsInv, EditRecords
    <3> QED
      BY <1>1, <2>1, <3>1, <3>2
  <2> HIDE DEF versions, n
  <2> QED
    BY <2>3, <2>7, <2>8, <2>9, <2>10, <2>11 DEF VersionsInv
<1>4. CASE ~VersionFree(e)
  <2> DEFINE f == [edits[e] EXCEPT !.at = "error"]
  <2>1. UNCHANGED profile /\ edits' = [edits EXCEPT ![e] = f]
    BY <1>4 DEF CommitVersion
  <2>2. f \in EditRecords /\ f.at = "error"
    BY <1>1 DEF EditRecords
  <2> HIDE DEF f
  <2>3. /\ edits' \in [Editors -> EditRecords]
        /\ \A d \in Editors : edits'[d] = IF d = e THEN f ELSE edits[d]
    BY <2>1, <2>2 DEF VersionsInv
  <2> QED
    BY <1>2, <2>1, <2>2, <2>3 DEF VersionsInv
<1> QED
  BY <1>3, <1>4

\* The strengthened invariant of profiles and their updates.
THEOREM VersionsInvariant == ProfilesSpec => []VersionsInv
<1>1. ProfilesInit => VersionsInv
  BY DEF ProfilesInit, VersionsInv, EditRecords, Names
<1>2. VersionsInv /\ [ProfilesNext]_profileVars => VersionsInv'
  <2>1. CASE UNCHANGED profileVars
    BY <2>1 DEF VersionsInv, profileVars
  <2> QED
    BY <2>1, CreateKeepsVersions, LoadKeepsVersions, CommitKeepsVersions DEF ProfilesNext
<1> QED
  BY <1>1, <1>2, PTL DEF ProfilesSpec

\* api/profiles.py: however many updates load the same version list, an answered one is
\* stored under the number it was answered with, for good, and a refused one is not stored.
THEOREM VersionsStand == ProfilesSpec => []AnsweredVersionStands
<1>1. VersionsInv => AnsweredVersionStands
  BY DEF VersionsInv, AnsweredVersionStands
<1> QED
  BY <1>1, VersionsInvariant, PTL

-----------------------------------------------------------------------------
(* The company page, sales changes and translations *)

SaleRow == [status : Columns.status, note : Columns.note]

CallRecords ==
  [at : {"idle", "assessments", "evidence", "sources", "history", "render", "patching", "reading",
         "paying", "storing", "done"},
   run : {0} \union Runs, want : SUBSET Docs, have : SUBSET Docs, sources : SUBSET Docs,
   patch : Patches \union {NoOpportunity}, loaded : SaleRow \union {NoOpportunity},
   model : Models, known : SUBSET Models,
   answer : {"", "ok", "error", "not found", "cached", "provider failed", "unscored"},
   overtaken : BOOLEAN]

ApiTypes ==
  /\ runs \in [Runs -> {"absent", "there", "gone"}]
  /\ sourceRun \in [Docs -> {0} \union Runs]
  /\ evidence \subseteq Docs
  /\ cited \in [Runs -> SUBSET Docs]
  /\ latest \in {0} \union Runs
  /\ sales \in SaleRow \union {NoOpportunity}
  /\ translations \subseteq Docs \X Models
  /\ calls \in [Clients -> CallRecords]

\* Foreign keys hold, and an opportunity has lost its snapshot only to a deletion.
TablesInv ==
  /\ \A r \in Runs : cited[r] \subseteq evidence
  /\ \A d \in evidence : sourceRun[d] # 0
  /\ \A t \in translations : t[1] \in evidence
  /\ sales # NoOpportunity => latest # 0 \/ \E r \in Runs : runs[r] = "gone"

\* What a request has read is still there when no deletion has overtaken it.
StillThere(k) ==
  /\ k.at \in {"evidence", "sources", "history", "render", "paying", "storing"} =>
       k.want \subseteq evidence
  /\ k.at \in {"sources", "history", "render"} => k.have = k.want
  /\ k.at = "render" => k.want \subseteq k.sources
  /\ k.answer = "error" => k.run = 0 /\ \A d \in k.want : k.model \in Stored(d)

CallFits(k) ==
  /\ k.at # "done" => k.answer = ""
  /\ k.at \in {"patching", "reading"} => sales # NoOpportunity
  /\ k.at = "patching" => k.patch \in Patches
  /\ k.at \in {"paying", "storing"} => k.run = 0 /\ \E d \in Docs : k.want = {d}
  /\ k.answer = "unscored" => \E r \in Runs : runs[r] = "gone"
  /\ ~k.overtaken => StillThere(k)

ApiInv == ApiTypes /\ TablesInv /\ \A c \in Clients : CallFits(calls[c])

\* What is committed only grows, but for a deletion.
Grows ==
  /\ evidence \subseteq evidence'
  /\ translations \subseteq translations'
  /\ sales # NoOpportunity => sales' # NoOpportunity
  /\ \A r \in Runs : runs[r] = "gone" => runs'[r] = "gone"

\* A request that takes a step, and the others beside it.
LEMMA OneCall ==
  ASSUME calls \in [Clients -> CallRecords], \A d \in Clients : CallFits(calls[d]), Grows,
         NEW c \in Clients, NEW k \in CallRecords, Becomes(c, k), CallFits(k)'
  PROVE  /\ calls' \in [Clients -> CallRecords]
         /\ \A d \in Clients : CallFits(calls[d])'
<1>1. calls' = [calls EXCEPT ![c] = k]
  BY DEF Becomes
<1>2. calls' \in [Clients -> CallRecords]
  BY <1>1
<1>3. ASSUME NEW d \in Clients PROVE CallFits(calls[d])'
  <2>1. CASE d = c
    <3>1. calls'[d] = k
      BY <1>1, <2>1
    <3>2. QED BY <3>1 DEF CallFits, StillThere, Stored
  <2>2. CASE d # c
    <3>1. calls'[d] = calls[d]
      BY <1>1, <2>2
    <3>2. CallFits(calls[d])
      OBVIOUS
    <3>3. \A e : Stored(e) \subseteq Stored(e)'
      BY DEF Stored, Grows
    <3>4. StillThere(calls[d]) => StillThere(calls[d])'
      BY <3>1, <3>3 DEF StillThere, Grows
    <3>5. QED BY <3>1, <3>2, <3>4 DEF CallFits, Grows
  <2>3. QED BY <2>1, <2>2
<1>4. QED BY <1>2, <1>3

\* A request that only reads.
LEMMA ReadStep ==
  ASSUME ApiInv, OnlyCalls, NEW c \in Clients, NEW k \in CallRecords, Becomes(c, k), CallFits(k)
  PROVE  ApiInv'
<1>1. Grows
  BY DEF OnlyCalls, Grows
<1>2. CallFits(k)'
  BY DEF OnlyCalls, CallFits, StillThere, Stored
<1>3. /\ calls' \in [Clients -> CallRecords]
      /\ \A d \in Clients : CallFits(calls[d])'
  BY <1>1, <1>2, OneCall DEF ApiInv, ApiTypes
<1>4. ApiTypes'
  BY <1>3 DEF ApiInv, ApiTypes, OnlyCalls
<1>5. TablesInv'
  BY DEF ApiInv, TablesInv, OnlyCalls
<1>6. QED BY <1>3, <1>4, <1>5 DEF ApiInv

LEMMA CallType == Call \in CallRecords
  BY DEF Call, CallRecords, Models

LEMMA DetailSteps ==
  ASSUME ApiInv, NEW c \in Clients,
         \/ ReadRuns(c) \/ ReadAssessments(c) \/ ReadEvidence(c)
         \/ ReadSources(c) \/ ReadHistoricalSources(c) \/ Render(c)
  PROVE  ApiInv'
<1> calls[c] \in CallRecords /\ CallFits(calls[c])
  BY DEF ApiInv, ApiTypes
<1>1. ASSUME NEW r \in {0} \union Runs, Becomes(c, [Call EXCEPT !.at = "assessments", !.run = r]),
             OnlyCalls
      PROVE  ApiInv'
  <2> DEFINE k == [Call EXCEPT !.at = "assessments", !.run = r]
  <2>1. k \in CallRecords
    BY CallType DEF CallRecords
  <2>2. CallFits(k)
    BY DEF CallFits, StillThere, Call
  <2>3. QED BY <1>1, <2>1, <2>2, ReadStep
<1>2. CASE ReadAssessments(c)
  <2> DEFINE k == [calls[c] EXCEPT !.at = "evidence",
                     !.want = IF calls[c].run = 0 THEN {} ELSE cited[calls[c].run]]
  <2>1. k.want \subseteq evidence /\ k.want \subseteq Docs
    BY DEF ApiInv, ApiTypes, TablesInv, CallRecords
  <2>2. k \in CallRecords
    BY <2>1 DEF CallRecords
  <2>3. CallFits(k)
    BY <1>2, <2>1 DEF ReadAssessments, CallFits, StillThere, CallRecords
  <2>4. QED BY <1>2, <2>2, <2>3, ReadStep DEF ReadAssessments
<1>3. CASE ReadEvidence(c)
  <2> DEFINE k == [calls[c] EXCEPT !.at = "sources", !.have = calls[c].want \intersect evidence]
  <2>1. k \in CallRecords
    BY DEF CallRecords
  <2>2. CallFits(k)
    BY <1>3 DEF ReadEvidence, CallFits, StillThere, CallRecords
  <2>3. QED BY <1>3, <2>1, <2>2, ReadStep DEF ReadEvidence
<1>4. CASE ReadSources(c)
  <2> DEFINE own == {d \in Docs : sourceRun[d] # 0 /\ sourceRun[d] = calls[c].run}
             k == [calls[c] EXCEPT !.at = IF calls[c].have \subseteq own THEN "render" ELSE "history",
                                   !.sources = own]
  <2>1. k \in CallRecords
    BY DEF CallRecords
  <2>2. CallFits(k)
    BY <1>4 DEF ReadSources, CallFits, StillThere, CallRecords
  <2>3. QED BY <1>4, <2>1, <2>2, ReadStep DEF ReadSources
<1>5. CASE ReadHistoricalSources(c)
  <2> DEFINE k == [calls[c] EXCEPT !.at = "render",
                     !.sources = @ \union {d \in calls[c].have : sourceRun[d] # 0}]
  <2>1. k \in CallRecords
    BY DEF CallRecords
  <2>2. \A d \in evidence : sourceRun[d] # 0
    BY DEF ApiInv, TablesInv
  <2>3. CallFits(k)
    BY <1>5, <2>2 DEF ReadHistoricalSources, CallFits, StillThere, CallRecords
  <2>4. QED BY <1>5, <2>1, <2>3, ReadStep DEF ReadHistoricalSources
<1>6. CASE Render(c)
  <2> DEFINE a == IF calls[c].want \subseteq calls[c].have \intersect calls[c].sources
                  THEN "ok" ELSE "error"
             k == [calls[c] EXCEPT !.at = "done", !.answer = a]
  <2>1. k \in CallRecords
    BY DEF CallRecords
  <2>2. CallFits(k)
    BY <1>6 DEF Render, CallFits, StillThere, CallRecords
  <2>3. QED BY <1>6, <2>1, <2>2, ReadStep DEF Render, Answer
<1>7. QED BY <1>1, <1>2, <1>3, <1>4, <1>5, <1>6 DEF ReadRuns

LEMMA SalesReads ==
  ASSUME ApiInv, NEW c \in Clients,
         (\E patch \in Patches : LoadOpportunity(c, patch)) \/ ReadOpportunity(c)
  PROVE  ApiInv'
<1> calls[c] \in CallRecords /\ CallFits(calls[c])
  BY DEF ApiInv, ApiTypes
<1>1. ASSUME NEW patch \in Patches, LoadOpportunity(c, patch) PROVE ApiInv'
  <2>1. CASE sales = NoOpportunity
    <3> DEFINE k == [Call EXCEPT !.at = "done", !.answer = "not found"]
    <3>1. k \in CallRecords
      BY CallType DEF CallRecords
    <3>2. CallFits(k)
      BY DEF CallFits, StillThere, Call
    <3>3. QED BY <1>1, <2>1, <3>1, <3>2, ReadStep DEF LoadOpportunity
  <2>2. CASE sales # NoOpportunity
    <3> DEFINE k == [Call EXCEPT !.at = "patching", !.patch = patch, !.loaded = sales]
    <3>1. k \in CallRecords
      BY CallType DEF CallRecords, ApiInv, ApiTypes
    <3>2. CallFits(k)
      BY <2>2 DEF CallFits, StillThere, Call
    <3>3. QED BY <1>1, <2>2, <3>1, <3>2, ReadStep DEF LoadOpportunity
  <2>3. QED BY <2>1, <2>2
<1>2. CASE ReadOpportunity(c)
  <2> DEFINE k == [calls[c] EXCEPT !.at = "done", !.answer = IF latest # 0 THEN "ok" ELSE "unscored"]
  <2>1. k \in CallRecords
    BY DEF CallRecords
  <2>2. latest # 0 \/ \E r \in Runs : runs[r] = "gone"
    BY <1>2 DEF ReadOpportunity, ApiInv, TablesInv, CallFits
  <2>3. CallFits(k)
    BY <1>2, <2>2 DEF ReadOpportunity, CallFits, StillThere, CallRecords
  <2>4. QED BY <1>2, <2>1, <2>3, ReadStep DEF ReadOpportunity, Answer
<1>3. QED BY <1>1, <1>2

LEMMA TranslationReads ==
  ASSUME ApiInv, NEW c \in Clients,
         (\E d \in Docs : LookUpTranslation(c, d)) \/ ProviderAnswers(c)
  PROVE  ApiInv'
<1> calls[c] \in CallRecords /\ CallFits(calls[c])
  BY DEF ApiInv, ApiTypes
<1>1. ASSUME NEW d \in Docs, LookUpTranslation(c, d) PROVE ApiInv'
  <2> DEFINE call == [Call EXCEPT !.want = {d}, !.known = Stored(d)]
             end(a) == [call EXCEPT !.at = "done", !.answer = a]
             pay == [call EXCEPT !.at = "paying"]
  <2>1. call \in CallRecords
    BY CallType DEF CallRecords, Stored
  <2>2. /\ call.want = {d} /\ call.run = 0 /\ call.answer = "" /\ call.at = "idle"
    BY DEF Call
  <2> HIDE DEF call
  <2>3. CASE d \notin evidence
    <3>1. end("not found") \in CallRecords
      BY <2>1 DEF CallRecords
    <3>2. CallFits(end("not found"))
      BY <2>1, <2>2 DEF CallFits, StillThere, CallRecords
    <3>3. Model \notin Stored(d)
      BY <2>3 DEF ApiInv, TablesInv, Stored
    <3>5. Becomes(c, end("not found")) /\ OnlyCalls
      BY <1>1, <2>3, <3>3 DEF LookUpTranslation, call
    <3>4. QED BY <3>1, <3>2, <3>5, ReadStep
  <2>4. CASE d \in evidence /\ Model \in Stored(d)
    <3>1. end("cached") \in CallRecords
      BY <2>1 DEF CallRecords
    <3>2. CallFits(end("cached"))
      BY <2>1, <2>2 DEF CallFits, StillThere, CallRecords
    <3>3. Becomes(c, end("cached")) /\ OnlyCalls
      BY <1>1, <2>4 DEF LookUpTranslation, call
    <3>4. QED BY <3>1, <3>2, <3>3, ReadStep
  <2>5. CASE d \in evidence /\ Model \notin Stored(d)
    <3>1. pay \in CallRecords
      BY <2>1 DEF CallRecords
    <3>2. CallFits(pay)
      BY <2>1, <2>2, <2>5 DEF CallFits, StillThere, CallRecords
    <3>3. Becomes(c, pay) /\ OnlyCalls
      BY <1>1, <2>5 DEF LookUpTranslation, call
    <3>4. QED BY <3>1, <3>2, <3>3, ReadStep
  <2>6. QED BY <2>3, <2>4, <2>5
<1>2. ASSUME calls[c].at = "paying", OnlyCalls, Answer(c, "provider failed") PROVE ApiInv'
  <2> DEFINE k == [calls[c] EXCEPT !.at = "done", !.answer = "provider failed"]
  <2>1. k \in CallRecords
    BY DEF CallRecords
  <2>2. CallFits(k)
    BY <1>2 DEF CallFits, StillThere, CallRecords
  <2>3. QED BY <1>2, <2>1, <2>2, ReadStep DEF Answer
<1>3. ASSUME calls[c].at = "paying", OnlyCalls, NEW m \in ReportedBy,
             Becomes(c, [calls[c] EXCEPT !.at = "storing", !.model = m])
      PROVE  ApiInv'
  <2> DEFINE k == [calls[c] EXCEPT !.at = "storing", !.model = m]
  <2>1. k \in CallRecords
    BY DEF CallRecords, Models
  <2>2. CallFits(k)
    BY <1>3 DEF CallFits, StillThere, CallRecords
  <2>3. QED BY <1>3, <2>1, <2>2, ReadStep
<1>4. QED BY <1>1, <1>2, <1>3 DEF ProviderAnswers

LEMMA StoreStep ==
  ASSUME ApiInv, NEW c \in Clients, StoreTranslation(c)
  PROVE  ApiInv'
<1> DEFINE m == calls[c].model
           end(a) == [calls[c] EXCEPT !.at = "done", !.answer = a]
<1>0. calls[c] \in CallRecords /\ CallFits(calls[c])
  BY DEF ApiInv, ApiTypes
<1>1. PICK d \in calls[c].want :
        /\ calls[c].at = "storing"
        /\ IF d \in evidence /\ m \notin Stored(d)
           THEN translations' = translations \union {<<d, m>>} /\ Answer(c, "ok")
           ELSE Answer(c, "error") /\ UNCHANGED translations
        /\ UNCHANGED <<runs, sourceRun, evidence, cited, latest, sales>>
  BY DEF StoreTranslation
<1>2. d \in Docs /\ m \in Models /\ calls[c].want = {d} /\ calls[c].run = 0
  BY <1>0, <1>1 DEF CallRecords, CallFits
<1>3. Grows
  BY <1>1 DEF Grows
<1>4. CASE d \in evidence /\ m \notin Stored(d)
  <2>0. PICK k : k = end("ok")
    OBVIOUS
  <2>1. k \in CallRecords /\ k.at = "done" /\ k.answer = "ok"
    BY <1>0, <2>0 DEF CallRecords
  <2>2. CallFits(k)'
    BY <2>1 DEF CallFits, StillThere
  <2>3. Becomes(c, k)
    BY <1>1, <1>4, <2>0 DEF Answer
  <2>4. /\ calls' \in [Clients -> CallRecords]
        /\ \A e \in Clients : CallFits(calls[e])'
    BY <1>3, <2>1, <2>2, <2>3, OneCall DEF ApiInv, ApiTypes
  <2>5. ApiTypes'
    BY <1>1, <1>2, <1>4, <2>4 DEF ApiInv, ApiTypes
  <2>6. TablesInv'
    BY <1>1, <1>4 DEF ApiInv, TablesInv
  <2>7. QED BY <2>4, <2>5, <2>6 DEF ApiInv
<1>5. CASE ~(d \in evidence /\ m \notin Stored(d))
  <2>1. end("error") \in CallRecords
    BY <1>0 DEF CallRecords
  <2>2. ~calls[c].overtaken => d \in evidence /\ m \in Stored(d)
    BY <1>0, <1>1, <1>2, <1>5 DEF CallFits, StillThere
  <2>3. CallFits(end("error"))
    BY <1>0, <1>1, <1>2, <2>2 DEF CallRecords, CallFits, StillThere
  <2>4. Becomes(c, end("error")) /\ OnlyCalls
    BY <1>1, <1>5 DEF Answer, OnlyCalls
  <2>5. QED BY <2>1, <2>3, <2>4, ReadStep
<1>6. QED BY <1>4, <1>5

\* A request being committed writes values a caller may supply.
LEMMA WrittenRow ==
  ASSUME ApiInv, NEW c \in Clients, calls[c].at = "patching"
  PROVE  sales \in SaleRow /\ WriteColumns(c) \in SaleRow
<1>1. sales \in SaleRow /\ calls[c].patch \in Patches
  BY DEF ApiInv, ApiTypes, CallFits
<1>2. \A f \in Supplied(c) : calls[c].patch[f] \in Columns[f]
  <2> DEFINE patch == calls[c].patch
  <2>1. CASE patch \in {[status |-> s] : s \in Columns.status}
    <3>1. PICK s \in Columns.status : patch = [status |-> s]
      BY <2>1
    <3>2. QED BY <3>1 DEF Supplied
  <2>2. CASE patch \in {[note |-> n] : n \in Columns.note}
    <3>1. PICK n \in Columns.note : patch = [note |-> n]
      BY <2>2
    <3>2. QED BY <3>1 DEF Supplied
  <2>3. CASE patch \in [status : Columns.status, note : Columns.note]
    BY <2>3 DEF Supplied
  <2>4. QED BY <1>1, <2>1, <2>2, <2>3 DEF Patches
<1>3. DOMAIN sales = {"status", "note"} /\ sales.status \in Columns.status
      /\ sales.note \in Columns.note
  BY <1>1 DEF SaleRow
<1>4. WriteColumns(c) = [status |-> WriteColumns(c).status, note |-> WriteColumns(c).note]
  BY <1>3 DEF WriteColumns
<1>5. WriteColumns(c).status \in Columns.status /\ WriteColumns(c).note \in Columns.note
  BY <1>2, <1>3 DEF WriteColumns, Columns
<1>6. QED BY <1>1, <1>4, <1>5 DEF SaleRow

LEMMA NoRow == NoOpportunity \notin SaleRow
  BY DEF NoOpportunity, SaleRow, Columns

LEMMA CommitStep ==
  ASSUME ApiInv, NEW c \in Clients, CommitPatch(c)
  PROVE  ApiInv'
<1>0. calls[c] \in CallRecords /\ CallFits(calls[c])
  BY DEF ApiInv, ApiTypes
<1>9. PICK k : k = [calls[c] EXCEPT !.at = "reading"]
  OBVIOUS
<1>1. sales \in SaleRow /\ sales' \in SaleRow /\ sales # NoOpportunity /\ sales' # NoOpportunity
  BY WrittenRow, NoRow DEF CommitPatch
<1>2. Grows
  BY <1>1 DEF CommitPatch, Grows
<1>3. k \in CallRecords /\ k.at = "reading" /\ k.answer = ""
  BY <1>0, <1>9 DEF CallRecords, CallFits, CommitPatch
<1>4. CallFits(k)'
  BY <1>1, <1>3 DEF CallFits, StillThere
<1>5. /\ calls' \in [Clients -> CallRecords]
      /\ \A d \in Clients : CallFits(calls[d])'
  BY <1>2, <1>3, <1>4, <1>9, OneCall DEF ApiInv, ApiTypes, CommitPatch
<1>6. ApiTypes'
  BY <1>1, <1>5 DEF ApiInv, ApiTypes, CommitPatch
<1>7. TablesInv'
  BY <1>1 DEF ApiInv, TablesInv, CommitPatch
<1>8. QED BY <1>5, <1>6, <1>7 DEF ApiInv

\* Requests while the pipeline commits.
LEMMA CallsBeside ==
  ASSUME ApiInv, Grows, UNCHANGED calls
  PROVE  \A d \in Clients : CallFits(calls[d])'
<1> SUFFICES ASSUME NEW d \in Clients PROVE CallFits(calls[d])'
  OBVIOUS
<1>1. CallFits(calls[d])
  BY DEF ApiInv
<1>2. \A e : Stored(e) \subseteq Stored(e)'
  BY DEF Stored, Grows
<1>3. StillThere(calls[d]) => StillThere(calls[d])'
  BY <1>2 DEF StillThere, Grows
<1>4. QED BY <1>1, <1>3 DEF CallFits, Grows

LEMMA PipelineSteps ==
  ASSUME ApiInv, NEW r \in Runs, NEW docs \in SUBSET Docs,
         QueueRun(r) \/ Collected(r, docs) \/ Assessed(r, docs)
  PROVE  ApiInv'
<1>0. r # 0
  BY LastRunAssumption DEF Runs
<1>1. CASE QueueRun(r)
  <2>1. Grows
    BY <1>1 DEF QueueRun, Grows, ApiInv, ApiTypes
  <2>2. \A d \in Clients : CallFits(calls[d])'
    BY <1>1, <2>1, CallsBeside DEF QueueRun
  <2>3. ApiTypes'
    BY <1>1 DEF QueueRun, ApiInv, ApiTypes
  <2>4. TablesInv'
    BY <1>1, <2>1 DEF QueueRun, ApiInv, TablesInv, Grows
  <2>5. QED BY <2>2, <2>3, <2>4 DEF ApiInv
<1>2. CASE Collected(r, docs)
  <2>1. Grows
    BY <1>2 DEF Collected, Grows
  <2>2. \A d \in Clients : CallFits(calls[d])'
    BY <1>2, <2>1, CallsBeside DEF Collected
  <2>3. ApiTypes'
    BY <1>2 DEF Collected, ApiInv, ApiTypes
  <2>4. TablesInv'
    BY <1>0, <1>2 DEF Collected, ApiInv, ApiTypes, TablesInv
  <2>5. QED BY <2>2, <2>3, <2>4 DEF ApiInv
<1>3. CASE Assessed(r, docs)
  <2>1. sales' \in SaleRow /\ sales' # NoOpportunity
    <3>1. [status |-> "new", note |-> ""] \in SaleRow
      BY DEF SaleRow, Columns
    <3>2. sales' = OpportunityKept /\ sales \in SaleRow \union {NoOpportunity}
      BY <1>3 DEF Assessed, ApiInv, ApiTypes
    <3>3. QED BY <3>1, <3>2, NoRow DEF OpportunityKept
  <2>2. Grows
    BY <1>3, <2>1 DEF Assessed, Grows
  <2>3. \A d \in Clients : CallFits(calls[d])'
    BY <1>3, <2>2, CallsBeside DEF Assessed
  <2>4. ApiTypes'
    BY <1>3, <2>1 DEF Assessed, ApiInv, ApiTypes
  <2>5. \A q \in Runs : cited'[q] \subseteq evidence'
    BY <1>3 DEF Assessed, ApiInv, ApiTypes, TablesInv
  <2>6. TablesInv'
    BY <1>0, <1>3, <2>5 DEF Assessed, ApiInv, TablesInv
  <2>7. QED BY <2>3, <2>4, <2>6 DEF ApiInv
<1>4. QED BY <1>1, <1>2, <1>3

\* A deletion overtakes every request that has begun.
LEMMA DeleteStep ==
  ASSUME ApiInv, DeleteAll
  PROVE  ApiInv'
<1>1. \A c \in Clients :
        calls'[c] = [calls[c] EXCEPT !.overtaken = calls[c].overtaken \/ calls[c].at # "idle"]
  BY DEF DeleteAll
<1>2. calls' \in [Clients -> CallRecords]
  <2>1. \A c \in Clients : calls[c] \in CallRecords
    BY DEF ApiInv, ApiTypes
  <2>2. ASSUME NEW c \in Clients PROVE calls'[c] \in CallRecords
    <3> DEFINE b == calls[c].overtaken \/ calls[c].at # "idle"
    <3>1. b \in BOOLEAN
      OBVIOUS
    <3>2. calls'[c] = [calls[c] EXCEPT !.overtaken = b]
      BY <1>1
    <3> HIDE DEF b
    <3>3. QED BY <2>1, <3>1, <3>2 DEF CallRecords
  <2>3. QED BY <2>2 DEF DeleteAll
<1>3. \E r \in Runs : runs'[r] = "gone"
  BY DEF DeleteAll
<1>4. ASSUME NEW c \in Clients PROVE CallFits(calls[c])'
  <2>1. calls[c] \in CallRecords /\ CallFits(calls[c])
    BY DEF ApiInv, ApiTypes
  <2>2. calls'[c].at = calls[c].at /\ calls'[c].want = calls[c].want
        /\ calls'[c].run = calls[c].run /\ calls'[c].answer = calls[c].answer
        /\ calls'[c].patch = calls[c].patch
        /\ calls'[c].overtaken = (calls[c].overtaken \/ calls[c].at # "idle")
    BY <1>1, <2>1 DEF CallRecords
  <2>3. ~calls'[c].overtaken => StillThere(calls[c])'
    BY <2>1, <2>2 DEF StillThere, CallFits
  <2>4. QED BY <1>3, <2>1, <2>2, <2>3 DEF CallFits, DeleteAll
<1>5. ApiTypes'
  BY <1>2 DEF DeleteAll, ApiInv, ApiTypes
<1>6. TablesInv'
  BY <1>3 DEF DeleteAll, TablesInv
<1>7. QED BY <1>2, <1>4, <1>5, <1>6 DEF ApiInv

\* The strengthened invariant of the results API.
THEOREM ApiInvariant == ApiSpec => []ApiInv
<1>1. ApiInit => ApiInv
  <2> SUFFICES ASSUME ApiInit PROVE ApiInv
    OBVIOUS
  <2>1. ApiTypes
    BY CallType DEF ApiInit, ApiTypes
  <2>2. TablesInv
    BY DEF ApiInit, TablesInv
  <2>3. CallFits(Call)
    BY DEF CallFits, StillThere, Call
  <2>4. QED BY <2>1, <2>2, <2>3 DEF ApiInit, ApiInv
<1>2. ApiInv /\ [ApiNext]_apiVars => ApiInv'
  <2> SUFFICES ASSUME ApiInv, [ApiNext]_apiVars PROVE ApiInv'
    OBVIOUS
  <2>1. CASE UNCHANGED apiVars
    <3>1. Grows
      BY <2>1 DEF apiVars, Grows
    <3>2. \A d \in Clients : CallFits(calls[d])'
      BY <2>1, <3>1, CallsBeside DEF apiVars
    <3>3. ApiTypes' /\ TablesInv'
      BY <2>1 DEF apiVars, ApiInv, ApiTypes, TablesInv
    <3>4. QED BY <3>2, <3>3 DEF ApiInv
  <2>2. ASSUME NEW c \in Clients, Serve(c) PROVE ApiInv'
    BY <2>2, DetailSteps, SalesReads, TranslationReads, StoreStep, CommitStep DEF Serve
  <2>3. ASSUME NEW r \in Runs, QueueRun(r) PROVE ApiInv'
    <3>1. {} \in SUBSET Docs
      OBVIOUS
    <3>2. QED BY <2>3, <3>1, PipelineSteps
  <2>4. QED BY <2>1, <2>2, <2>3, PipelineSteps, DeleteStep DEF ApiNext
<1>3. QED BY <1>1, <1>2, PTL DEF ApiSpec

\* api/results.py, for any number of runs, documents and requests: the company page fails
\* only when a deletion has overtaken it, and a committed sales change goes unanswered
\* only after research was deleted.
THEOREM DetailFailures == ApiSpec => []DetailFailsOnlyWithDeletion
<1>1. ApiInv => DetailFailsOnlyWithDeletion
  BY DEF ApiInv, CallFits, StillThere, DetailFailsOnlyWithDeletion
<1>2. QED BY <1>1, ApiInvariant, PTL

\* api/results.py: a translation belongs to stored evidence, and one that was paid for is
\* refused only to another stored one or after a deletion.
THEOREM TranslationsAreKept == ApiSpec => []TranslationsResolve
<1>1. ApiInv => TranslationsResolve
  BY DEF ApiInv, TablesInv, CallFits, StillThere, TranslationsResolve
<1>2. QED BY <1>1, ApiInvariant, PTL

\* api/results.py and pipeline.py: no assessment and no concurrent request changes what the
\* sales team entered; a column changes only to the value a request supplied for it.
THEOREM SalesAreKept == ApiSpec => SalesChangesAreAsked
<1> DEFINE Asked == \A f \in DOMAIN sales :
             sales'[f] # sales[f] /\ sales # NoOpportunity =>
               \E c \in Clients : /\ calls[c].at = "patching" /\ calls'[c].at = "reading"
                                  /\ f \in Supplied(c) /\ sales'[f] = calls[c].patch[f]
<1>1. ApiInv /\ [ApiNext]_apiVars => [Asked]_apiVars
  <2> SUFFICES ASSUME ApiInv, ApiNext, NEW f \in DOMAIN sales,
                      sales'[f] # sales[f], sales # NoOpportunity
               PROVE  \E c \in Clients : /\ calls[c].at = "patching" /\ calls'[c].at = "reading"
                                         /\ f \in Supplied(c) /\ sales'[f] = calls[c].patch[f]
    OBVIOUS
  <2>1. sales' # sales
    OBVIOUS
  <2>2. ~\E r \in Runs : QueueRun(r) \/ \E docs \in SUBSET Docs : Collected(r, docs)
    BY <2>1 DEF QueueRun, Collected
  <2>3. ~\E r \in Runs, docs \in SUBSET Docs : Assessed(r, docs)
    BY <2>1 DEF Assessed, OpportunityKept
  <2>4. ~DeleteAll
    BY <2>1 DEF DeleteAll
  <2>5. PICK c \in Clients : Serve(c)
    BY <2>2, <2>3, <2>4 DEF ApiNext
  <2>6. CommitPatch(c)
    BY <2>1, <2>5 DEF Serve, ReadRuns, ReadAssessments, ReadEvidence, ReadSources,
      ReadHistoricalSources, Render, LoadOpportunity, ReadOpportunity, LookUpTranslation,
      ProviderAnswers, StoreTranslation, OnlyCalls
  <2>7. /\ f \in Supplied(c) /\ sales'[f] = calls[c].patch[f]
        /\ calls[c].at = "patching"
    BY <2>6 DEF CommitPatch, WriteColumns
  <2>8. calls'[c].at = "reading"
    BY <2>6 DEF CommitPatch, Becomes, ApiInv, ApiTypes, CallRecords
  <2>9. QED BY <2>7, <2>8
<1>2. QED BY <1>1, ApiInvariant, PTL DEF ApiSpec, SalesChangesAreAsked

-----------------------------------------------------------------------------
(* Company discovery: the loops over Wikidata's rows, candidates and tables *)

Bindings == {Wikidata[i] : i \in DOMAIN Wikidata}
CompanyRows ==
  [entity : {b.entity : b \in Bindings}, domain : {b.domain : b \in Bindings},
   country : {b.country : b \in Bindings}, industry : {b.industry : b \in Bindings},
   employees : Nat \union {Unknown}]
Tables == {t \in SUBSET CompanyRows : IsFiniteSet(t)}
Fitting(q) == {c \in CompanyRows : LargeEnough(c.employees, q)}

\* Each instance is the library's fold with the operator of one loop.
MatchFold == INSTANCE Folding WITH Op <- OnServer, Last <- Max
FirstFold == INSTANCE Folding WITH Op <- TakeFirst, Last <- Max
GroupFold == INSTANCE Folding WITH Op <- InGroup, Last <- Max
StoreOf(nothing, tables, c) == StoreNext(tables, c)
StoreFold == INSTANCE Folding WITH Op <- StoreOf, Last <- Max

\* Max is the last of a set of positions, for each of the folds.
LEMMA LastPosition ==
  ASSUME NEW k \in Nat
  PROVE  MatchFold!IsLast(k) /\ FirstFold!IsLast(k) /\ GroupFold!IsLast(k) /\ StoreFold!IsLast(k)
  BY MatchFold!LastNatural
     DEF MatchFold!IsLast, FirstFold!IsLast, GroupFold!IsLast, StoreFold!IsLast, Max

\* The rows the server returns are rows of Wikidata.
LEMMA MatchingType == ASSUME NEW q PROVE Matching(q) \in Seq(Bindings)
<1>1. Len(Wikidata) \in Nat /\ DOMAIN Wikidata = 1..Len(Wikidata)
  BY CandidateAssumption
<1>2. Matching(q) = MatchFold!Folded(q, <<>>, Wikidata, Len(Wikidata))
  BY <1>1 DEF Matching, FoldLeft, MapThenFoldSet, MatchFold!Folded, MatchFold!Iterates
<1>3. \A i \in 1..Len(Wikidata), v \in Seq(Bindings) : OnServer(q, v, Wikidata[i]) \in Seq(Bindings)
  BY <1>1 DEF OnServer, Bindings
<1>4. MatchFold!IsLast(Len(Wikidata))
  BY <1>1, LastPosition
<1>5. <<>> \in Seq(Bindings)
  OBVIOUS
<1> HIDE DEF Bindings
<1>6. MatchFold!Folded(q, <<>>, Wikidata, Len(Wikidata)) \in Seq(Bindings)
  BY <1>1, <1>3, <1>4, <1>5, MatchFold!FoldPreserves
<1> QED BY <1>2, <1>6

\* A beginning, and a page, of a sequence.
LEMMA FirstOfType ==
  ASSUME NEW S, NEW s \in Seq(S), NEW n \in Nat
  PROVE  FirstOf(s, n) \in Seq(S)
  BY DEF FirstOf

LEMMA ServerRowsType ==
  ASSUME NEW q, NEW limit \in Nat, NEW offset \in Nat
  PROVE  ServerRows(q, limit, offset) \in Seq(Bindings)
<1> DEFINE s == Matching(q)
<1>1. s \in Seq(Bindings)
  BY MatchingType
<1> HIDE DEF s, Bindings
<1>2. SubSeq(s, offset + 1, Len(s)) \in Seq(Bindings)
  <2>1. Len(s) \in Nat /\ \A i \in 1..Len(s) : s[i] \in Bindings
    BY <1>1
  <2> QED BY <2>1
<1> QED BY <1>2, FirstOfType DEF ServerRows, s

\* The candidates of a page are large enough.
LEMMA DeduplicatedType ==
  ASSUME NEW q, q.minimum \in Nat, NEW rows \in Seq(Bindings)
  PROVE  Deduplicated(rows, q) \in Seq(Fitting(q))
<1> DEFINE k == Len(rows)
<1>1. k \in Nat /\ DOMAIN rows = 1..k /\ \A i \in 1..k : rows[i] \in Bindings
  OBVIOUS
<1>2. Deduplicated(rows, q) = FirstFold!Folded(q, <<>>, rows, k)
  BY <1>1 DEF Deduplicated, FoldLeft, MapThenFoldSet, FirstFold!Folded, FirstFold!Iterates
<1>3. ASSUME NEW b \in Bindings, NEW seen \in Seq(Fitting(q))
      PROVE  TakeFirst(q, seen, b) \in Seq(Fitting(q))
  <2>1. PlausibleCount(b) \in Nat \union {Unknown}
    BY CandidateAssumption DEF Bindings, PlausibleCount
  <2>2. Acceptable(b, q) => Candidate(b) \in Fitting(q)
    BY <2>1 DEF Acceptable, Candidate, Fitting, CompanyRows
  <2> QED BY <2>2 DEF TakeFirst
<1>4. FirstFold!IsLast(k)
  BY <1>1, LastPosition
<1>5. <<>> \in Seq(Fitting(q))
  OBVIOUS
<1>6. \A i \in 1..k, v \in Seq(Fitting(q)) : TakeFirst(q, v, rows[i]) \in Seq(Fitting(q))
  BY <1>1, <1>3
<1> HIDE DEF k
<1>7. FirstFold!Folded(q, <<>>, rows, k) \in Seq(Fitting(q))
  BY <1>1, <1>4, <1>5, <1>6, FirstFold!FoldPreserves
<1> QED BY <1>2, <1>7

\* Preferred industries first: the same elements in another order.
LEMMA PreferredType ==
  ASSUME NEW S, NEW s \in Seq(S), NEW industries
  PROVE  Preferred(s, industries) \in Seq(S)
<1> DEFINE k == Len(s)
<1>1. k \in Nat /\ DOMAIN s = 1..k /\ \A i \in 1..k : s[i] \in S
  OBVIOUS
<1>2. ASSUME NEW group PROVE Group(s, group) \in Seq(S)
  <2>1. Group(s, group) = GroupFold!Folded(group, <<>>, s, k)
    BY <1>1 DEF Group, FoldLeft, MapThenFoldSet, GroupFold!Folded, GroupFold!Iterates
  <2>2. GroupFold!IsLast(k)
    BY <1>1, LastPosition
  <2>3. <<>> \in Seq(S)
    OBVIOUS
  <2>4. \A i \in 1..k, v \in Seq(S) : InGroup(group, v, s[i]) \in Seq(S)
    BY <1>1 DEF InGroup
  <2> HIDE DEF k
  <2>5. GroupFold!Folded(group, <<>>, s, k) \in Seq(S)
    BY <1>1, <2>2, <2>3, <2>4, GroupFold!FoldPreserves
  <2> QED BY <2>1, <2>5
<1> QED BY <1>2 DEF Preferred

LEMMA PageType ==
  ASSUME NEW q, q.minimum \in Nat, NEW limit \in Nat, NEW rows \in Seq(Bindings)
  PROVE  WikidataPage(q, limit, rows) \in Seq(Fitting(q))
  BY DeduplicatedType, PreferredType, FirstOfType DEF WikidataPage

\* store_candidates leaves one of finitely many tables, each with finitely many rows.
LEMMA UpsertedType ==
  ASSUME NEW rows \in Tables, NEW candidates \in Seq(CompanyRows)
  PROVE  Upserted(rows, candidates) \in SUBSET Tables
<1> DEFINE k == Len(candidates)
<1>1. k \in Nat /\ DOMAIN candidates = 1..k /\ \A i \in 1..k : candidates[i] \in CompanyRows
  OBVIOUS
<1>2. Upserted(rows, candidates) = StoreFold!Folded(0, {rows}, candidates, k)
  BY <1>1 DEF Upserted, FoldLeft, MapThenFoldSet, StoreFold!Folded, StoreFold!Iterates, StoreOf
<1>3. ASSUME NEW c \in CompanyRows, NEW table \in Tables
      PROVE  StoredInto(table, c) \subseteq Tables
  <2>1. table \subseteq CompanyRows /\ IsFiniteSet(table)
    BY DEF Tables
  <2>2. table \union {c} \in Tables
    BY <2>1, FS_AddElement DEF Tables
  <2>3. ASSUME NEW row \in table
        PROVE (table \ {row}) \union {[c EXCEPT !.entity = row.entity, !.domain = row.domain]} \in Tables
    <3> DEFINE new == [c EXCEPT !.entity = row.entity, !.domain = row.domain]
    <3>1. new \in CompanyRows
      BY <2>1 DEF CompanyRows
    <3> HIDE DEF new
    <3>2. IsFiniteSet((table \ {row}) \union {new})
      BY <2>1, FS_RemoveElement, FS_AddElement
    <3>3. (table \ {row}) \union {new} \in Tables
      BY <2>1, <3>1, <3>2 DEF Tables
    <3> QED BY <3>3 DEF new
  <2> QED BY <2>2, <2>3 DEF StoredInto
<1>4. \A i \in 1..k, v \in SUBSET Tables : StoreOf(0, v, candidates[i]) \in SUBSET Tables
  BY <1>1, <1>3 DEF StoreOf, StoreNext
<1>5. StoreFold!IsLast(k)
  BY <1>1, LastPosition
<1>6. {rows} \in SUBSET Tables
  OBVIOUS
<1> HIDE DEF k
<1>7. StoreFold!Folded(0, {rows}, candidates, k) \in SUBSET Tables
  BY <1>1, <1>4, <1>5, <1>6, StoreFold!FoldPreserves
<1> QED BY <1>2, <1>7

\* A finite table has an order by size.
LEMMA LargestFirstType ==
  ASSUME NEW table \in Tables
  PROVE  LargestFirst(table) \in [1..Cardinality(table) -> table]
<1> DEFINE size == [row \in table |-> -Size(row)]
<1>1. \A row \in table : Size(row) \in Int
  BY DEF Tables, CompanyRows, Size
<1>2. size \in [table -> Int] /\ \A row \in table : size[row] = -Size(row)
  BY <1>1
<1> HIDE DEF size
<1>3. PICK order : order \in MatchFold!Orders(Cardinality(table), table, size)
  <2>1. IsFiniteSet(table)
    BY DEF Tables
  <2>2. Cardinality(table) \in Nat /\ \E f : MatchFold!Lists(f, Cardinality(table), table)
    BY <2>1, FS_CardinalityType
       DEF ExistsBijection, Bijection, Injection, Surjection, IsInjective, MatchFold!Lists
  <2> QED BY <1>2, <2>2, MatchFold!OrderExists
<1>4. order \in [1..Cardinality(table) -> table] /\ DOMAIN order = 1..Cardinality(table)
  BY <1>3 DEF MatchFold!Orders
<1>5. ASSUME NEW i \in DOMAIN order, NEW j \in DOMAIN order, i < j
      PROVE  Size(order[i]) >= Size(order[j]) /\ order[i] # order[j]
  <2>1. size[order[i]] <= size[order[j]] /\ order[i] # order[j]
    BY <1>3, <1>4, <1>5 DEF MatchFold!Orders
  <2>2. order[i] \in table /\ order[j] \in table
    BY <1>4
  <2>3. Size(order[i]) \in Int /\ Size(order[j]) \in Int
    BY <1>1, <2>2
  <2>4. -Size(order[i]) <= -Size(order[j])
    BY <1>2, <2>1, <2>2
  <2> QED BY <2>1, <2>3, <2>4
<1> QED
  BY <1>4, <1>5 DEF LargestFirst

LEMMA FromCatalogType ==
  ASSUME catalog \in Tables, NEW q, q.limit \in Nat
  PROVE  FromCatalog(q) \in Seq(Fitting(q))
<1> DEFINE rows == {row \in catalog : /\ q.countries = {} \/ row.country \in q.countries
                                      /\ LargeEnough(row.employees, q)}
           order == LargestFirst(rows)
<1>1. rows \in Tables /\ Cardinality(rows) \in Nat
  BY FS_Subset, FS_CardinalityType DEF Tables
<1>2. \A row \in rows : row \in Fitting(q)
  BY DEF Tables, Fitting
<1>3. FromCatalog(q) = FirstOf(Preferred(order, Industries(q)), q.limit)
  BY DEF FromCatalog
<1> HIDE DEF rows
<1>4. order \in [1..Cardinality(rows) -> rows]
  BY <1>1, LargestFirstType
<1> HIDE DEF order
<1>5. order \in Seq(Fitting(q))
  BY <1>1, <1>2, <1>4
<1> QED BY <1>3, <1>5, PreferredType, FirstOfType

LEMMA FromWikidataType ==
  ASSUME NEW q, q.limit \in Nat, q.minimum \in Nat
  PROVE  FromWikidata(q) \in Seq(Fitting(q))
<1>1. 4 * q.limit \in Nat
  OBVIOUS
<1>2. ServerRows(q, 4 * q.limit, 0) \in Seq(Bindings)
  BY <1>1, ServerRowsType
<1> QED BY <1>2, PageType DEF FromWikidata

-----------------------------------------------------------------------------
(* Company discovery: the invariant *)

VisitRecords ==
  [at : {"idle", "provider", "save", "store", "answered", "unavailable", "error"}, asked : Nat,
   request : Requests \union {Unknown}, tries : 0..2, run : Nat, base : Tables, rows : Tables,
   candidates : Seq(CompanyRows)]

Qualified == [c : CompanyRows, is : {"out", "verify", "qualified"}]
RunRecords ==
  [request : Requests, at : Nat, confirmed : SUBSET Domains, candidates : Seq(Qualified)]

DiscoveryTypeOK ==
  /\ catalog \in Tables
  /\ discoveryRuns \in Seq(RunRecords)
  /\ companies \subseteq Domains
  /\ visits \in [Visitors -> VisitRecords]
  /\ sync \in [offset : Nat, counted : Int, at : {"page", "store", "end"}, rows : Tables,
               base : Tables]
  /\ minute \in Nat

\* A run an answered request can stand for: one of the request asked, and an old one only
\* when nothing else was left.
AnswerFits(k) ==
  /\ k.run \in DOMAIN discoveryRuns
  /\ discoveryRuns[k.run].request = k.request
  /\ discoveryRuns[k.run].at < k.asked - Recent => k.tries = 2 /\ k.candidates = <<>>

\* What a request has found fits what it asked for.
VisitFits(k) ==
  /\ k.at # "idle" => k.request \in Requests
  /\ k.asked <= minute
  /\ k.candidates \in Seq(Fitting(k.request))
  /\ k.at = "answered" => AnswerFits(k)

\* A candidate keeps the verdict of its request, and is confirmed only within it.
RunFits(run) ==
  \A k \in DOMAIN run.candidates :
    LET found == run.candidates[k] IN
    /\ found.c \in Fitting(run.request)
    /\ found.is = Qualification(found.c, run.request)
    /\ found.c.domain \in run.confirmed => found.is # "out" /\ found.c.domain \in companies

DiscoveryInv ==
  /\ DiscoveryTypeOK
  /\ \A v \in Visitors : VisitFits(visits[v])
  /\ \A i \in DOMAIN discoveryRuns : RunFits(discoveryRuns[i])

\* A request that takes a step and changes nothing else.
LEMMA VisitStep ==
  ASSUME DiscoveryInv, OnlyVisits, NEW v \in Visitors, NEW k \in VisitRecords, VisitFits(k),
         Visit(v, k)
  PROVE  DiscoveryInv'
<1>1. visits' \in [Visitors -> VisitRecords] /\ \A u \in Visitors : VisitFits(visits'[u])
  BY DEF DiscoveryInv, DiscoveryTypeOK, Visit
<1>2. DiscoveryTypeOK'
  BY <1>1 DEF DiscoveryInv, DiscoveryTypeOK, OnlyVisits
<1>3. \A u \in Visitors : VisitFits(visits[u])'
  BY <1>1 DEF VisitFits, AnswerFits, OnlyVisits
<1>4. \A i \in DOMAIN discoveryRuns' : RunFits(discoveryRuns[i])'
  BY DEF DiscoveryInv, RunFits, OnlyVisits
<1> QED BY <1>2, <1>3, <1>4 DEF DiscoveryInv

\* A request to come, as far as the type goes.
LEMMA NoVisitType == NoVisit \in VisitRecords
<1>1. {} \in Tables /\ <<>> \in Seq(CompanyRows)
  BY FS_EmptySet DEF Tables
<1> HIDE DEF Tables, CompanyRows
<1> QED BY <1>1 DEF NoVisit, VisitRecords

LEMMA RunPositions ==
  ASSUME DiscoveryInv
  PROVE  /\ DOMAIN discoveryRuns \subseteq Nat
         /\ \A i \in DOMAIN discoveryRuns : discoveryRuns[i] \in RunRecords
<1>1. discoveryRuns \in Seq(RunRecords)
  BY DEF DiscoveryInv, DiscoveryTypeOK
<1> QED BY <1>1

LEMMA AskStep ==
  ASSUME DiscoveryInv, NEW v \in Visitors, NEW q \in Requests, AskDiscovery(v, q)
  PROVE  DiscoveryInv'
<1> DEFINE local == FromCatalog(q)
           visit == [NoVisit EXCEPT !.asked = minute, !.request = q, !.candidates = local]
<1>1. local \in Seq(Fitting(q)) /\ local \in Seq(CompanyRows)
  <2>1. catalog \in Tables /\ q.limit \in Nat
    BY DiscoveryAssumption DEF DiscoveryInv, DiscoveryTypeOK
  <2>2. local \in Seq(Fitting(q))
    BY <2>1, FromCatalogType
  <2>3. Fitting(q) \subseteq CompanyRows
    BY DEF Fitting
  <2> HIDE DEF local, Fitting
  <2> QED BY <2>2, <2>3
<1>2. minute \in Nat
  BY DEF DiscoveryInv, DiscoveryTypeOK
<1>3. /\ visit \in VisitRecords /\ visit.asked = minute /\ visit.request = q
      /\ visit.candidates = local
  <2> HIDE DEF Tables, CompanyRows, local
  <2> QED BY <1>1, <1>2, NoVisitType DEF VisitRecords
<1>4. OnlyVisits
  BY DEF AskDiscovery
<1>5. ASSUME NEW k \in VisitRecords, Visit(v, k), k.asked = minute, k.request = q,
             k.candidates = local, k.at = "answered" => k.run \in LastOf(q, RecentRuns)
      PROVE  DiscoveryInv'
  <2>1. k.at = "answered" => AnswerFits(k)
    <3> SUFFICES ASSUME k.at = "answered" PROVE AnswerFits(k)
      OBVIOUS
    <3>1. k.run \in DOMAIN discoveryRuns /\ discoveryRuns[k.run].request = q
          /\ discoveryRuns[k.run].at >= minute - Recent
      BY <1>5 DEF LastOf, RecentRuns
    <3>2. discoveryRuns[k.run].at \in Nat
      BY <3>1, RunPositions DEF RunRecords
    <3>3. ~(discoveryRuns[k.run].at < minute - Recent)
      BY <1>2, <3>1, <3>2, DiscoveryAssumption
    <3> QED BY <1>5, <3>1, <3>3 DEF AnswerFits
  <2>2. VisitFits(k)
    BY <1>1, <1>2, <1>5, <2>1 DEF VisitFits
  <2> QED BY <1>4, <1>5, <2>2, VisitStep
<1> HIDE DEF local, visit
<1>6. CASE \E i \in LastOf(q, RecentRuns) : Visit(v, [visit EXCEPT !.at = "answered", !.run = i])
  <2>1. PICK i \in LastOf(q, RecentRuns) : Visit(v, [visit EXCEPT !.at = "answered", !.run = i])
    BY <1>6
  <2>2. i \in Nat
    BY RunPositions DEF LastOf, RecentRuns
  <2>3. PICK k : k = [visit EXCEPT !.at = "answered", !.run = i]
    OBVIOUS
  <2>4. k \in VisitRecords /\ k.asked = minute /\ k.request = q /\ k.candidates = local /\ k.run = i
    BY <1>3, <2>2, <2>3 DEF VisitRecords
  <2> QED BY <1>5, <2>1, <2>3, <2>4
<1>7. ASSUME NEW at \in {"save", "provider"}, Visit(v, [visit EXCEPT !.at = at])
      PROVE  DiscoveryInv'
  <2>1. PICK k : k = [visit EXCEPT !.at = at]
    OBVIOUS
  <2>2. k \in VisitRecords /\ k.asked = minute /\ k.request = q /\ k.candidates = local /\ k.at = at
    BY <1>3, <2>1 DEF VisitRecords
  <2> QED BY <1>5, <1>7, <2>1, <2>2
<1>8. \/ \E i \in LastOf(q, RecentRuns) : Visit(v, [visit EXCEPT !.at = "answered", !.run = i])
      \/ Visit(v, [visit EXCEPT !.at = "save"]) \/ Visit(v, [visit EXCEPT !.at = "provider"])
  BY DEF AskDiscovery, visit, local
<1> QED BY <1>6, <1>7, <1>8

LEMMA DiscoveredStep ==
  ASSUME DiscoveryInv, NEW v \in Visitors, Discovered(v)
  PROVE  DiscoveryInv'
<1> DEFINE q == visits[v].request
           candidates == FromWikidata(q)
<1>1. visits[v] \in VisitRecords /\ VisitFits(visits[v]) /\ q \in Requests
  BY DEF DiscoveryInv, DiscoveryTypeOK, Discovered, VisitFits
<1>2. candidates \in Seq(Fitting(q)) /\ candidates \in Seq(CompanyRows)
  <2>1. candidates \in Seq(Fitting(q))
    BY <1>1, DiscoveryAssumption, FromWikidataType
  <2>2. Fitting(q) \subseteq CompanyRows
    BY DEF Fitting
  <2> HIDE DEF candidates, Fitting
  <2> QED BY <2>1, <2>2
<1>3. PICK rows \in Upserted(catalog, candidates) :
        Visit(v, [visits[v] EXCEPT !.at = "store", !.candidates = candidates,
                                   !.base = catalog, !.rows = rows])
  BY DEF Discovered
<1>4. rows \in Tables /\ catalog \in Tables
  BY <1>2, UpsertedType DEF DiscoveryInv, DiscoveryTypeOK
<1> DEFINE k == [visits[v] EXCEPT !.at = "store", !.candidates = candidates,
                                  !.base = catalog, !.rows = rows]
<1> HIDE DEF candidates
<1>5. /\ k \in VisitRecords /\ k.at = "store" /\ k.candidates = candidates /\ k.request = q
      /\ k.asked = visits[v].asked
  <2> HIDE DEF Tables, CompanyRows
  <2> QED BY <1>1, <1>2, <1>4 DEF VisitRecords
<1>6. OnlyVisits /\ Visit(v, k)
  BY <1>3 DEF Discovered
<1> HIDE DEF k
<1>7. VisitFits(k)
  BY <1>1, <1>2, <1>5 DEF VisitFits
<1> QED BY <1>5, <1>6, <1>7, VisitStep

LEMMA ProviderFailsStep ==
  ASSUME DiscoveryInv, NEW v \in Visitors, ProviderFails(v)
  PROVE  DiscoveryInv'
<1> DEFINE old == visits[v]
           q == old.request
<1>1. old \in VisitRecords /\ VisitFits(old) /\ q \in Requests
  BY DEF DiscoveryInv, DiscoveryTypeOK, ProviderFails, VisitFits
<1>2. PICK at \in {"provider", "save", "answered", "unavailable"}, tries \in 1..2, run \in Nat :
        /\ Visit(v, [old EXCEPT !.tries = tries, !.at = at, !.run = run])
        /\ at = "answered" => /\ tries = 2 /\ old.candidates = <<>>
                              /\ run \in LastOf(q, DOMAIN discoveryRuns)
  <2>1. \A i \in LastOf(q, DOMAIN discoveryRuns) : i \in Nat
    BY RunPositions DEF LastOf
  <2>2. old.run \in Nat /\ old.at = "provider"
    BY <1>1 DEF VisitRecords, ProviderFails
  <2>3. CASE Visit(v, [old EXCEPT !.tries = 1])
    <3>1. [old EXCEPT !.tries = 1] = [old EXCEPT !.tries = 1, !.at = "provider", !.run = old.run]
      BY <1>1, <2>2 DEF VisitRecords
    <3>2. Visit(v, [old EXCEPT !.tries = 1, !.at = "provider", !.run = old.run])
      BY <2>3, <3>1
    <3>3. 1 \in 1..2
      OBVIOUS
    <3> HIDE DEF old
    <3> QED BY <2>2, <3>2, <3>3
  <2>4. ASSUME NEW at \in {"save", "unavailable"}, Visit(v, [old EXCEPT !.tries = 2, !.at = at])
        PROVE  Visit(v, [old EXCEPT !.tries = 2, !.at = at, !.run = old.run])
    <3>1. [old EXCEPT !.tries = 2, !.at = at] = [old EXCEPT !.tries = 2, !.at = at, !.run = old.run]
      BY <1>1 DEF VisitRecords
    <3> QED BY <2>4, <3>1
  <2>5. ASSUME NEW i \in LastOf(q, DOMAIN discoveryRuns), old.candidates = <<>>,
               Visit(v, [old EXCEPT !.tries = 2, !.at = "answered", !.run = i])
        PROVE  i \in Nat /\ 2 \in 1..2
    BY <2>1, <2>5
  <2>6. \/ Visit(v, [old EXCEPT !.tries = 1])
        \/ Visit(v, [old EXCEPT !.tries = 2, !.at = "save"])
        \/ Visit(v, [old EXCEPT !.tries = 2, !.at = "unavailable"])
        \/ /\ old.candidates = <<>>
           /\ \E i \in LastOf(q, DOMAIN discoveryRuns) :
                Visit(v, [old EXCEPT !.tries = 2, !.at = "answered", !.run = i])
    BY DEF ProviderFails
  <2>7. 1 \in 1..2 /\ 2 \in 1..2
    OBVIOUS
  <2> HIDE DEF old
  <2> QED BY <2>2, <2>3, <2>4, <2>5, <2>6, <2>7
<1>6. PICK k : k = [old EXCEPT !.tries = tries, !.at = at, !.run = run]
  OBVIOUS
<1>3. /\ k \in VisitRecords /\ k.at = at /\ k.tries = tries /\ k.run = run
      /\ k.request = q /\ k.asked = old.asked /\ k.candidates = old.candidates
  <2>1. tries \in 0..2
    OBVIOUS
  <2> HIDE DEF Tables, CompanyRows, old
  <2> QED BY <1>1, <1>6, <2>1 DEF VisitRecords
<1>4. OnlyVisits /\ Visit(v, k)
  BY <1>2, <1>6 DEF ProviderFails
<1>5. VisitFits(k)
  BY <1>1, <1>2, <1>3 DEF VisitFits, AnswerFits, LastOf
<1> QED BY <1>3, <1>4, <1>5, VisitStep

\* Writing a table on top of another leaves a table.
LEMMA MergedType ==
  ASSUME catalog \in Tables, NEW base, NEW rows \in Tables
  PROVE  Merged(base, rows) \in Tables
<1> DEFINE kept == {old \in catalog : \A row \in rows \ base : row.entity # old.entity}
<1>1. IsFiniteSet(rows \ base) /\ IsFiniteSet(kept)
  BY FS_Subset DEF Tables
<1> HIDE DEF kept
<1>2. IsFiniteSet((rows \ base) \union kept)
  BY <1>1, FS_Union
<1>3. kept \subseteq catalog
  BY DEF kept
<1> QED BY <1>2, <1>3 DEF Merged, Tables, kept

LEMMA QualificationType ==
  ASSUME NEW c, NEW q
  PROVE  Qualification(c, q) \in {"out", "verify", "qualified"}
  BY DEF Qualification

LEMMA RunOfType ==
  ASSUME DiscoveryInv, NEW v \in Visitors, visits[v].request \in Requests
  PROVE  /\ RunOf(v) \in RunRecords /\ RunFits(RunOf(v))
         /\ RunOf(v).request = visits[v].request /\ RunOf(v).at = minute
<1> DEFINE q == visits[v].request
           candidates == visits[v].candidates
           found == [i \in DOMAIN candidates |->
                       [c |-> candidates[i], is |-> Qualification(candidates[i], q)]]
<1>1. /\ candidates \in Seq(CompanyRows) /\ minute \in Nat
      /\ \A i \in DOMAIN candidates : candidates[i] \in Fitting(q) /\ candidates[i] \in CompanyRows
  <2>1. candidates \in Seq(Fitting(q)) /\ visits[v] \in VisitRecords /\ minute \in Nat
    BY DEF DiscoveryInv, DiscoveryTypeOK, VisitFits
  <2>2. candidates \in Seq(CompanyRows)
    BY <2>1 DEF VisitRecords
  <2> HIDE DEF candidates
  <2> QED BY <2>1, <2>2
<1>2. \A i \in DOMAIN candidates :
        [c |-> candidates[i], is |-> Qualification(candidates[i], q)] \in Qualified
  BY <1>1, QualificationType DEF Qualified
<1>3. Len(candidates) \in Nat /\ DOMAIN candidates = 1..Len(candidates)
  BY <1>1
<1> HIDE DEF candidates
<1>4. found \in Seq(Qualified)
  BY <1>2, <1>3
<1>5. RunOf(v) = [request |-> q, at |-> minute, confirmed |-> {}, candidates |-> found]
  BY DEF RunOf, candidates
<1>6. RunOf(v) \in RunRecords
  <2> HIDE DEF found
  <2> QED BY <1>1, <1>4, <1>5 DEF RunRecords
<1>7. RunFits(RunOf(v))
  BY <1>1, <1>5 DEF RunFits
<1> QED BY <1>5, <1>6, <1>7

LEMMA SaveStep ==
  ASSUME DiscoveryInv, NEW v \in Visitors, SaveDiscovery(v)
  PROVE  DiscoveryInv'
<1> DEFINE old == visits[v]
           n == Len(discoveryRuns)
<1>1. /\ old \in VisitRecords /\ VisitFits(old) /\ old.request \in Requests
      /\ old.at \in {"save", "store"}
  BY DEF DiscoveryInv, DiscoveryTypeOK, SaveDiscovery, VisitFits
<1>2. \A at \in {"error", "answered"}, run \in Nat :
        LET k == [old EXCEPT !.at = at, !.run = run] IN
        /\ k \in VisitRecords /\ k.at = at /\ k.run = run /\ k.request = old.request
        /\ k.asked = old.asked /\ k.candidates = old.candidates /\ k.tries = old.tries
  <2> HIDE DEF Tables, CompanyRows, old
  <2> QED BY <1>1 DEF VisitRecords
<1>3. CASE Finish(v, "error", 0) /\ UNCHANGED <<catalog, discoveryRuns>>
  <2> DEFINE k == [old EXCEPT !.at = "error", !.run = 0]
  <2>1. k \in VisitRecords /\ k.at = "error" /\ k.request = old.request /\ k.asked = old.asked
        /\ k.candidates = old.candidates
    BY <1>2
  <2>2. Visit(v, k) /\ OnlyVisits
    BY <1>3 DEF Finish, OnlyVisits, SaveDiscovery
  <2> HIDE DEF k
  <2>3. VisitFits(k)
    BY <1>1, <2>1 DEF VisitFits
  <2> QED BY <2>1, <2>2, <2>3, VisitStep
<1>4. CASE /\ catalog' = IF old.at = "store" THEN Merged(old.base, old.rows) ELSE catalog
           /\ discoveryRuns' = Append(discoveryRuns, RunOf(v))
           /\ Finish(v, "answered", n + 1)
  <2>11. PICK k : k = [old EXCEPT !.at = "answered", !.run = n + 1]
    OBVIOUS
  <2>1. UNCHANGED <<companies, sync, minute>>
    BY DEF SaveDiscovery
  <2>2. /\ discoveryRuns \in Seq(RunRecords) /\ catalog \in Tables /\ minute \in Nat
        /\ visits \in [Visitors -> VisitRecords]
        /\ n \in Nat /\ DOMAIN discoveryRuns = 1..n
    BY DEF DiscoveryInv, DiscoveryTypeOK
  <2>3. /\ RunOf(v) \in RunRecords /\ RunFits(RunOf(v))
        /\ RunOf(v).request = old.request /\ RunOf(v).at = minute
    BY <1>1, RunOfType
  <2>4. /\ discoveryRuns' \in Seq(RunRecords) /\ DOMAIN discoveryRuns' = 1..(n + 1)
        /\ \A i \in 1..n : discoveryRuns'[i] = discoveryRuns[i]
        /\ discoveryRuns'[n + 1] = RunOf(v)
    BY <1>4, <2>2, <2>3
  <2>5. catalog' \in Tables
    <3>1. old.rows \in Tables
      BY <1>1 DEF VisitRecords
    <3> QED BY <1>4, <2>2, <3>1, MergedType
  <2>12. n + 1 \in Nat
    BY <2>2
  <2> HIDE DEF n
  <2>6. /\ k \in VisitRecords /\ k.at = "answered" /\ k.run = n + 1 /\ k.request = old.request
        /\ k.asked = old.asked /\ k.candidates = old.candidates
    BY <1>2, <2>11, <2>12
  <2>7. \A u \in Visitors : visits'[u] = IF u = v THEN k ELSE visits[u]
    BY <1>4, <2>2, <2>11 DEF Finish, Visit
  <2>8. DiscoveryTypeOK'
    <3>1. visits' \in [Visitors -> VisitRecords]
      BY <1>4, <2>2, <2>6, <2>11 DEF Finish, Visit
    <3> QED BY <2>1, <2>4, <2>5, <3>1 DEF DiscoveryInv, DiscoveryTypeOK
  <2>9. ASSUME NEW u \in Visitors PROVE VisitFits(visits[u])'
    <3>1. CASE u = v
      <4>1. old.asked <= minute /\ old.asked \in Nat /\ old.candidates \in Seq(Fitting(old.request))
        BY <1>1 DEF VisitFits, VisitRecords
      <4>2. ~(minute < old.asked - Recent)
        BY <2>2, <4>1, DiscoveryAssumption
      <4>3. visits'[u] = k /\ n + 1 \in DOMAIN discoveryRuns'
        BY <2>2, <2>4, <2>7, <3>1
      <4>4. AnswerFits(k)'
        BY <2>3, <2>4, <2>6, <4>2, <4>3 DEF AnswerFits
      <4> QED BY <1>1, <2>1, <2>6, <4>1, <4>3, <4>4 DEF VisitFits, AnswerFits
    <3>2. CASE u # v
      <4>1. visits'[u] = visits[u] /\ VisitFits(visits[u])
        BY <2>7, <3>2 DEF DiscoveryInv
      <4>2. AnswerFits(visits[u]) => AnswerFits(visits[u])'
        BY <2>2, <2>4, <4>1 DEF AnswerFits
      <4> QED BY <2>1, <4>1, <4>2 DEF VisitFits
    <3> QED BY <3>1, <3>2
  <2>10. ASSUME NEW i \in DOMAIN discoveryRuns' PROVE RunFits(discoveryRuns[i])'
    <3>1. CASE i = n + 1
      BY <2>1, <2>3, <2>4, <3>1 DEF RunFits
    <3>2. CASE i # n + 1
      <4>1. i \in 1..n
        BY <2>2, <2>4, <3>2
      <4>2. RunFits(discoveryRuns[i]) /\ discoveryRuns'[i] = discoveryRuns[i]
        BY <2>2, <2>4, <4>1 DEF DiscoveryInv
      <4> QED BY <2>1, <4>2 DEF RunFits
    <3> QED BY <3>1, <3>2
  <2> QED BY <2>8, <2>9, <2>10 DEF DiscoveryInv
<1> QED BY <1>3, <1>4 DEF SaveDiscovery

LEMMA ConfirmStep ==
  ASSUME DiscoveryInv, NEW i \in DOMAIN discoveryRuns, NEW domains \in SUBSET Domains,
         Confirm(i, domains)
  PROVE  DiscoveryInv'
<1> DEFINE old == discoveryRuns[i]
<1>8. PICK new : new = [old EXCEPT !.confirmed = domains]
  OBVIOUS
<1>1. /\ old \in RunRecords /\ RunFits(old) /\ discoveryRuns \in Seq(RunRecords)
      /\ UNCHANGED <<catalog, visits, sync, minute>> /\ companies' = companies \union domains
      /\ discoveryRuns' = [discoveryRuns EXCEPT ![i] = new]
      /\ \A k \in DOMAIN old.candidates :
           old.candidates[k].c.domain \in domains => old.candidates[k].is # "out"
  BY <1>8, RunPositions DEF DiscoveryInv, DiscoveryTypeOK, Confirm
<1>2. /\ new \in RunRecords /\ new.request = old.request /\ new.at = old.at
      /\ new.candidates = old.candidates /\ new.confirmed = domains
  <2> HIDE DEF old, Domains
  <2> QED BY <1>1, <1>8 DEF RunRecords
<1>3. RunFits(new)'
  BY <1>1, <1>2 DEF RunFits
<1>4. /\ discoveryRuns' \in Seq(RunRecords) /\ DOMAIN discoveryRuns' = DOMAIN discoveryRuns
      /\ discoveryRuns'[i] = new
      /\ \A j \in DOMAIN discoveryRuns : j # i => discoveryRuns'[j] = discoveryRuns[j]
  <2> HIDE DEF old
  <2> QED BY <1>1, <1>2
<1>5. DiscoveryTypeOK'
  <2>1. companies' \subseteq Domains
    BY <1>1 DEF DiscoveryInv, DiscoveryTypeOK
  <2> QED BY <1>1, <1>4, <2>1 DEF DiscoveryInv, DiscoveryTypeOK
<1>6. ASSUME NEW u \in Visitors PROVE VisitFits(visits[u])'
  <2>1. VisitFits(visits[u])
    BY DEF DiscoveryInv
  <2>2. \A j \in DOMAIN discoveryRuns : /\ discoveryRuns'[j].request = discoveryRuns[j].request
                                        /\ discoveryRuns'[j].at = discoveryRuns[j].at
    BY <1>2, <1>4
  <2>3. AnswerFits(visits[u]) => AnswerFits(visits[u])'
    BY <1>1, <1>4, <2>2 DEF AnswerFits
  <2> QED BY <1>1, <2>1, <2>3 DEF VisitFits
<1>7. ASSUME NEW j \in DOMAIN discoveryRuns' PROVE RunFits(discoveryRuns[j])'
  <2>1. CASE j = i
    <3>1. discoveryRuns'[j] = new
      BY <1>4, <2>1
    <3> QED BY <1>3, <3>1 DEF RunFits
  <2>2. CASE j # i
    <3>1. RunFits(discoveryRuns[j]) /\ discoveryRuns'[j] = discoveryRuns[j]
      BY <1>4, <2>2 DEF DiscoveryInv
    <3> QED BY <1>1, <3>1 DEF RunFits
  <2> QED BY <2>1, <2>2
<1> QED BY <1>5, <1>6, <1>7 DEF DiscoveryInv

\* The sync and the clock leave requests and runs alone.
LEMMA OthersRest ==
  ASSUME DiscoveryInv, UNCHANGED <<discoveryRuns, companies, visits>>, DiscoveryTypeOK',
         minute <= minute'
  PROVE  DiscoveryInv'
<1>1. ASSUME NEW u \in Visitors PROVE VisitFits(visits[u])'
  <2>1. VisitFits(visits[u]) /\ visits'[u] = visits[u] /\ visits[u].asked \in Nat
    BY DEF DiscoveryInv, DiscoveryTypeOK, VisitRecords
  <2>2. visits[u].asked <= minute'
    BY <2>1 DEF DiscoveryInv, DiscoveryTypeOK, VisitFits
  <2> QED BY <2>1, <2>2 DEF VisitFits, AnswerFits
<1>2. \A i \in DOMAIN discoveryRuns' : RunFits(discoveryRuns[i])'
  BY DEF DiscoveryInv, RunFits
<1> QED BY <1>1, <1>2 DEF DiscoveryInv

LEMMA SyncSteps ==
  ASSUME DiscoveryInv, SyncPage \/ SyncStore
  PROVE  DiscoveryInv'
<1> DEFINE Syncs == [offset : Nat, counted : Int, at : {"page", "store", "end"}, rows : Tables,
                     base : Tables]
<1>1. /\ sync \in Syncs /\ catalog \in Tables /\ minute \in Nat
      /\ UNCHANGED <<discoveryRuns, companies, visits, minute>>
  BY DEF DiscoveryInv, DiscoveryTypeOK, SyncPage, SyncStore
<1>2. sync.offset \in Nat /\ sync.counted \in Int /\ sync.rows \in Tables /\ sync.base \in Tables
  BY <1>1
<1>3. [sync EXCEPT !.at = "end"] \in Syncs
  <2> HIDE DEF Tables
  <2> QED BY <1>1
<1>4. ASSUME NEW limit \in Nat, NEW rows \in Upserted(catalog,
               WikidataPage(SyncRequest, limit, ServerRows(SyncRequest, limit, sync.offset)))
      PROVE  [sync EXCEPT !.at = "store", !.base = catalog, !.rows = rows] \in Syncs
  <2> DEFINE page == WikidataPage(SyncRequest, limit, ServerRows(SyncRequest, limit, sync.offset))
  <2>1. SyncRequest.minimum \in Nat
    BY DEF SyncRequest
  <2>2. page \in Seq(Fitting(SyncRequest))
    BY <1>2, <2>1, ServerRowsType, PageType
  <2>3. Fitting(SyncRequest) \subseteq CompanyRows
    BY DEF Fitting
  <2>4. page \in Seq(CompanyRows)
    <3> HIDE DEF page, Fitting
    <3> QED BY <2>2, <2>3
  <2>5. rows \in Tables
    BY <1>1, <2>4, UpsertedType
  <2> HIDE DEF Tables
  <2> QED BY <1>1, <2>5
<1>5. CASE SyncPage
  <2>1. sync.counted < SyncLimit => PageLimit \in Nat
    BY <1>2, DiscoveryAssumption DEF PageLimit
  <2>2. sync' \in Syncs
    <3>1. CASE sync' = [sync EXCEPT !.at = "end"]
      BY <1>3, <3>1
    <3>2. CASE sync' # [sync EXCEPT !.at = "end"]
      <4>1. sync.counted < SyncLimit
        <5>1. ~(sync.counted >= SyncLimit)
          BY <1>5, <3>2 DEF SyncPage
        <5>2. SyncLimit \in Nat
          BY DiscoveryAssumption
        <5> QED BY <1>2, <5>1, <5>2
      <4>2. PICK rows \in Upserted(catalog, WikidataPage(SyncRequest, PageLimit,
                                  ServerRows(SyncRequest, PageLimit, sync.offset))) :
              sync' = [sync EXCEPT !.at = "store", !.base = catalog, !.rows = rows]
        BY <1>5, <3>2 DEF SyncPage
      <4> HIDE DEF Syncs
      <4> QED BY <1>4, <2>1, <4>1, <4>2
    <3> QED BY <3>1, <3>2
  <2>3. UNCHANGED catalog
    BY <1>5 DEF SyncPage
  <2>4. DiscoveryTypeOK'
    BY <1>1, <2>2, <2>3 DEF DiscoveryInv, DiscoveryTypeOK
  <2>5. minute <= minute'
    BY <1>1
  <2> QED BY <1>1, <2>4, <2>5, OthersRest
<1>6. CASE SyncStore
  <2>1. CASE Conflicts(sync.base, sync.rows)
    BY <1>1, <1>3, <1>6, <2>1, OthersRest DEF SyncStore, DiscoveryInv, DiscoveryTypeOK
  <2>2. CASE ~Conflicts(sync.base, sync.rows)
    <3> DEFINE merged == Merged(sync.base, sync.rows)
               counted == sync.counted + Cardinality(merged) - Cardinality(sync.base)
    <3>1. merged \in Tables /\ {} \in Tables
      BY <1>1, <1>2, MergedType, FS_EmptySet DEF Tables
    <3>2. Cardinality(merged) \in Nat /\ Cardinality(sync.base) \in Nat
      BY <1>2, <3>1, FS_CardinalityType DEF Tables
    <3>3. counted \in Int /\ sync.offset + PageSize \in Nat
      BY <1>2, <3>2, DiscoveryAssumption
    <3>4. catalog' = merged
          /\ sync' = [sync EXCEPT !.at = "page", !.offset = sync.offset + PageSize, !.rows = {},
                                  !.base = {}, !.counted = counted]
      BY <1>6, <2>2 DEF SyncStore
    <3> HIDE DEF merged, counted
    <3>5. sync' \in Syncs
      <4> HIDE DEF Tables
      <4> QED BY <1>1, <3>1, <3>3, <3>4
    <3> QED BY <1>1, <3>1, <3>4, <3>5, OthersRest DEF DiscoveryInv, DiscoveryTypeOK
  <2> QED BY <2>1, <2>2
<1> QED BY <1>5, <1>6

LEMMA MinuteStep ==
  ASSUME DiscoveryInv, Minute
  PROVE  DiscoveryInv'
<1>1. minute \in Nat /\ minute' \in Nat /\ minute <= minute'
      /\ UNCHANGED <<catalog, discoveryRuns, companies, visits, sync>>
  BY DEF DiscoveryInv, DiscoveryTypeOK, Minute
<1> QED BY <1>1, OthersRest DEF DiscoveryInv, DiscoveryTypeOK

\* The invariant of discovery requests, their runs and the catalogue.
THEOREM DiscoveryInvariant == DiscoverySpec => []DiscoveryInv
<1>1. DiscoveryInit => DiscoveryInv
  <2> SUFFICES ASSUME DiscoveryInit PROVE DiscoveryInv
    OBVIOUS
  <2>1. {} \in Tables
    BY FS_EmptySet DEF Tables
  <2>2. visits \in [Visitors -> VisitRecords] /\ \A v \in Visitors : visits[v] = NoVisit
    BY NoVisitType DEF DiscoveryInit
  <2>3. sync \in [offset : Nat, counted : Int, at : {"page", "store", "end"}, rows : Tables,
                  base : Tables]
    <3> HIDE DEF Tables
    <3> QED BY <2>1 DEF DiscoveryInit
  <2>4. DiscoveryTypeOK
    <3> HIDE DEF Tables, RunRecords
    <3> QED BY <2>1, <2>2, <2>3 DEF DiscoveryInit, DiscoveryTypeOK
  <2>5. \A v \in Visitors : VisitFits(visits[v])
    <3>1. <<>> \in Seq(Fitting(Unknown))
      OBVIOUS
    <3>2. /\ NoVisit.at = "idle" /\ NoVisit.asked = 0 /\ NoVisit.request = Unknown
          /\ NoVisit.candidates = <<>>
      BY DEF NoVisit
    <3>3. minute = 0
      BY DEF DiscoveryInit
    <3>4. NoVisit.candidates \in Seq(Fitting(NoVisit.request))
      BY <3>1, <3>2
    <3>5. NoVisit.asked <= minute
      BY <3>2, <3>3
    <3>6. VisitFits(NoVisit)
      <4> HIDE DEF Fitting
      <4> QED BY <3>2, <3>4, <3>5 DEF VisitFits
    <3> QED BY <2>2, <3>6
  <2>6. DOMAIN discoveryRuns = {}
    BY DEF DiscoveryInit
  <2> QED BY <2>4, <2>5, <2>6 DEF DiscoveryInv
<1>2. DiscoveryInv /\ [DiscoveryNext]_discoveryVars => DiscoveryInv'
  <2>1. CASE UNCHANGED discoveryVars
    BY <2>1 DEF discoveryVars, DiscoveryInv, DiscoveryTypeOK, VisitFits, AnswerFits, RunFits
  <2> QED
    BY <2>1, AskStep, DiscoveredStep, ProviderFailsStep, SaveStep, ConfirmStep, SyncSteps,
       MinuteStep DEF DiscoveryNext
<1> QED
  BY <1>1, <1>2, PTL DEF DiscoverySpec

\* api/discovery.py: whatever runs others save meanwhile, a request is answered with a run of
\* its own question, and with an old one only after two failures of Wikidata.
THEOREM AnswersFit == DiscoverySpec => []AnswersFitTheRequest
<1>1. DiscoveryInv => AnswersFitTheRequest
  BY DEF DiscoveryInv, VisitFits, AnswerFits, AnswersFitTheRequest
<1> QED
  BY <1>1, DiscoveryInvariant, PTL

\* discovery/qualification.py, api/discovery.py: no company known to be outside the request is
\* confirmed for research, and none is out of ICP for a fact that is only unknown.
THEOREM OnlyResearchableConfirmed == DiscoverySpec => []ConfirmedIsResearchable
<1>1. DiscoveryInv => ConfirmedIsResearchable
  <2> SUFFICES ASSUME DiscoveryInv, NEW i \in DOMAIN discoveryRuns,
                      NEW k \in DOMAIN discoveryRuns[i].candidates
               PROVE  LET c == discoveryRuns[i].candidates[k].c
                          q == discoveryRuns[i].request
                      IN  /\ c.domain \in discoveryRuns[i].confirmed =>
                               /\ c.domain \in companies
                               /\ q.countries = {} \/ c.country \in q.countries
                               /\ c.employees = Unknown \/ c.employees >= q.minimum
                               /\ Industries(q) # {} /\ c.industry # Unknown =>
                                    \E term \in Industries(q) :
                                      In(term, c.industry) \/ In(c.industry, term)
                          /\ discoveryRuns[i].candidates[k].is = "out" =>
                               \/ q.countries # {} /\ c.country \notin q.countries
                               \/ c.employees # Unknown /\ c.employees < q.minimum
                               \/ c.industry # Unknown
    BY DEF ConfirmedIsResearchable
  <2> DEFINE run == discoveryRuns[i]
             found == run.candidates[k]
             c == found.c
             q == run.request
  <2>1. /\ c \in Fitting(q) /\ found.is = Qualification(c, q)
        /\ c.domain \in run.confirmed => found.is # "out" /\ c.domain \in companies
    BY DEF DiscoveryInv, RunFits
  <2>2. found.is = "out" <=> WrongCountry(c, q) \/ WrongIndustry(c, q) \/ TooSmall(c, q)
    BY <2>1 DEF Qualification
  <2>3. c.employees # Unknown => c.employees >= q.minimum
    BY <2>1 DEF Fitting, LargeEnough
  <2>4. ~WrongCountry(c, q) => q.countries = {} \/ c.country \in q.countries
    BY DEF WrongCountry
  <2>5. ~WrongIndustry(c, q) =>
          (Industries(q) # {} /\ c.industry # Unknown =>
             \E term \in Industries(q) : In(term, c.industry) \/ In(c.industry, term))
    BY DEF WrongIndustry, MatchesIndustry, SomeIn
  <2>6. /\ WrongCountry(c, q) => q.countries # {} /\ c.country \notin q.countries
        /\ WrongIndustry(c, q) => c.industry # Unknown
        /\ TooSmall(c, q) => c.employees # Unknown /\ c.employees < q.minimum
    BY DEF WrongCountry, WrongIndustry, TooSmall
  <2> HIDE DEF c, q, found, run
  <2>7. /\ c.domain \in run.confirmed =>
             /\ c.domain \in companies
             /\ q.countries = {} \/ c.country \in q.countries
             /\ c.employees = Unknown \/ c.employees >= q.minimum
             /\ Industries(q) # {} /\ c.industry # Unknown =>
                  \E term \in Industries(q) : In(term, c.industry) \/ In(c.industry, term)
        /\ found.is = "out" =>
             \/ q.countries # {} /\ c.country \notin q.countries
             \/ c.employees # Unknown /\ c.employees < q.minimum
             \/ c.industry # Unknown
    BY <2>1, <2>2, <2>3, <2>4, <2>5, <2>6
  <2> QED BY <2>7 DEF c, q, found, run
<1> QED
  BY <1>1, DiscoveryInvariant, PTL

-----------------------------------------------------------------------------
(* The assessment: the prompt *)

NaturalSum(nothing, sum, part) == sum + part
SumFold == INSTANCE Folding WITH Op <- NaturalSum, Last <- Max
PromptFold == INSTANCE Folding WITH Op <- Show, Last <- Max
EventFold == INSTANCE Folding WITH Op <- FirstOfEvent, Last <- Max
ValidFold == INSTANCE Folding WITH Op <- Validate, Last <- Max

\* Max is the last of a set of positions, for each of the folds.
LEMMA LastInSequence ==
  ASSUME NEW k \in Nat
  PROVE  SumFold!IsLast(k) /\ PromptFold!IsLast(k) /\ EventFold!IsLast(k) /\ ValidFold!IsLast(k)
  BY SumFold!LastNatural
     DEF SumFold!IsLast, PromptFold!IsLast, EventFold!IsLast, ValidFold!IsLast, Max

LEMMA TotalIsFold ==
  ASSUME NEW shown \in Seq(Int)
  PROVE  Total(shown) = SumFold!Folded(0, 0, shown, Len(shown))
<1>1. DOMAIN shown = 1..Len(shown)
  OBVIOUS
<1> QED
  BY <1>1 DEF Total, FoldLeft, MapThenFoldSet, SumFold!Folded, SumFold!Iterates, NaturalSum

\* The total of nothing, and of one part more.
LEMMA TotalOfNone == Total(<<>>) = 0
<1>1. <<>> \in Seq(Int) /\ Len(<<>>) = 0 /\ 1..0 = {} /\ \A i \in 1..0 : FALSE
  OBVIOUS
<1>2. SumFold!IsLast(0)
  BY LastInSequence
<1>3. PICK t : t[0] = 0 /\ SumFold!Folded(0, 0, <<>>, 0) = t[0]
  BY <1>2, SumFold!FoldTrace
<1> QED BY <1>1, <1>3, TotalIsFold

LEMMA TotalOfMore ==
  ASSUME NEW shown \in Seq(Int), NEW part \in Int
  PROVE  Total(Append(shown, part)) = Total(shown) + part
<1>1. Append(shown, part) \in Seq(Int) /\ Len(shown) \in Nat /\ Len(shown) + 1 \in Nat
      /\ Len(Append(shown, part)) = Len(shown) + 1
  OBVIOUS
<1>2. SumFold!IsLast(Len(shown)) /\ SumFold!IsLast(Len(shown) + 1)
  BY <1>1, LastInSequence
<1>3. SumFold!Folded(0, 0, Append(shown, part), Len(shown) + 1)
        = NaturalSum(0, SumFold!Folded(0, 0, shown, Len(shown)), part)
  BY <1>2, SumFold!FoldAppend
<1> QED BY <1>1, <1>3, TotalIsFold DEF NaturalSum

LEMMA TotalIsInt ==
  ASSUME NEW shown \in Seq(Int)
  PROVE  Total(shown) \in Int
<1> DEFINE k == Len(shown)
<1>1. k \in Nat /\ \A i \in 1..k, v \in Int : NaturalSum(0, v, shown[i]) \in Int
  BY DEF NaturalSum
<1>2. SumFold!IsLast(k)
  BY <1>1, LastInSequence
<1> HIDE DEF k
<1>3. SumFold!Folded(0, 0, shown, k) \in Int
  BY <1>1, <1>2, SumFold!FoldPreserves
<1> QED BY <1>3, TotalIsFold DEF k

Prompts == [remaining : Int, shown : Seq(Int)]

Few(docs) == Len(docs) * FairFloor <= MaxCharacters

\* What holds after the first n documents: nothing is lost, the budget is exceeded by less
\* than a floor; few documents leave a floor for each that waits, and each had its own.
PromptHolds(docs, prompt, n) ==
  /\ prompt \in Prompts
  /\ prompt.remaining + Total(prompt.shown) = MaxCharacters
  /\ prompt.remaining >= 1 - FairFloor
  /\ Few(docs) =>
       /\ prompt.remaining >= (Len(docs) - n) * FairFloor
       /\ Len(prompt.shown) = n
       /\ \A i \in 1..n : prompt.shown[i] >= Least(FairFloor, Len(docs[i].text))

\* A share times those who share it is at most what there is.
LEMMA ShareTimes ==
  ASSUME NEW remaining \in Nat, NEW waiting \in Nat \ {0}
  PROVE  /\ remaining \div waiting \in Nat
         /\ waiting * (remaining \div waiting) <= remaining
         /\ remaining \div waiting <= remaining
         /\ \A least \in Nat : waiting * least <= remaining => least <= remaining \div waiting
  OBVIOUS

LEMMA ShowKeeps ==
  ASSUME NEW docs \in DocumentLists, NEW n \in DOMAIN docs, NEW prompt,
         PromptHolds(docs, prompt, n - 1)
  PROVE  PromptHolds(docs, Show(docs, prompt, n), n)
<1> DEFINE remaining == prompt.remaining
           waiting == Len(docs) - n + 1
           length == Len(docs[n].text)
           share == FairShare(remaining, waiting)
           part == Least(length, Least(MaxPerSource, share))
<1>1. /\ Len(docs) \in Nat /\ n \in 1..Len(docs) /\ length \in Nat /\ waiting \in Nat \ {0}
      /\ FairFloor \in Nat \ {0} /\ MaxPerSource \in Nat /\ FairFloor <= MaxPerSource
      /\ MaxCharacters \in Nat
  <2>1. Len(docs) \in Nat /\ DOMAIN docs = 1..Len(docs) /\ length \in Nat
    BY AssessmentAssumption
  <2> QED BY <2>1, AssessmentAssumption
<1>2. /\ remaining \in Int /\ prompt.shown \in Seq(Int) /\ Total(prompt.shown) \in Int
      /\ remaining + Total(prompt.shown) = MaxCharacters
  <2>1. remaining \in Int /\ prompt.shown \in Seq(Int)
    BY DEF PromptHolds, Prompts
  <2>2. Total(prompt.shown) \in Int
    BY TotalIsInt, <2>1
  <2> QED BY <2>1, <2>2 DEF PromptHolds
<1>3. CASE remaining <= 0
  <2>1. Show(docs, prompt, n) = prompt
    BY <1>3 DEF Show
  <2>2. ~Few(docs)
    <3> SUFFICES ASSUME Few(docs) PROVE FALSE
      OBVIOUS
    <3>1. remaining >= (Len(docs) - (n - 1)) * FairFloor
      BY DEF PromptHolds
    <3>2. (Len(docs) - (n - 1)) * FairFloor = waiting * FairFloor
      BY <1>1
    <3>3. waiting * FairFloor >= 1
      <4> HIDE DEF waiting
      <4> QED BY <1>1
    <3> QED BY <1>1, <1>2, <1>3, <3>1, <3>2, <3>3
  <2> QED BY <2>1, <2>2 DEF PromptHolds
<1>4. CASE remaining > 0
  <2>1. Show(docs, prompt, n) = [remaining |-> remaining - part, shown |-> Append(prompt.shown, part)]
    BY <1>2, <1>4 DEF Show
  <2>2. /\ remaining \div waiting \in Nat /\ waiting * (remaining \div waiting) <= remaining
        /\ remaining \div waiting <= remaining
        /\ waiting * FairFloor <= remaining => FairFloor <= remaining \div waiting
    <3>1. remaining \in Nat
      BY <1>2, <1>4
    <3> HIDE DEF remaining, waiting
    <3> QED BY <1>1, <3>1, ShareTimes
  <2>3. /\ share \in Nat /\ FairFloor <= share
        /\ share = FairFloor \/ share = remaining \div waiting
        /\ FairFloor <= remaining \div waiting => share = remaining \div waiting
    <3> DEFINE even == remaining \div waiting
    <3>1. even \in Nat /\ share = IF even > FairFloor THEN even ELSE FairFloor
      BY <2>2 DEF FairShare
    <3> HIDE DEF even, share
    <3>2. share \in Nat /\ FairFloor <= share /\ (share = FairFloor \/ share = even)
          /\ (FairFloor <= even => share = even)
      BY <1>1, <3>1
    <3> QED BY <3>2 DEF even
  <2> HIDE DEF remaining, waiting, length, share
  <2>4. /\ part \in Nat /\ part <= share /\ part <= length
        /\ part >= Least(FairFloor, length)
    BY <1>1, <2>3 DEF Least
  <2> HIDE DEF part
  <2>5. remaining - part >= 1 - FairFloor
    BY <1>1, <1>2, <1>4, <2>2, <2>3, <2>4
  <2>6. /\ Append(prompt.shown, part) \in Seq(Int)
        /\ remaining - part + Total(Append(prompt.shown, part)) = MaxCharacters
    <3>1. part \in Int
      BY <2>4
    <3>2. Total(Append(prompt.shown, part)) = Total(prompt.shown) + part
      BY <1>2, <3>1, TotalOfMore
    <3>3. Append(prompt.shown, part) \in Seq(Int)
      BY <1>2, <3>1
    <3> QED BY <1>1, <1>2, <2>4, <3>2, <3>3
  <2>7. ASSUME Few(docs)
        PROVE  /\ remaining - part >= (Len(docs) - n) * FairFloor
               /\ Len(Append(prompt.shown, part)) = n
               /\ \A i \in 1..n : Append(prompt.shown, part)[i] >= Least(FairFloor, Len(docs[i].text))
    <3>1. /\ remaining >= (Len(docs) - (n - 1)) * FairFloor /\ Len(prompt.shown) = n - 1
          /\ \A i \in 1..(n - 1) : prompt.shown[i] >= Least(FairFloor, Len(docs[i].text))
      BY <2>7 DEF PromptHolds, remaining
    <3>2. Len(docs) - (n - 1) = waiting /\ Len(docs) - n = waiting - 1
      BY <1>1 DEF waiting
    <3>3. waiting * FairFloor <= remaining
      BY <1>1, <1>2, <3>1, <3>2
    <3>4. share = remaining \div waiting /\ waiting * share <= remaining
      BY <2>2, <2>3, <3>3
    <3>5. (waiting - 1) * FairFloor <= (waiting - 1) * share
      BY <1>1, <2>3
    <3>6. (waiting - 1) * share = waiting * share - share
      BY <1>1, <2>3
    <3>7. remaining - part >= (waiting - 1) * FairFloor
      <4>1. (waiting - 1) * FairFloor \in Int /\ waiting * share \in Int
        BY <1>1, <2>3
      <4> QED BY <1>2, <2>3, <2>4, <3>4, <3>5, <3>6, <4>1
    <3>8. Len(Append(prompt.shown, part)) = n
      BY <1>1, <1>2, <3>1
    <3>9. \A i \in 1..n : Append(prompt.shown, part)[i] >= Least(FairFloor, Len(docs[i].text))
      <4> SUFFICES ASSUME NEW i \in 1..n
                   PROVE  Append(prompt.shown, part)[i] >= Least(FairFloor, Len(docs[i].text))
        OBVIOUS
      <4>1. CASE i = n
        <5>1. Append(prompt.shown, part)[Len(prompt.shown) + 1] = part
          BY <1>2
        <5>2. i = Len(prompt.shown) + 1
          BY <1>1, <3>1, <4>1
        <5> QED BY <2>4, <4>1, <5>1, <5>2 DEF length
      <4>2. CASE i # n
        <5>1. i \in 1..(n - 1)
          BY <1>1, <4>2
        <5>2. Append(prompt.shown, part)[i] = prompt.shown[i]
          BY <1>2, <3>1, <5>1
        <5> QED BY <3>1, <5>1, <5>2
      <4> QED BY <4>1, <4>2
    <3> QED BY <3>2, <3>7, <3>8, <3>9
  <2>8. [remaining |-> remaining - part, shown |-> Append(prompt.shown, part)] \in Prompts
    BY <1>2, <2>4, <2>6 DEF Prompts
  <2> QED BY <2>1, <2>5, <2>6, <2>7, <2>8 DEF PromptHolds
<1> QED BY <1>2, <1>3, <1>4

\* The prompt of any number of documents.
LEMMA PromptOfAll ==
  ASSUME NEW docs \in DocumentLists
  PROVE  /\ Total(ShownOf(docs)) <= MaxCharacters + (IF Few(docs) THEN 0 ELSE FairFloor - 1)
         /\ Few(docs) => \A i \in DOMAIN docs :
              /\ i \in DOMAIN ShownOf(docs)
              /\ ShownOf(docs)[i] >= Least(FairFloor, Len(docs[i].text))
<1> DEFINE k == Len(docs)
           places == [i \in DOMAIN docs |-> i]
           start == [remaining |-> MaxCharacters, shown |-> <<>>]
<1>1. k \in Nat /\ DOMAIN docs = 1..k
  BY AssessmentAssumption
<1>2. ShownOf(docs) = PromptFold!Folded(docs, start, places, k).shown
  BY <1>1 DEF ShownOf, FoldLeft, MapThenFoldSet, PromptFold!Folded, PromptFold!Iterates
<1>3. PromptFold!IsLast(k)
  BY <1>1, LastInSequence
<1>4. \A i \in 1..k : places[i] = i
  BY <1>1
<1>5. PromptHolds(docs, start, 0)
  <2>1. <<>> \in Seq(Int) /\ Len(<<>>) = 0 /\ MaxCharacters \in Nat /\ FairFloor \in Nat \ {0}
    BY AssessmentAssumption
  <2>2. start.remaining = MaxCharacters /\ start.shown = <<>> /\ start \in Prompts
    BY <2>1 DEF Prompts
  <2>3. (Len(docs) - 0) * FairFloor = Len(docs) * FairFloor
    BY <1>1
  <2>4. \A i \in 1..0 : FALSE
    OBVIOUS
  <2> HIDE DEF start
  <2> QED BY <2>1, <2>2, <2>3, <2>4, TotalOfNone DEF PromptHolds, Few
<1> HIDE DEF k, places, start
<1>6. PICK t : /\ t[0] = start
               /\ \A i \in 1..k : t[i] = Show(docs, t[i - 1], places[i])
               /\ PromptFold!Folded(docs, start, places, k) = t[k]
  BY <1>1, <1>3, PromptFold!FoldTrace
<1> DEFINE T == {i \in 0..k : PromptHolds(docs, t[i], i)}
<1>7. 0 \in T
  BY <1>1, <1>5, <1>6
<1>8. ASSUME NEW n \in 1..k, n - 1 \in T PROVE n \in T
  <2>1. t[n] = Show(docs, t[n - 1], n) /\ PromptHolds(docs, t[n - 1], n - 1) /\ n \in DOMAIN docs
    BY <1>1, <1>4, <1>6, <1>8
  <2>2. PromptHolds(docs, t[n], n)
    BY <2>1, ShowKeeps
  <2> QED BY <1>1, <2>2
<1>9. 0..k \subseteq T
  <2> HIDE DEF T
  <2> QED BY <1>1, <1>7, <1>8, SumFold!SetInduction
<1>10. PromptHolds(docs, t[k], k) /\ ShownOf(docs) = t[k].shown
  BY <1>1, <1>2, <1>6, <1>9
<1>11. t[k].remaining \in Int /\ t[k].shown \in Seq(Int) /\ Total(t[k].shown) \in Int
       /\ t[k].remaining + Total(t[k].shown) = MaxCharacters
  <2>1. t[k].remaining \in Int /\ t[k].shown \in Seq(Int)
    BY <1>10 DEF PromptHolds, Prompts
  <2> QED BY <1>10, <2>1, TotalIsInt DEF PromptHolds
<1>12. Few(docs) => t[k].remaining >= 0
  <2>1. Few(docs) => t[k].remaining >= (Len(docs) - k) * FairFloor
    BY <1>10 DEF PromptHolds
  <2>2. (Len(docs) - k) * FairFloor = 0
    <3>1. Len(docs) - k = 0
      BY <1>1 DEF k
    <3> QED BY <3>1, AssessmentAssumption
  <2> QED BY <2>1, <2>2
<1>13. t[k].remaining >= 1 - FairFloor
  BY <1>10 DEF PromptHolds
<1>14. Total(t[k].shown) <= MaxCharacters + (IF Few(docs) THEN 0 ELSE FairFloor - 1)
  BY <1>11, <1>12, <1>13, AssessmentAssumption
<1>15. ASSUME Few(docs), NEW i \in DOMAIN docs
       PROVE  i \in DOMAIN t[k].shown /\ t[k].shown[i] >= Least(FairFloor, Len(docs[i].text))
  <2>1. Len(t[k].shown) = k /\ \A j \in 1..k : t[k].shown[j] >= Least(FairFloor, Len(docs[j].text))
    BY <1>10, <1>15 DEF PromptHolds
  <2> QED BY <1>1, <1>11, <2>1
<1> QED BY <1>10, <1>14, <1>15

-----------------------------------------------------------------------------
(* The assessment: the excerpts *)

Quoted(p) == {p.evidence[i] : i \in DOMAIN p.evidence}
SoundOnes(docs, answer) == {answer[i] : i \in {i \in DOMAIN answer : Sound(docs, answer[i])}}

\* Evidence is made of excerpts the proposal quotes.
LEMMA EvidenceType ==
  ASSUME NEW docs, NEW answer \in Answers, NEW a \in DOMAIN answer
  PROVE  ValidatedEvidence(docs, answer[a]) \in Seq({AtPlace(docs, e) : e \in Quoted(answer[a])})
<1> DEFINE p == answer[a]
           quotes == p.evidence
           k == Len(quotes)
           Good == Seq({AtPlace(docs, e) : e \in Quoted(p)})
<1>1. k \in Nat /\ DOMAIN quotes = 1..k
  BY AssessmentAssumption
<1>2. ValidatedEvidence(docs, p) = EventFold!Folded(docs, <<>>, quotes, k)
  BY <1>1 DEF ValidatedEvidence, FoldLeft, MapThenFoldSet, EventFold!Folded, EventFold!Iterates
<1>3. EventFold!IsLast(k)
  BY <1>1, LastInSequence
<1>4. \A i \in 1..k, v \in Good : FirstOfEvent(docs, v, quotes[i]) \in Good
  <2> SUFFICES ASSUME NEW i \in 1..k, NEW v \in Good PROVE FirstOfEvent(docs, v, quotes[i]) \in Good
    OBVIOUS
  <2>1. AtPlace(docs, quotes[i]) \in {AtPlace(docs, e) : e \in Quoted(p)}
    BY <1>1 DEF Quoted
  <2> HIDE DEF quotes, k
  <2> QED BY <2>1 DEF FirstOfEvent
<1>5. <<>> \in Good
  OBVIOUS
<1> HIDE DEF Good, quotes, k
<1>6. EventFold!Folded(docs, <<>>, quotes, k) \in Good
  BY <1>1, <1>3, <1>4, <1>5, EventFold!FoldPreserves
<1> QED BY <1>2, <1>6 DEF Good

OfProposal(docs, p) == [signal |-> p.signal, evidence |-> ValidatedEvidence(docs, p)]
Done(docs, answer) ==
  [assessments : Seq({OfProposal(docs, p) : p \in SoundOnes(docs, answer)}),
   invalid : Seq({answer[i] : i \in DOMAIN answer})]

\* Assessments are made of sound proposals of the answer.
LEMMA ValidatedType ==
  ASSUME NEW docs, NEW answer \in Answers
  PROVE  Validated(docs, answer) \in Done(docs, answer)
<1> DEFINE k == Len(answer)
           start == [assessments |-> <<>>, invalid |-> <<>>]
<1>1. k \in Nat /\ DOMAIN answer = 1..k
  BY AssessmentAssumption
<1>2. Validated(docs, answer) = ValidFold!Folded(docs, start, answer, k)
  BY <1>1 DEF Validated, FoldLeft, MapThenFoldSet, ValidFold!Folded, ValidFold!Iterates
<1>3. ValidFold!IsLast(k)
  BY <1>1, LastInSequence
<1>4. ASSUME NEW i \in 1..k, NEW done \in Done(docs, answer)
      PROVE  Validate(docs, done, answer[i]) \in Done(docs, answer)
  <2> DEFINE A == {OfProposal(docs, p) : p \in SoundOnes(docs, answer)}
             I == {answer[j] : j \in DOMAIN answer}
  <2>1. done \in [assessments : Seq(A), invalid : Seq(I)]
    BY DEF Done
  <2>2. answer[i] \in I
    BY <1>1
  <2>3. Sound(docs, answer[i]) => OfProposal(docs, answer[i]) \in A
    BY <1>1 DEF SoundOnes
  <2> HIDE DEF A, I
  <2>4. Validate(docs, done, answer[i]) =
          IF Sound(docs, answer[i])
          THEN [done EXCEPT !.assessments = Append(done.assessments, OfProposal(docs, answer[i]))]
          ELSE [done EXCEPT !.invalid = Append(done.invalid, answer[i])]
    BY DEF Validate, OfProposal
  <2>5. Validate(docs, done, answer[i]) \in [assessments : Seq(A), invalid : Seq(I)]
    <3>1. CASE Sound(docs, answer[i])
      <4>1. Append(done.assessments, OfProposal(docs, answer[i])) \in Seq(A)
        BY <2>1, <2>3, <3>1
      <4> QED BY <2>1, <2>4, <3>1, <4>1
    <3>2. CASE ~Sound(docs, answer[i])
      <4>1. Append(done.invalid, answer[i]) \in Seq(I)
        BY <2>1, <2>2
      <4> QED BY <2>1, <2>4, <3>2, <4>1
    <3> QED BY <3>1, <3>2
  <2> QED BY <2>5 DEF Done, A, I
<1>5. start \in Done(docs, answer)
  <2>1. \A S : <<>> \in Seq(S)
    OBVIOUS
  <2> QED BY <2>1 DEF Done
<1> HIDE DEF k, start
<1>6. ValidFold!Folded(docs, start, answer, k) \in Done(docs, answer)
  BY <1>1, <1>3, <1>4, <1>5, ValidFold!FoldPreserves
<1> QED BY <1>2, <1>6

Occurs(text, excerpt, o) ==
  o + Len(excerpt) <= Len(text) /\ SubSeq(text, o + 1, o + Len(excerpt)) = excerpt

\* The place of a sound excerpt is in the one document it names, and is the only one there
\* or the one given.
LEMMA PlaceIsKnown ==
  ASSUME NEW docs \in DocumentLists, NEW e, Len(e.excerpt) \in Nat, Placed(docs, e) # {}
  PROVE  LET start == AtPlace(docs, e).start IN
         \E d \in DOMAIN docs :
           /\ docs[d].id = e.source /\ Occurs(docs[d].text, e.excerpt, start)
           /\ \/ \A o \in Nat : Occurs(docs[d].text, e.excerpt, o) => o = start
              \/ start = e.offset
<1> DEFINE start == CHOOSE o \in Placed(docs, e) : TRUE
           d == CHOOSE i \in DOMAIN docs : docs[i].id = e.source
           text == docs[d].text
           matches == Matches(text, e.excerpt)
<1>1. d \in DOMAIN docs /\ docs[d].id = e.source
  BY DEF Placed, IsDocument
<1>2. Len(text) \in Nat
  BY <1>1, AssessmentAssumption
<1>3. Placed(docs, e) = IF Cardinality(matches) = 1 THEN matches ELSE matches \intersect {e.offset}
  BY DEF Placed, TextOf
<1>4. start \in Placed(docs, e) /\ AtPlace(docs, e).start = start
  BY DEF AtPlace
<1> HIDE DEF d, start
<1>5. \A o : o \in matches <=> o \in Nat /\ Occurs(text, e.excerpt, o)
  <2>1. \A o : o \in matches <=>
          o \in 0..(Len(text) - Len(e.excerpt)) /\ SubSeq(text, o + 1, o + Len(e.excerpt)) = e.excerpt
    BY DEF Matches
  <2>2. \A o : o \in 0..(Len(text) - Len(e.excerpt)) <=> o \in Nat /\ o + Len(e.excerpt) <= Len(text)
    <3> HIDE DEF text
    <3>1. \A m, n \in Nat : \A o : o \in 0..(m - n) <=> o \in Nat /\ o + n <= m
      OBVIOUS
    <3> QED BY <1>2, <3>1
  <2> HIDE DEF matches, text
  <2> QED BY <2>1, <2>2 DEF Occurs
<1>6. IsFiniteSet(matches)
  <2>1. matches \subseteq 0..Len(text)
    <3> HIDE DEF text
    <3> QED BY <1>2 DEF Matches
  <2>2. IsFiniteSet(0..Len(text))
    BY <1>2, FS_Interval
  <2> QED BY <2>1, <2>2, FS_Subset
<1> HIDE DEF matches
<1>7. start \in matches /\ (Cardinality(matches) = 1 \/ start = e.offset)
  BY <1>3, <1>4
<1>8. Cardinality(matches) = 1 => \A o \in matches : o = start
  <2>1. Cardinality(matches) = 1 => \E x : matches = {x}
    BY <1>6, FS_Singleton
  <2> QED BY <1>7, <2>1
<1>9. Occurs(text, e.excerpt, start)
      /\ ((\A o \in Nat : Occurs(text, e.excerpt, o) => o = start) \/ start = e.offset)
  <2> HIDE DEF text
  <2> QED BY <1>5, <1>7, <1>8
<1> QED BY <1>1, <1>4, <1>9

-----------------------------------------------------------------------------
(* The assessment: the invariant *)

FromSoundOnes ==
  /\ exchange.answer \in Answers
  /\ exchange.assessments \in
       Seq({OfProposal(documents, p) : p \in SoundOnes(documents, exchange.answer)})

\* The prompt is the one of the documents, and assessments are made of sound proposals.
AssessmentInv ==
  /\ documents \in DocumentLists
  /\ exchange = [is |-> exchange.is, shown |-> exchange.shown, answer |-> exchange.answer,
                 assessments |-> exchange.assessments, invalid |-> exchange.invalid]
  /\ exchange.is \in {"start", "no documents", "asked", "retry", "failed", "assessed"}
  /\ exchange.is # "start" /\ documents # <<>> => exchange.shown = ShownOf(documents)
  /\ exchange.is = "no documents" => documents = <<>>
  /\ exchange.is # "assessed" => exchange.assessments = <<>>
  /\ exchange.is = "assessed" => FromSoundOnes

LEMMA AssessmentStep == AssessmentInv /\ [AssessmentNext]_assessmentVars => AssessmentInv'
<1> SUFFICES ASSUME AssessmentInv, [AssessmentNext]_assessmentVars PROVE AssessmentInv'
  OBVIOUS
<1>1. ASSUME NEW is \in {"no documents", "retry", "failed"}, Outcome(is), UNCHANGED documents,
             \/ exchange.is = "start" /\ documents = <<>> /\ is = "no documents"
             \/ exchange.is = "asked" /\ is # "no documents"
      PROVE  AssessmentInv'
  <2>1. exchange' = [is |-> is, shown |-> exchange.shown, answer |-> exchange.answer,
                     assessments |-> exchange.assessments, invalid |-> exchange.invalid]
    BY <1>1 DEF Outcome, AssessmentInv
  <2>2. /\ exchange'.is = is /\ exchange'.shown = exchange.shown
        /\ exchange'.answer = exchange.answer /\ exchange'.assessments = exchange.assessments
        /\ exchange'.invalid = exchange.invalid
    BY <2>1
  <2>3. exchange.is # "assessed" /\ exchange.assessments = <<>> /\ is # "assessed" /\ is # "start"
        /\ documents \in DocumentLists /\ (exchange.is = "asked" /\ documents # <<>> =>
                                             exchange.shown = ShownOf(documents))
    BY <1>1 DEF AssessmentInv
  <2>4. documents' = documents
    BY <1>1
  <2>5. exchange' = [is |-> exchange'.is, shown |-> exchange'.shown, answer |-> exchange'.answer,
                     assessments |-> exchange'.assessments, invalid |-> exchange'.invalid]
    BY <2>1, <2>2
  <2>6. (exchange'.is # "start" /\ documents' # <<>> => exchange'.shown = ShownOf(documents'))
        /\ (exchange'.is = "no documents" => documents' = <<>>)
    BY <1>1, <2>2, <2>3, <2>4
  <2>7. exchange'.is \in {"start", "no documents", "asked", "retry", "failed", "assessed"}
    BY <2>2
  <2>8. exchange'.is # "assessed" /\ exchange'.assessments = <<>> /\ documents' \in DocumentLists
    BY <2>2, <2>3, <2>4
  <2> QED BY <2>5, <2>6, <2>7, <2>8 DEF AssessmentInv
<1>2. CASE Ask
  <2>1. CASE documents = <<>>
    <3>1. Outcome("no documents") /\ UNCHANGED documents /\ exchange.is = "start"
      BY <1>2, <2>1 DEF Ask
    <3> QED BY <1>1, <2>1, <3>1 DEF Outcome
  <2>2. CASE documents # <<>>
    <3>1. exchange' = [is |-> "asked", shown |-> ShownOf(documents), answer |-> exchange.answer,
                       assessments |-> exchange.assessments, invalid |-> exchange.invalid]
          /\ UNCHANGED documents /\ exchange.is = "start"
      BY <1>2, <2>2 DEF Ask, AssessmentInv
    <3> QED BY <3>1 DEF AssessmentInv
  <2> QED BY <2>1, <2>2
<1>3. ASSUME NEW f \in Failures, CallFails(f) PROVE AssessmentInv'
  BY <1>1, <1>3 DEF CallFails, Outcome
<1>4. ASSUME NEW answer \in Answers, NEW cost \in Costs, CallAnswers(answer, cost)
      PROVE  AssessmentInv'
  <2>1. CASE OneResultPerSignal(answer) /\ cost <= RunBudget
    <3>1. exchange' = [is |-> "assessed", shown |-> exchange.shown, answer |-> answer,
                       assessments |-> Validated(documents, answer).assessments,
                       invalid |-> Validated(documents, answer).invalid]
          /\ UNCHANGED documents /\ exchange.is = "asked"
      BY <1>4, <2>1 DEF CallAnswers, AssessmentInv
    <3>2. Validated(documents, answer).assessments
            \in Seq({OfProposal(documents, p) : p \in SoundOnes(documents, answer)})
      BY ValidatedType DEF Done
    <3>3. FromSoundOnes'
      BY <3>1, <3>2 DEF FromSoundOnes
    <3> QED BY <3>1, <3>3 DEF AssessmentInv
  <2>2. CASE ~(OneResultPerSignal(answer) /\ cost <= RunBudget)
    BY <1>1, <1>4, <2>2 DEF CallAnswers, Outcome
  <2> QED BY <2>1, <2>2
<1>5. CASE UNCHANGED assessmentVars
  BY <1>5 DEF AssessmentInv, FromSoundOnes, assessmentVars
<1> QED BY <1>2, <1>3, <1>4, <1>5 DEF AssessmentNext

\* The strengthened invariant of the documents and the call about them.
THEOREM AssessmentInvariant == AssessmentSpec => []AssessmentInv
<1>1. AssessmentInit => AssessmentInv
  BY DEF AssessmentInit, AssessmentInv
<1> QED
  BY <1>1, AssessmentStep, PTL DEF AssessmentSpec

\* assessment/providers/openrouter.py: however many documents of whatever lengths, the prompt
\* keeps its limit but for less than one floor, and few documents have a floor each.
THEOREM PromptKeepsShares == AssessmentSpec => []PromptIsShared
<1>1. AssessmentInv => PromptIsShared
  <2> SUFFICES ASSUME AssessmentInv, exchange.is # "start", documents # <<>>
               PROVE  /\ Total(exchange.shown)
                           <= MaxCharacters + (IF Few(documents) THEN 0 ELSE FairFloor - 1)
                      /\ Few(documents) => \A i \in DOMAIN documents :
                           /\ i \in DOMAIN exchange.shown
                           /\ exchange.shown[i] >= Least(FairFloor, Len(documents[i].text))
    BY DEF PromptIsShared, Few
  <2>1. documents \in DocumentLists /\ exchange.shown = ShownOf(documents)
    BY DEF AssessmentInv
  <2> QED BY <2>1, PromptOfAll
<1> QED
  BY <1>1, AssessmentInvariant, PTL

\* assessment/validation.py: whatever the provider quotes, stored evidence is found at its
\* offset in its document, and is there only once or where the provider said.
THEOREM EvidenceIsVerbatim == AssessmentSpec => []QuotesAreVerbatim
<1>1. AssessmentInv => QuotesAreVerbatim
  <2> SUFFICES ASSUME AssessmentInv, NEW i \in DOMAIN exchange.assessments,
                      NEW k \in DOMAIN exchange.assessments[i].evidence
               PROVE  LET e == exchange.assessments[i].evidence[k]
                          found(o) == \E d \in DOMAIN documents :
                            documents[d].id = e.source /\ Occurs(documents[d].text, e.excerpt, o)
                      IN  /\ found(e.start)
                          /\ (\E d \in DOMAIN documents : \E o \in 0..Len(documents[d].text) :
                                o # e.start /\ found(o)) =>
                               \E a \in DOMAIN exchange.answer :
                                 /\ exchange.answer[a].signal = exchange.assessments[i].signal
                                 /\ \E q \in DOMAIN exchange.answer[a].evidence :
                                      exchange.answer[a].evidence[q].offset = e.start
    BY DEF QuotesAreVerbatim, Occurs
  <2> DEFINE assessment == exchange.assessments[i]
             e == assessment.evidence[k]
  <2>1. exchange.answer \in Answers /\ documents \in DocumentLists
        /\ assessment \in {OfProposal(documents, p) : p \in SoundOnes(documents, exchange.answer)}
    <3>1. exchange.is = "assessed"
      <4>1. exchange.assessments # <<>>
        OBVIOUS
      <4> QED BY <4>1 DEF AssessmentInv
    <3> DEFINE A == {OfProposal(documents, p) : p \in SoundOnes(documents, exchange.answer)}
    <3>2. exchange.answer \in Answers /\ documents \in DocumentLists
          /\ exchange.assessments \in Seq(A)
      BY <3>1 DEF AssessmentInv, FromSoundOnes
    <3> HIDE DEF A
    <3>3. exchange.assessments[i] \in A
      BY <3>2
    <3> QED BY <3>2, <3>3 DEF A
  <2>2. PICK a \in DOMAIN exchange.answer :
          Sound(documents, exchange.answer[a]) /\ assessment = OfProposal(documents, exchange.answer[a])
    BY <2>1 DEF SoundOnes
  <2> DEFINE p == exchange.answer[a]
  <2>3. assessment.signal = p.signal /\ assessment.evidence = ValidatedEvidence(documents, p)
    BY <2>2 DEF OfProposal
  <2>4. e \in {AtPlace(documents, x) : x \in Quoted(p)}
    <3>1. assessment.evidence \in Seq({AtPlace(documents, x) : x \in Quoted(p)})
      BY <2>1, <2>3, EvidenceType
    <3> HIDE DEF p, assessment
    <3> QED BY <3>1 DEF assessment
  <2>5. PICK q \in DOMAIN p.evidence : e = AtPlace(documents, p.evidence[q])
    BY <2>4 DEF Quoted
  <2> DEFINE x == p.evidence[q]
  <2>6. Placed(documents, x) # {} /\ Len(x.excerpt) \in Nat
    <3>1. p.evidence # <<>>
      BY <2>1, <2>5, AssessmentAssumption
    <3> QED BY <2>1, <2>2, <3>1, AssessmentAssumption DEF Sound
  <2>7. e.source = x.source /\ e.excerpt = x.excerpt /\ e.start = AtPlace(documents, x).start
    BY <2>5 DEF AtPlace
  <2> HIDE DEF x, e
  <2>8. PICK d \in DOMAIN documents :
          /\ documents[d].id = e.source /\ Occurs(documents[d].text, e.excerpt, e.start)
          /\ \/ \A o \in Nat : Occurs(documents[d].text, e.excerpt, o) => o = e.start
             \/ e.start = x.offset
    BY <2>1, <2>6, <2>7, PlaceIsKnown
  <2>9. \A c \in DOMAIN documents : documents[c].id = e.source => c = d
    BY <2>1, <2>8, AssessmentAssumption
  <2>10. ASSUME NEW c \in DOMAIN documents, NEW o \in 0..Len(documents[c].text), o # e.start,
                NEW b \in DOMAIN documents, documents[b].id = e.source,
                Occurs(documents[b].text, e.excerpt, o)
         PROVE  x.offset = e.start
    <3>1. b = d /\ o \in Nat
      BY <2>9, <2>10
    <3> QED BY <2>8, <2>10, <3>1
  <2>11. /\ \E c \in DOMAIN documents :
              documents[c].id = e.source /\ Occurs(documents[c].text, e.excerpt, e.start)
         /\ (\E c \in DOMAIN documents : \E o \in 0..Len(documents[c].text) :
               o # e.start /\ \E b \in DOMAIN documents :
                 documents[b].id = e.source /\ Occurs(documents[b].text, e.excerpt, o)) =>
              \E n \in DOMAIN exchange.answer :
                /\ exchange.answer[n].signal = assessment.signal
                /\ \E m \in DOMAIN exchange.answer[n].evidence :
                     exchange.answer[n].evidence[m].offset = e.start
    BY <2>3, <2>8, <2>10 DEF x
  <2> QED BY <2>11 DEF e
<1> QED
  BY <1>1, AssessmentInvariant, PTL

-----------------------------------------------------------------------------
(* Scoring: the value of a signal *)

\* What ScoringAssumption says of one signal.
IsAssessed(signal) ==
  /\ signal.weight \in Nat /\ signal.strength \in 0..10
  /\ signal.event \in Int \union {NoDate} /\ signal.published \in Int \union {NoDate}
  /\ IsFiniteSet(signal.items)
  /\ signal.status = "supported" /\ Positive(signal) => signal.items # {}

LEMMA SignalsAreAssessed ==
  ASSUME NEW signals \in Assessments, NEW i \in DOMAIN signals
  PROVE  IsAssessed(signals[i])
BY ScoringAssumption DEF IsAssessed

LEMMA ProductGrows ==
  ASSUME NEW a \in Nat, NEW b \in Nat, NEW c \in Nat, a <= b
  PROVE  a * c \in Nat /\ a * c <= b * c /\ c * a <= c * b /\ (a * c > 0 => a > 0 /\ c > 0)
OBVIOUS

\* A fraction of a whole is no more than the whole, and nothing of it is nothing.
LEMMA FractionOfWhole ==
  ASSUME NEW part \in Nat, NEW whole \in Nat \ {0}, part <= whole, NEW unit \in Nat \ {0}
  PROVE  /\ (unit * part) \div whole \in 0..unit
         /\ (unit * part) \div whole > 0 => part > 0
<1> DEFINE q == (unit * part) \div whole
<1>1. unit * part \in Nat /\ unit * part <= unit * whole
  BY ProductGrows
<1>2. q \in Nat /\ whole * q <= unit * part
  BY <1>1
<1>3. q <= unit
  <2>1. SUFFICES ASSUME q >= unit + 1 PROVE FALSE
    BY <1>2
  <2>2. whole * (unit + 1) <= whole * q
    BY <1>2, <2>1, ProductGrows
  <2>3. whole * (unit + 1) = unit * whole + whole
    OBVIOUS
  <2> QED BY <1>1, <1>2, <2>2, <2>3
<1>4. part = 0 => q = 0
  BY <1>1
<1> QED BY <1>2, <1>3, <1>4

LEMMA FreshnessBound ==
  ASSUME NEW signal, IsAssessed(signal)
  PROVE  /\ Freshness(signal) \in 0..Window
         /\ Freshness(signal) > 0 =>
              /\ signal.event = NoDate \/ signal.event < Window
              /\ signal.event = NoDate => signal.published = NoDate \/ signal.published < Window
  BY ScoringAssumption DEF Freshness, High, IsAssessed

LEMMA EventsAreFinite ==
  ASSUME NEW signal, IsFiniteSet(signal.items)
  PROVE  IsFiniteSet(Events(signal)) /\ IsFiniteSet(Publishers(signal))
<1> DEFINE e == [item \in signal.items |-> item.event]
           p == [item \in signal.items |-> item.publisher]
<1>1. e \in Surjection(signal.items, Events(signal))
  BY DEF Surjection, Events
<1>2. p \in Surjection(signal.items, Publishers(signal))
  BY DEF Surjection, Publishers
<1> QED BY <1>1, <1>2, FS_Surjection

LEMMA NoveltyBound ==
  ASSUME NEW tally, NEW signal, IsFiniteSet(signal.items)
  PROVE  /\ Novelty(tally, signal) \in 0..Share
         /\ Novelty(tally, signal) > 0 /\ Positive(signal) /\ Events(signal) # {} =>
              Events(signal) \ tally.claimed # {}
<1> DEFINE all == Events(signal)
           novel == all \ tally.claimed
<1>1. IsFiniteSet(all)
  BY EventsAreFinite
<1> HIDE DEF all
<1>2. Cardinality(novel) \in Nat /\ Cardinality(all) \in Nat /\ Cardinality(novel) <= Cardinality(all)
  BY <1>1, FS_Subset, FS_CardinalityType
<1>3. (all # {} => Cardinality(all) # 0) /\ (novel = {} => Cardinality(novel) = 0)
  BY <1>1, FS_EmptySet
<1> HIDE DEF novel
<1>4. CASE Positive(signal) /\ all # {}
  <2>1. Novelty(tally, signal) = (Share * Cardinality(novel)) \div Cardinality(all)
    BY <1>4 DEF Novelty, all, novel
  <2>2. Share \in Nat \ {0}
    BY ScoringAssumption
  <2> QED BY <1>2, <1>3, <1>4, <2>1, <2>2, FractionOfWhole DEF all, novel
<1>5. CASE ~(Positive(signal) /\ all # {})
  BY <1>5, ScoringAssumption DEF Novelty, all
<1> QED BY <1>4, <1>5

\* A value is what its factors are, at most the weight, and nothing if one of them is.
LEMMA ValueBound ==
  ASSUME NEW tally, NEW signal, IsAssessed(signal)
  PROVE  /\ Value(tally, signal) \in Nat /\ Value(tally, signal) <= Unit * signal.weight
         /\ Value(tally, signal) > 0 =>
              signal.weight > 0 /\ Freshness(signal) > 0 /\ Novelty(tally, signal) > 0
<1> DEFINE w == signal.weight  s == signal.strength
           f == Freshness(signal)  n == Novelty(tally, signal)
<1>1. w \in Nat /\ s \in 0..10 /\ f \in 0..Window /\ n \in 0..Share
      /\ Window \in Nat /\ Share \in Nat
  BY FreshnessBound, NoveltyBound, ScoringAssumption DEF IsAssessed
<1>2. Value(tally, signal) = w * s * f * n
  BY DEF Value
<1> HIDE DEF w, s, f, n
<1>3. w * s \in Nat /\ w * s <= w * 10 /\ w * 10 \in Nat /\ (w * s > 0 => w > 0)
  BY <1>1, ProductGrows
<1>4. /\ w * s * f \in Nat /\ w * s * f <= w * 10 * Window /\ w * 10 * Window \in Nat
      /\ w * s * f > 0 => w * s > 0 /\ f > 0
  <2>1. w * s * f <= w * s * Window /\ w * s * f \in Nat /\ (w * s * f > 0 => w * s > 0 /\ f > 0)
    BY <1>1, <1>3, ProductGrows
  <2>2. w * s * Window <= w * 10 * Window /\ w * s * Window \in Nat /\ w * 10 * Window \in Nat
    BY <1>1, <1>3, ProductGrows
  <2> QED BY <2>1, <2>2
<1>5. /\ w * s * f * n \in Nat /\ w * s * f * n <= w * 10 * Window * Share
      /\ w * s * f * n > 0 => w * s * f > 0 /\ n > 0
  <2>1. w * s * f * n <= w * s * f * Share /\ w * s * f * n \in Nat
        /\ (w * s * f * n > 0 => w * s * f > 0 /\ n > 0)
    BY <1>1, <1>4, ProductGrows
  <2>2. w * s * f * Share <= w * 10 * Window * Share
        /\ w * s * f * Share \in Nat /\ w * 10 * Window * Share \in Nat
    BY <1>1, <1>4, ProductGrows
  <2> QED BY <2>1, <2>2
<1>6. Unit * w = w * 10 * Window * Share
  BY <1>1 DEF Unit
<1> QED BY <1>2, <1>3, <1>4, <1>5, <1>6 DEF w, f, n

-----------------------------------------------------------------------------
(* Scoring: the tally of the signals *)

CountedOf(nothing, tally, signal) == Counted(tally, signal)
TallyFold == INSTANCE Folding WITH Op <- CountedOf, Last <- Max

SupportedOf(signals) == {signals[i] : i \in {k \in DOMAIN signals : signals[k].status = "supported"}}

Tallies(signals) ==
  [claimed : SUBSET UNION {Events(s) : s \in SupportedOf(signals)}, value : Int, penalty : Int,
   publishers : SUBSET UNION {Publishers(s) : s \in SupportedOf(signals)}, strengths : Int,
   counted : Int, credible : BOOLEAN, excluded : BOOLEAN,
   parts : Seq([signal : SupportedOf(signals), value : Nat])]

AddingOf(parts) == {i \in DOMAIN parts : Positive(parts[i].signal) /\ parts[i].value > 0}

\* Each contribution that adds to the score has an event of its own.
OwnEvents(f, parts) ==
  /\ \A i \in AddingOf(parts) : f[i] \in Events(parts[i].signal)
  /\ \A i, j \in AddingOf(parts) : f[i] = f[j] => i = j

FreshIn(signals) ==
  {i \in DOMAIN signals :
     /\ signals[i].status = "supported"
     /\ signals[i].effect = "positive" /\ signals[i].weight > 0
     /\ signals[i].event = NoDate \/ signals[i].event < Window
     /\ signals[i].event = NoDate => signals[i].published = NoDate \/ signals[i].published < Window}

\* Events that were counted are claimed, and what corroborates a score is fresh.
EventsNamed(tally) ==
  /\ IsFiniteSet(tally.claimed)
  /\ \A i \in DOMAIN tally.parts :
       /\ tally.parts[i].value <= Unit * tally.parts[i].signal.weight
       /\ Positive(tally.parts[i].signal) => Events(tally.parts[i].signal) \subseteq tally.claimed
  /\ \E f : OwnEvents(f, tally.parts)

SourcesAreFresh(tally, signals) ==
  /\ tally.publishers \subseteq UNION {Publishers(signals[i]) : i \in FreshIn(signals)}
  /\ tally.credible => \E i \in FreshIn(signals) : signals[i].strength > 4

GoodTallies(signals) ==
  {tally \in Tallies(signals) : EventsNamed(tally) /\ SourcesAreFresh(tally, signals)}

\* A signal that is worth something is fresh.
LEMMA WorthIsFresh ==
  ASSUME NEW signals \in Assessments, NEW k \in DOMAIN signals, signals[k].status = "supported",
         NEW tally, Counts(signals[k], Value(tally, signals[k]))
  PROVE  k \in FreshIn(signals)
<1>1. IsAssessed(signals[k]) /\ Positive(signals[k]) /\ Value(tally, signals[k]) > 0
  BY SignalsAreAssessed DEF Counts
<1>2. signals[k].weight > 0 /\ Freshness(signals[k]) > 0
  BY <1>1, ValueBound
<1>3. /\ signals[k].event = NoDate \/ signals[k].event < Window
      /\ signals[k].event = NoDate => signals[k].published = NoDate \/ signals[k].published < Window
  BY <1>1, <1>2, FreshnessBound
<1> QED BY <1>1, <1>2, <1>3 DEF FreshIn, Positive

LEMMA CountedKeepsType ==
  ASSUME NEW signals \in Assessments, NEW k \in DOMAIN signals, signals[k].status = "supported",
         NEW tally \in Tallies(signals)
  PROVE  Counted(tally, signals[k]) \in Tallies(signals)
<1> DEFINE signal == signals[k]
           value == Value(tally, signal)
           worth == Counts(signal, value)
           E == UNION {Events(s) : s \in SupportedOf(signals)}
           P == UNION {Publishers(s) : s \in SupportedOf(signals)}
           C == [signal : SupportedOf(signals), value : Nat]
<1>1. signal \in SupportedOf(signals) /\ value \in Nat /\ signal.strength \in Int
  BY SignalsAreAssessed, ValueBound DEF SupportedOf, IsAssessed
<1>2. Events(signal) \subseteq E /\ Publishers(signal) \subseteq P
      /\ [signal |-> signal, value |-> value] \in C
  BY <1>1
<1>3. /\ tally.claimed \subseteq E /\ tally.value \in Int /\ tally.penalty \in Int
      /\ tally.publishers \subseteq P /\ tally.strengths \in Int /\ tally.counted \in Int
      /\ tally.credible \in BOOLEAN /\ tally.excluded \in BOOLEAN /\ tally.parts \in Seq(C)
  BY DEF Tallies
<1> HIDE DEF value, E, P, C
<1>4. Counted(tally, signal) =
      [claimed |-> IF Positive(signal) THEN tally.claimed \union Events(signal) ELSE tally.claimed,
       value |-> tally.value + IF Positive(signal) THEN value ELSE 0,
       penalty |-> tally.penalty + IF signal.effect = "penalty" THEN value ELSE 0,
       publishers |-> tally.publishers \union IF worth THEN Publishers(signal) ELSE {},
       strengths |-> tally.strengths + IF worth THEN signal.strength ELSE 0,
       counted |-> tally.counted + IF worth THEN 1 ELSE 0,
       credible |-> tally.credible \/ (worth /\ signal.strength >= 7),
       excluded |-> tally.excluded \/ signal.effect = "disqualifier",
       parts |-> Append(tally.parts, [signal |-> signal, value |-> value])]
  BY DEF Counted, value
<1> HIDE DEF worth, signal
<1> DEFINE part == [signal |-> signal, value |-> value]
<1>5. part \in C
  BY <1>2
<1> HIDE DEF part
<1>6. Append(tally.parts, part) \in Seq(C)
  BY <1>3, <1>5
<1> DEFINE claimed == IF Positive(signal) THEN tally.claimed \union Events(signal) ELSE tally.claimed
           sum == tally.value + IF Positive(signal) THEN value ELSE 0
           penalty == tally.penalty + IF signal.effect = "penalty" THEN value ELSE 0
           publishers == tally.publishers \union IF worth THEN Publishers(signal) ELSE {}
           strengths == tally.strengths + IF worth THEN signal.strength ELSE 0
           counted == tally.counted + IF worth THEN 1 ELSE 0
           credible == tally.credible \/ (worth /\ signal.strength >= 7)
           excluded == tally.excluded \/ signal.effect = "disqualifier"
           parts == Append(tally.parts, part)
<1>7. /\ claimed \in SUBSET E /\ sum \in Int /\ penalty \in Int /\ publishers \in SUBSET P
      /\ strengths \in Int /\ counted \in Int /\ parts \in Seq(C)
  BY <1>1, <1>2, <1>3, <1>6
<1>8. credible \in BOOLEAN /\ excluded \in BOOLEAN
  OBVIOUS
<1>9. Counted(tally, signal) =
         [claimed |-> claimed, value |-> sum, penalty |-> penalty, publishers |-> publishers,
          strengths |-> strengths, counted |-> counted, credible |-> credible,
          excluded |-> excluded, parts |-> parts]
  BY <1>4 DEF part
<1> HIDE DEF claimed, sum, penalty, publishers, strengths, counted, credible, excluded, parts
<1>10. Counted(tally, signal) \in
        [claimed : SUBSET E, value : Int, penalty : Int, publishers : SUBSET P, strengths : Int,
         counted : Int, credible : BOOLEAN, excluded : BOOLEAN, parts : Seq(C)]
  BY <1>7, <1>8, <1>9
<1> QED BY <1>10 DEF Tallies, E, P, C, signal

LEMMA CountedNamesEvents ==
  ASSUME NEW signals \in Assessments, NEW k \in DOMAIN signals, signals[k].status = "supported",
         NEW tally \in Tallies(signals), EventsNamed(tally)
  PROVE  EventsNamed(Counted(tally, signals[k]))
<1> DEFINE signal == signals[k]
           value == Value(tally, signal)
           parts == tally.parts
           n == Len(parts)
           part == [signal |-> signal, value |-> value]
           after == Append(parts, part)
           claimed == IF Positive(signal) THEN tally.claimed \union Events(signal) ELSE tally.claimed
<1>1. IsAssessed(signal) /\ signal.status = "supported"
  BY SignalsAreAssessed
<1>2. /\ Counted(tally, signal).parts = after /\ Counted(tally, signal).claimed = claimed
  BY DEF Counted
<1>3. value \in Nat /\ value <= Unit * signal.weight
      /\ (value > 0 => Novelty(tally, signal) > 0)
  BY <1>1, ValueBound
<1>4. Positive(signal) /\ value > 0 => Events(signal) \ tally.claimed # {}
  <2>1. Positive(signal) => Events(signal) # {}
    BY <1>1 DEF IsAssessed, Events
  <2> QED BY <1>1, <1>3, <2>1, NoveltyBound DEF IsAssessed
<1>5. IsFiniteSet(claimed)
  BY <1>1, EventsAreFinite, FS_Union DEF EventsNamed, IsAssessed
<1>6. parts \in Seq([signal : SupportedOf(signals), value : Nat])
  BY DEF Tallies
<1> DEFINE C == [signal : SupportedOf(signals), value : Nat]
<1>7. part \in C
  BY <1>3 DEF SupportedOf
<1> HIDE DEF C
<1>8. /\ n \in Nat /\ DOMAIN parts = 1..n /\ DOMAIN after = 1..(n + 1)
      /\ \A i \in 1..n : after[i] = parts[i]
      /\ after[n + 1] = part
  <2>1. parts \in Seq(C)
    BY <1>6 DEF C
  <2> HIDE DEF part, parts
  <2> QED BY <1>7, <2>1
<1>9. part.signal = signal /\ part.value = value
  OBVIOUS
<1> HIDE DEF part, parts, after, value, n, claimed
<1>10. \A i \in DOMAIN after :
         /\ after[i].value <= Unit * after[i].signal.weight
         /\ Positive(after[i].signal) => Events(after[i].signal) \subseteq claimed
  <2> SUFFICES ASSUME NEW i \in 1..(n + 1)
               PROVE  /\ after[i].value <= Unit * after[i].signal.weight
                      /\ Positive(after[i].signal) => Events(after[i].signal) \subseteq claimed
    BY <1>8
  <2>1. CASE i \in 1..n
    <3>1. parts[i].value <= Unit * parts[i].signal.weight
          /\ (Positive(parts[i].signal) => Events(parts[i].signal) \subseteq tally.claimed)
      BY <1>8, <2>1 DEF EventsNamed, parts
    <3> QED BY <1>8, <2>1, <3>1 DEF claimed
  <2>2. CASE i = n + 1
    BY <1>3, <1>8, <1>9, <2>2 DEF claimed
  <2> QED BY <1>8, <2>1, <2>2
<1>11. \E g : OwnEvents(g, after)
  <2>1. PICK f : OwnEvents(f, parts)
    BY DEF EventsNamed, parts
  <2> DEFINE x == CHOOSE e : e \in Events(signal) \ tally.claimed
             g == [i \in 1..(n + 1) |-> IF i = n + 1 THEN x ELSE f[i]]
  <2>2. Positive(signal) /\ value > 0 => x \in Events(signal) /\ x \notin tally.claimed
    BY <1>4
  <2>3. \A i \in AddingOf(parts) : i \in 1..n /\ f[i] \in tally.claimed
    BY <1>8, <2>1 DEF OwnEvents, AddingOf, EventsNamed, parts
  <2>4. \A i \in AddingOf(after) : i \in AddingOf(parts) \/ (i = n + 1 /\ Positive(signal) /\ value > 0)
    BY <1>8, <1>9 DEF AddingOf
  <2>5. g[n + 1] = x /\ n + 1 \notin 1..n /\ \A i \in 1..n : g[i] = f[i]
    BY <1>8
  <2> HIDE DEF g, x
  <2>6. \A i \in AddingOf(after) : g[i] \in Events(after[i].signal)
    BY <1>8, <1>9, <2>1, <2>2, <2>3, <2>4, <2>5 DEF OwnEvents
  <2>7. ASSUME NEW i \in AddingOf(after), NEW j \in AddingOf(after), g[i] = g[j] PROVE i = j
    <3>1. CASE i \in AddingOf(parts) /\ j \in AddingOf(parts)
      BY <2>1, <2>3, <2>5, <2>7, <3>1 DEF OwnEvents
    <3>2. CASE i \in AddingOf(parts) /\ j = n + 1 /\ j \notin AddingOf(parts)
      BY <2>2, <2>3, <2>4, <2>5, <2>7, <3>2
    <3>3. CASE j \in AddingOf(parts) /\ i = n + 1 /\ i \notin AddingOf(parts)
      BY <2>2, <2>3, <2>4, <2>5, <2>7, <3>3
    <3> QED BY <2>4, <3>1, <3>2, <3>3
  <2>8. OwnEvents(g, after)
    BY <2>6, <2>7 DEF OwnEvents
  <2> QED BY <2>8
<1> QED BY <1>2, <1>5, <1>10, <1>11 DEF EventsNamed

LEMMA CountedSources ==
  ASSUME NEW signals \in Assessments, NEW k \in DOMAIN signals, signals[k].status = "supported",
         NEW tally \in Tallies(signals), SourcesAreFresh(tally, signals)
  PROVE  SourcesAreFresh(Counted(tally, signals[k]), signals)
<1> DEFINE signal == signals[k]
           worth == Counts(signal, Value(tally, signal))
<1>1. /\ Counted(tally, signal).publishers
           = tally.publishers \union IF worth THEN Publishers(signal) ELSE {}
      /\ Counted(tally, signal).credible = (tally.credible \/ (worth /\ signal.strength >= 7))
  BY DEF Counted
<1>2. worth => k \in FreshIn(signals)
  BY WorthIsFresh
<1>3. signal.strength \in Int
  BY SignalsAreAssessed DEF IsAssessed
<1> HIDE DEF worth
<1>4. Counted(tally, signal).publishers
        \subseteq UNION {Publishers(signals[i]) : i \in FreshIn(signals)}
  BY <1>1, <1>2 DEF SourcesAreFresh
<1>5. Counted(tally, signal).credible => \E i \in FreshIn(signals) : signals[i].strength > 4
  <2>1. CASE worth /\ signal.strength >= 7
    BY <1>2, <1>3, <2>1
  <2>2. CASE ~(worth /\ signal.strength >= 7)
    <3>1. Counted(tally, signal).credible = (tally.credible \/ FALSE)
      BY <1>1, <2>2
    <3>2. tally.credible \in BOOLEAN
      BY DEF Tallies
    <3> QED BY <3>1, <3>2 DEF SourcesAreFresh
  <2> QED BY <2>1, <2>2
<1> QED BY <1>4, <1>5 DEF SourcesAreFresh

LEMMA TalliedIsGood ==
  ASSUME NEW signals \in Assessments
  PROVE  Tallied(signals) \in GoodTallies(signals)
<1> DEFINE k == Len(signals)
<1>1. k \in Nat /\ DOMAIN signals = 1..k
  BY ScoringAssumption
<1>2. Tallied(signals) = TallyFold!Folded(0, Tally, signals, k)
  BY <1>1 DEF Tallied, CountedOf, FoldLeft, MapThenFoldSet, TallyFold!Folded, TallyFold!Iterates
<1>3. TallyFold!IsLast(k)
  BY <1>1, TallyFold!LastNatural DEF TallyFold!IsLast, Max
<1>4. Tally \in GoodTallies(signals)
  <2>1. Tally \in Tallies(signals)
    <3> DEFINE C == [signal : SupportedOf(signals), value : Nat]
    <3>1. <<>> \in Seq(C)
      OBVIOUS
    <3> HIDE DEF C
    <3> QED BY <3>1 DEF Tallies, Tally, C
  <2>2. AddingOf(<<>>) = {} /\ DOMAIN <<>> = {}
    BY DEF AddingOf
  <2>3. EventsNamed(Tally)
    <3>1. OwnEvents(0, <<>>)
      BY <2>2 DEF OwnEvents
    <3> QED BY <2>2, <3>1, FS_EmptySet DEF EventsNamed, Tally
  <2>4. SourcesAreFresh(Tally, signals)
    BY DEF SourcesAreFresh, Tally
  <2> QED BY <2>1, <2>3, <2>4 DEF GoodTallies
<1>5. ASSUME NEW i \in 1..k, NEW tally \in GoodTallies(signals)
      PROVE  CountedOf(0, tally, signals[i]) \in GoodTallies(signals)
  <2>1. CASE signals[i].status = "supported"
    <3>1. i \in DOMAIN signals /\ tally \in Tallies(signals) /\ EventsNamed(tally)
          /\ SourcesAreFresh(tally, signals)
      BY <1>1 DEF GoodTallies
    <3> QED BY <2>1, <3>1, CountedKeepsType, CountedNamesEvents, CountedSources
            DEF GoodTallies, CountedOf
  <2>2. CASE signals[i].status # "supported"
    BY <2>2 DEF CountedOf, Counted
  <2> QED BY <2>1, <2>2
<1> HIDE DEF k
<1>6. TallyFold!Folded(0, Tally, signals, k) \in GoodTallies(signals)
  BY <1>1, <1>3, <1>4, <1>5, TallyFold!FoldPreserves
<1> QED BY <1>2, <1>6

-----------------------------------------------------------------------------
(* Scoring: the invariant *)

\* A snapshot is the score of its input.
ScoreInv ==
  /\ scoreInput.signals \in Assessments
  /\ snapshot.is \in {"none", "refused", "scored"}
  /\ snapshot.is = "scored" => snapshot = Score(scoreInput.signals, scoreInput.criteria)

\* The strengthened invariant of a score: it is that of its input.
THEOREM ScoreInvariant == ScoringSpec => []ScoreInv
<1>1. ScoringInit => ScoreInv
  BY DEF ScoringInit, ScoreInv
<1>2. ScoreInv /\ [ScoringNext]_scoringVars => ScoreInv'
  <2> SUFFICES ASSUME ScoreInv, [ScoringNext]_scoringVars PROVE ScoreInv'
    OBVIOUS
  <2>1. CASE Calculate
    <3>1. UNCHANGED scoreInput
      BY <2>1 DEF Calculate
    <3>2. CASE Denominator(scoreInput.signals) <= 0
      <4>1. snapshot' = [is |-> "refused"]
        BY <2>1, <3>2 DEF Calculate
      <4> QED BY <3>1, <4>1 DEF ScoreInv
    <3>3. CASE ~(Denominator(scoreInput.signals) <= 0)
      <4>1. snapshot' = Score(scoreInput.signals, scoreInput.criteria)
        BY <2>1, <3>3 DEF Calculate
      <4>2. Score(scoreInput.signals, scoreInput.criteria).is = "scored"
        BY DEF Score
      <4> QED BY <3>1, <4>1, <4>2 DEF ScoreInv
    <3> QED BY <3>2, <3>3
  <2>2. CASE UNCHANGED scoringVars
    BY <2>2 DEF ScoreInv, scoringVars
  <2> QED BY <2>1, <2>2 DEF ScoringNext
<1> QED
  BY <1>1, <1>2, PTL DEF ScoringSpec

\* scoring/scorer.py: for any number of signals, weights, ages and citations, no more signals
\* add to a score than events are cited, and none counts above its weight.
THEOREM OneEventScoresOnce == ScoringSpec => []EventsCountOnce
<1>1. ScoreInv => EventsCountOnce
  <2> SUFFICES ASSUME ScoreInv, IsScored PROVE EventsCountOnce
    BY DEF EventsCountOnce
  <2> DEFINE tally == Tallied(scoreInput.signals)
             events == UNION {{item.event : item \in snapshot.parts[i].signal.items} : i \in Adding}
  <2>1. snapshot.parts = tally.parts
    BY DEF ScoreInv, IsScored, Score
  <2>2. EventsNamed(tally)
    BY TalliedIsGood DEF ScoreInv, GoodTallies
  <2> HIDE DEF tally
  <2>3. Adding = AddingOf(snapshot.parts)
    BY DEF Adding, AddingOf
  <2>4. events = UNION {Events(snapshot.parts[i].signal) : i \in Adding}
    BY DEF Events
  <2>5. PICK f : OwnEvents(f, snapshot.parts)
    BY <2>1, <2>2 DEF EventsNamed
  <2> DEFINE g == [i \in Adding |-> f[i]]
  <2> HIDE DEF events
  <2>6. g \in Injection(Adding, events)
    BY <2>3, <2>4, <2>5 DEF OwnEvents, Injection, IsInjective
  <2>7. IsFiniteSet(events)
    <3>1. events \subseteq tally.claimed
      BY <2>1, <2>2, <2>4 DEF EventsNamed, Adding
    <3> QED BY <2>2, <3>1, FS_Subset DEF EventsNamed
  <2>8. Cardinality(Adding) <= Cardinality(events)
    BY <2>6, <2>7, FS_Injection
  <2>9. \A i \in Adding : snapshot.parts[i].value <= Unit * snapshot.parts[i].signal.weight
    BY <2>1, <2>2 DEF EventsNamed, Adding
  <2> QED BY <2>8, <2>9 DEF EventsCountOnce, events
<1> QED
  BY <1>1, ScoreInvariant, PTL

\* scoring/scorer.py: whatever the signals and criteria, an eligible opportunity rests on fresh
\* evidence of two publishers and a signal that is more than weakly supported.
THEOREM EligibleRestsOnTwo == ScoringSpec => []EligibleIsCorroborated
<1>1. ScoreInv => EligibleIsCorroborated
  <2> SUFFICES ASSUME ScoreInv, IsScored, snapshot.eligibility = "eligible"
               PROVE  EligibleIsCorroborated
    BY DEF EligibleIsCorroborated
  <2> DEFINE signals == scoreInput.signals
             tally == Tallied(signals)
             publishers == UNION {{item.publisher : item \in signals[i].items} : i \in FreshIn(signals)}
  <2>1. signals \in Assessments
    BY DEF ScoreInv
  <2>2. tally.credible /\ ~(Low(2, Cardinality(tally.publishers)) < 2)
    BY DEF ScoreInv, IsScored, Score
  <2>3. SourcesAreFresh(tally, signals)
    BY <2>1, TalliedIsGood DEF GoodTallies
  <2> HIDE DEF tally, signals
  <2>4. tally.publishers \subseteq publishers
    BY <2>3 DEF SourcesAreFresh, Publishers
  <2>5. IsFiniteSet(publishers)
    <3> DEFINE P == {Publishers(signals[i]) : i \in FreshIn(signals)}
               h == [i \in FreshIn(signals) |-> Publishers(signals[i])]
    <3>1. IsFiniteSet(FreshIn(signals))
      <4>1. Len(signals) \in Nat /\ DOMAIN signals = 1..Len(signals)
        BY <2>1, ScoringAssumption
      <4>2. FreshIn(signals) \subseteq 1..Len(signals)
        BY <4>1 DEF FreshIn
      <4>3. IsFiniteSet(1..Len(signals))
        BY <4>1, FS_Interval
      <4> QED BY <4>2, <4>3, FS_Subset
    <3>2. h \in Surjection(FreshIn(signals), P)
      BY DEF Surjection
    <3>3. IsFiniteSet(P)
      BY <3>1, <3>2, FS_Surjection
    <3>4. \A Q \in P : IsFiniteSet(Q)
      <4>1. ASSUME NEW i \in FreshIn(signals) PROVE IsFiniteSet(Publishers(signals[i]))
        BY <2>1, SignalsAreAssessed, EventsAreFinite DEF FreshIn, IsAssessed
      <4> QED BY <4>1
    <3>5. publishers = UNION P
      BY DEF Publishers
    <3> HIDE DEF P, publishers
    <3> QED BY <3>3, <3>4, <3>5, FS_UNION
  <2> HIDE DEF publishers
  <2>6. Cardinality(publishers) >= 2
    <3>1. /\ Cardinality(tally.publishers) \in Nat /\ Cardinality(publishers) \in Nat
          /\ Cardinality(tally.publishers) <= Cardinality(publishers)
      BY <2>4, <2>5, FS_Subset, FS_CardinalityType
    <3> QED BY <2>2, <3>1 DEF Low
  <2>7. \E i \in FreshIn(signals) : signals[i].strength > 4
    BY <2>2, <2>3 DEF SourcesAreFresh
  <2> QED BY <2>6, <2>7 DEF EligibleIsCorroborated, FreshIn, signals, publishers
<1> QED
  BY <1>1, ScoreInvariant, PTL

-----------------------------------------------------------------------------
(* ICP evaluation: the criteria of a version *)

HeadCounts == Nat \union {Unknown}

LEMMA RangeType ==
  ASSUME NEW p \in DOMAIN Phrases
  PROVE  EmployeeRange(Phrases[p]) \in [minimum : HeadCounts, maximum : HeadCounts]
<1> DEFINE m == Phrases[p]
<1>1. /\ m.least \in HeadCounts /\ m.most \in HeadCounts /\ m.bare \in HeadCounts
      /\ m.range # <<>> => m.range[1] \in Nat /\ m.range[2] \in Nat
  BY IcpAssumption DEF HeadCounts
<1>2. \A n \in Nat : Bounded(n) \in HeadCounts
  BY IcpAssumption DEF Bounded, HeadCounts
<1>3. \A a, b \in Nat : Ordered(a, b) \in [minimum : HeadCounts, maximum : HeadCounts]
  BY <1>2 DEF Ordered, Band
<1>4. \A a, b \in HeadCounts : Band(a, b) \in [minimum : HeadCounts, maximum : HeadCounts]
  BY DEF Band
<1>5. Unknown \in HeadCounts /\ \A h \in HeadCounts : h # Unknown => h \in Nat
  BY DEF HeadCounts
<1> HIDE DEF m, HeadCounts
<1> QED BY <1>1, <1>2, <1>3, <1>4, <1>5 DEF EmployeeRange, Open, m

\* A version states a key once, and head counts are numbers.
LEMMA StoredOnce ==
  ASSUME NEW v \in Versions, NEW c \in StoredCriteria(v)
  PROVE  /\ c.key \in CriterionKeys
         /\ \A d \in StoredCriteria(v) : d.key = c.key => d = c
         /\ c.employees.minimum \in HeadCounts /\ c.employees.maximum \in HeadCounts
<1>1. CASE v.typed
  BY <1>1, IcpAssumption DEF StoredCriteria, HeadCounts
<1>2. CASE ~v.typed
  <2> DEFINE icp == v.icp
             stated(key) == (UNION {icp[k] : k \in {k \in DOMAIN icp : Alias(k) = key}}) \ NoRestriction
             size(key) == IF key = "company_size" /\ stated(key) # {}
                          THEN EmployeeRange(Phrases[CHOOSE p \in stated(key) : TRUE]) ELSE Open
             of(key) == Criterion(key, stated(key), size(key))
  <2>1. StoredCriteria(v) = {of(key) : key \in {k \in CriterionKeys : stated(k) # {}}}
    BY <1>2 DEF StoredCriteria, FromLegacy
  <2>2. \A key : of(key).key = key /\ of(key).employees = size(key)
    BY DEF Criterion
  <2>3. \A key : size(key).minimum \in HeadCounts /\ size(key).maximum \in HeadCounts
    <3> SUFFICES ASSUME NEW key PROVE size(key).minimum \in HeadCounts /\ size(key).maximum \in HeadCounts
      OBVIOUS
    <3>1. CASE key = "company_size" /\ stated(key) # {}
      <4> DEFINE p == CHOOSE p \in stated(key) : TRUE
      <4>1. p \in stated("company_size")
        BY <3>1
      <4> HIDE DEF p
      <4>2. PICK k \in DOMAIN icp : Alias(k) = "company_size" /\ p \in icp[k] /\ p \notin NoRestriction
        <5> DEFINE named == {k \in DOMAIN icp : Alias(k) = "company_size"}
        <5>1. p \in UNION {icp[k] : k \in named} /\ p \notin NoRestriction
          BY <4>1
        <5> HIDE DEF named, icp
        <5>2. \E k \in named : p \in icp[k]
          BY <5>1
        <5> QED BY <5>1, <5>2 DEF named
      <4>3. p \in DOMAIN Phrases
        BY <1>2, <4>2, IcpAssumption
      <4>4. size(key) = EmployeeRange(Phrases[p])
        BY <3>1 DEF p
      <4> HIDE DEF size
      <4> QED BY <4>3, <4>4, RangeType
    <3>2. CASE ~(key = "company_size" /\ stated(key) # {})
      BY <3>2 DEF Open, Band, HeadCounts
    <3> QED BY <3>1, <3>2
  <2> HIDE DEF of, size, stated
  <2> QED BY <2>1, <2>2, <2>3
<1> QED BY <1>1, <1>2

\* The search reads the criterion that the scorer reads.
LEMMA SearchReads ==
  ASSUME NEW v \in Versions, NEW c \in EffectiveCriteria(v)
  PROVE  CriterionOf(v, c.key) = c
<1>1. c \in StoredCriteria(v)
  BY DEF EffectiveCriteria
<1>2. \A d \in StoredCriteria(v) : d.key = c.key => d = c
  BY <1>1, StoredOnce
<1> QED BY <1>1, <1>2 DEF CriterionOf

LEMMA CriterionType ==
  ASSUME NEW v \in Versions, NEW key
  PROVE  CriterionOf(v, key).employees.minimum \in HeadCounts
<1> DEFINE criteria == {c \in StoredCriteria(v) : c.key = key}
<1>1. CASE criteria = {}
  BY <1>1 DEF CriterionOf, Criterion, Open, Band, HeadCounts
<1>2. CASE criteria # {}
  <2>1. CriterionOf(v, key) \in StoredCriteria(v)
    BY <1>2 DEF CriterionOf
  <2> QED BY <2>1, StoredOnce
<1> QED BY <1>1, <1>2

-----------------------------------------------------------------------------
(* ICP evaluation: search, qualification and answers *)

AgreeOn(facts, company) ==
  /\ facts.industry = company.industry /\ facts.geography = CountryName[company.country]
  /\ facts.company_size = company.employees

\* A company that qualification lets pass is in a country that the criterion names.
LEMMA GeographyAgrees ==
  ASSUME NEW v \in Versions, NEW c \in EffectiveCriteria(v), c.key = "geography",
         NEW company, Qualification(company, ProfileSearch(v)) # "out",
         NEW facts, AgreeOn(facts, company)
  PROVE  CriterionAnswer(c, facts) # "missed"
<1>1. CriterionOf(v, "geography") = c /\ IsRestrictive(c)
  BY SearchReads DEF EffectiveCriteria
<1>2. c.values \ {""} # {} /\ ~IsWorldwide(c.values)
  BY <1>1 DEF IsRestrictive
<1>3. SUFFICES ASSUME Unresolved(c.values) = {} PROVE MatchGeography(c, facts.geography) # "missed"
  BY DEF CriterionAnswer, MatchGeography
<1>4. PICK place \in c.values : place # ""
  BY <1>2
<1>5. place \in DOMAIN Codes
  BY <1>2, <1>3, <1>4 DEF Unresolved, IsWorldwide
<1>6. Resolved(c.values) # {} /\ Resolved(c.values) \subseteq DOMAIN CountryName
  <2>1. \A p \in DOMAIN Codes : Codes[p] # {} /\ Codes[p] \subseteq DOMAIN CountryName
    BY IcpAssumption
  <2>2. Codes[place] # {} /\ Codes[place] \subseteq Resolved(c.values)
    BY <1>4, <1>5, <2>1 DEF Resolved
  <2>3. Resolved(c.values) \subseteq DOMAIN CountryName
    BY <2>1 DEF Resolved
  <2> QED BY <2>2, <2>3
<1>7. ProfileSearch(v).countries = Resolved(c.values)
  BY <1>1, <1>2, <1>6 DEF ProfileSearch
<1>8. company.country \in Resolved(c.values)
  BY <1>6, <1>7 DEF Qualification, WrongCountry
<1>9. PossibleCountries(facts.geography) = {} \/ company.country \in PossibleCountries(facts.geography)
  BY <1>6, <1>8, IcpAssumption DEF PossibleCountries, AgreeOn
<1> QED BY <1>8, <1>9 DEF MatchGeography

LEMMA IndustryAgrees ==
  ASSUME NEW v \in Versions, NEW c \in EffectiveCriteria(v), c.key = "industry",
         NEW company, Qualification(company, ProfileSearch(v)) # "out",
         NEW facts, AgreeOn(facts, company)
  PROVE  CriterionAnswer(c, facts) # "missed"
<1>1. CriterionOf(v, "industry") = c /\ IsRestrictive(c)
  BY SearchReads DEF EffectiveCriteria
<1>2. c.values # {}
  BY <1>1 DEF IsRestrictive
<1>3. Industries(ProfileSearch(v)) = c.values
  BY <1>1 DEF Industries, ProfileSearch
<1>4. company.industry = Unknown \/ MatchesIndustry(company.industry, c.values)
  BY <1>2, <1>3 DEF Qualification, WrongIndustry
<1>5. facts.industry = company.industry
  BY DEF AgreeOn
<1> QED BY <1>4, <1>5 DEF CriterionAnswer, MatchIndustry, MatchesIndustry, SomeIn

\* The search asks for the size of the criterion, but for its maximum.
LEMMA SizeAgrees ==
  ASSUME NEW v \in Versions, NEW c \in EffectiveCriteria(v), c.key = "company_size",
         NEW company, company.employees \in HeadCounts,
         LargeEnough(company.employees, ProfileSearch(v)),
         NEW facts, AgreeOn(facts, company), CriterionAnswer(c, facts) = "missed"
  PROVE  facts.company_size # Unknown /\ facts.company_size > c.employees.maximum
<1>1. CriterionOf(v, "company_size") = c /\ c \in StoredCriteria(v)
  BY SearchReads DEF EffectiveCriteria
<1>2. /\ ProfileSearch(v).unknown = c.includeUnknown
      /\ ProfileSearch(v).minimum
           = IF c.employees.minimum = Unknown THEN 1 ELSE c.employees.minimum
  BY <1>1 DEF ProfileSearch, IncludeUnknownSize
<1>3. c.employees.minimum \in HeadCounts
  BY <1>1, StoredOnce
<1>4. facts.company_size = company.employees
  BY DEF AgreeOn
<1>5. MatchCompanySize(c, company.employees) = "missed"
  BY <1>4 DEF CriterionAnswer
<1>6. company.employees # Unknown
  BY <1>2, <1>5 DEF LargeEnough, MatchCompanySize
<1>7. company.employees \in Nat /\ company.employees >= ProfileSearch(v).minimum
  BY <1>6 DEF LargeEnough, HeadCounts
<1>8. ~(c.employees.minimum # Unknown /\ company.employees < c.employees.minimum)
  BY <1>2, <1>3, <1>7 DEF HeadCounts
<1>9. company.employees > c.employees.maximum
  BY <1>5, <1>6, <1>8 DEF MatchCompanySize
<1> QED BY <1>4, <1>6, <1>9

\* A version that is searched names no place that is not understood, and what is confirmed
\* was found by its search and passed qualification.
IcpInv ==
  /\ icpCase = [at |-> icpCase.at, version |-> icpCase.version, facts |-> icpCase.facts]
  /\ icpCase.version \in Versions
  /\ icpCase.at \in {"saved", "not searchable", "rejected", "searched", "confirmed"}
  /\ icpCase.at = "saved" => icpCase.facts = NoFacts
  /\ icpCase.at = "searched" => icpCase.facts = NoFacts
  /\ icpCase.at \in {"searched", "confirmed"} =>
       Unresolved(CriterionOf(icpCase.version, "geography").values) = {}
  /\ icpCase.at = "confirmed" =>
       \E company : /\ company.employees \in HeadCounts
                    /\ LargeEnough(company.employees, ProfileSearch(icpCase.version))
                    /\ Qualification(company, ProfileSearch(icpCase.version)) # "out"
                    /\ AgreeOn(icpCase.facts, company)

LEMMA ConfirmedCompany ==
  ASSUME NEW v \in Versions, NEW i \in DOMAIN FromWikidata(ProfileSearch(v))
  PROVE  /\ FromWikidata(ProfileSearch(v))[i].employees \in HeadCounts
         /\ LargeEnough(FromWikidata(ProfileSearch(v))[i].employees, ProfileSearch(v))
<1> DEFINE q == ProfileSearch(v)
           F == Fitting(q)
           found == FromWikidata(q)
<1>1. q.limit \in Nat /\ q.minimum \in Nat
  BY CriterionType, IcpAssumption DEF ProfileSearch, HeadCounts
<1>2. found \in Seq(F)
  BY <1>1, FromWikidataType
<1>3. found[i] \in F
  <2> HIDE DEF F, found
  <2> QED BY <1>2 DEF found
<1> HIDE DEF q, found
<1> QED BY <1>3 DEF Fitting, CompanyRows, HeadCounts, found, q

LEMMA IcpStep == IcpInv /\ [IcpNext]_icpCase => IcpInv'
<1> SUFFICES ASSUME IcpInv, [IcpNext]_icpCase PROVE IcpInv'
  OBVIOUS
<1>1. CASE Search
  <2> DEFINE at == IF Unresolved(CriterionOf(icpCase.version, "geography").values) # {}
                   THEN "not searchable"
                   ELSE IF RequestAccepted(ProfileSearch(icpCase.version)) THEN "searched" ELSE "rejected"
  <2>1. icpCase' = [at |-> at, version |-> icpCase.version, facts |-> icpCase.facts]
        /\ icpCase.facts = NoFacts
    BY <1>1 DEF Search, IcpInv
  <2>2. /\ at \in {"not searchable", "rejected", "searched"}
        /\ at = "searched" => Unresolved(CriterionOf(icpCase.version, "geography").values) = {}
    OBVIOUS
  <2> HIDE DEF at
  <2> QED BY <2>1, <2>2 DEF IcpInv
<1>2. CASE ConfirmCandidate
  <2> DEFINE v == icpCase.version
             found == FromWikidata(ProfileSearch(v))
  <2>1. PICK i \in DOMAIN found :
          /\ Qualification(found[i], ProfileSearch(v)) # "out"
          /\ icpCase' = [icpCase EXCEPT !.at = "confirmed",
               !.facts = [@ EXCEPT !.geography = CountryName[found[i].country],
                                   !.industry = found[i].industry,
                                   !.company_size = found[i].employees]]
    BY <1>2 DEF ConfirmCandidate
  <2>2. v \in Versions /\ icpCase.at = "searched"
    BY <1>2 DEF ConfirmCandidate, IcpInv
  <2>3. found[i].employees \in HeadCounts /\ LargeEnough(found[i].employees, ProfileSearch(v))
    BY <2>2, ConfirmedCompany
  <2> HIDE DEF found
  <2>4. PICK facts :
          /\ facts = [NoFacts EXCEPT !.geography = CountryName[found[i].country],
                                     !.industry = found[i].industry,
                                     !.company_size = found[i].employees]
          /\ icpCase' = [at |-> "confirmed", version |-> v, facts |-> facts]
    BY <2>1, <2>2 DEF IcpInv
  <2>5. AgreeOn(facts, found[i])
    BY <2>4 DEF AgreeOn, NoFacts
  <2>6. Unresolved(CriterionOf(v, "geography").values) = {}
    BY <2>2 DEF IcpInv
  <2> HIDE DEF v
  <2>7. /\ icpCase'.at = "confirmed" /\ icpCase'.version = v /\ icpCase'.facts = facts
        /\ icpCase' = [at |-> icpCase'.at, version |-> icpCase'.version, facts |-> icpCase'.facts]
    BY <2>4
  <2>8. \E company : /\ company.employees \in HeadCounts
                     /\ LargeEnough(company.employees, ProfileSearch(v))
                     /\ Qualification(company, ProfileSearch(v)) # "out"
                     /\ AgreeOn(facts, company)
    BY <2>1, <2>3, <2>5
  <2> QED BY <2>2, <2>6, <2>7, <2>8 DEF IcpInv
<1>3. CASE UNCHANGED icpCase
  BY <1>3 DEF IcpInv
<1> QED BY <1>1, <1>2, <1>3 DEF IcpNext

\* The strengthened invariant of a profile version on its way from search to evaluation.
THEOREM IcpInvariant == IcpSpec => []IcpInv
<1>1. IcpInit => IcpInv
  BY DEF IcpInit, IcpInv
<1> QED
  BY <1>1, IcpStep, PTL DEF IcpSpec

\* icp/geography.py: for any profile, places, phrases and companies, what the search of a
\* profile finds is no mismatch of it but for its size, and what the scorer cannot compare
\* is not searched.
THEOREM SearchAndScorerAgree == IcpSpec => []SearchAgreesWithScorer
<1>1. IcpInv => SearchAgreesWithScorer
  <2> SUFFICES ASSUME IcpInv PROVE SearchAgreesWithScorer
    OBVIOUS
  <2> DEFINE v == icpCase.version
             facts == icpCase.facts
  <2>1. v \in Versions
    BY DEF IcpInv
  <2>2. ASSUME icpCase.at = "confirmed", NEW c \in EffectiveCriteria(v),
               CriterionAnswer(c, facts) = "missed"
        PROVE  c.key = "company_size" /\ facts.company_size # Unknown
               /\ facts.company_size > c.employees.maximum
    <3>1. PICK company : /\ company.employees \in HeadCounts
                         /\ LargeEnough(company.employees, ProfileSearch(v))
                         /\ Qualification(company, ProfileSearch(v)) # "out"
                         /\ AgreeOn(facts, company)
      BY <2>2 DEF IcpInv
    <3> HIDE DEF v, facts
    <3>2. c.key \notin {"geography", "industry"}
      BY <2>1, <2>2, <3>1, GeographyAgrees, IndustryAgrees
    <3>3. c.key \in CriterionKeys
      BY <2>1, StoredOnce DEF EffectiveCriteria
    <3>4. c.key # "operational_complexity"
      BY <2>2 DEF CriterionAnswer, MatchOperationalComplexity
    <3>5. c.key = "company_size"
      BY <3>2, <3>3, <3>4 DEF CriterionKeys
    <3> QED BY <2>1, <2>2, <3>1, <3>5, SizeAgrees
  <2>3. ASSUME icpCase.at \in {"searched", "confirmed"}, NEW c \in EffectiveCriteria(v),
               c.key = "geography"
        PROVE  Unresolved(c.values) = {}
    BY <2>1, <2>3, SearchReads DEF IcpInv
  <2>4. \A c \in EffectiveCriteria(v) :
          Evaluated(EffectiveCriteria(v), facts)[c] = CriterionAnswer(c, facts)
    BY DEF Evaluated
  <2> QED BY <2>2, <2>3, <2>4 DEF SearchAgreesWithScorer
<1> QED
  BY <1>1, IcpInvariant, PTL
=============================================================================

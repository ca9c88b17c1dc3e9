------------------------------- MODULE Profiles -------------------------------
(***************************************************************************)
(* api/profiles.py: a service profile is a row with a list of immutable    *)
(* versions, which research runs, assessments and scores refer to.  An     *)
(* update loads the list and appends the next version; two updates that    *)
(* load the same list meet the unique key (profile_id, version).           *)
(***************************************************************************)
EXTENDS Integers, Sequences

CONSTANTS
  ProfileNames,  \* names a profile can be given
  Editors        \* requests, each with a configuration of its own

VARIABLES
  profile,   \* the committed row: its name and its versions by number
  edits      \* requests: the versions and the name loaded, the name asked for

profileVars == <<profile, edits>>

\* No name: the profile is not there; no name in a request: it keeps the name.
NoName == "no name"
Names == ProfileNames \union {NoName}

ASSUME ProfilesAssumption == NoName \notin ProfileNames

ProfilesInit ==
  /\ profile = [name |-> NoName, versions |-> <<>>]
  /\ edits = [e \in Editors |->
       [at |-> "idle", seen |-> 0, was |-> NoName, name |-> NoName, version |-> 0]]

\* create_profile: the row and its first version in one transaction.
CreateProfile(e, name) ==
  /\ edits[e].at = "idle" /\ profile.name = NoName
  /\ profile' = [name |-> name, versions |-> <<e>>]
  /\ edits' = [edits EXCEPT ![e].at = "ok", ![e].version = 1]

\* update_profile loads the profile with its versions in number order.
LoadProfile(e, name) ==
  /\ edits[e].at = "idle"
  /\ edits' = [edits EXCEPT ![e] =
       [at |-> IF profile.name = NoName THEN "not found" ELSE "loaded",
        seen |-> Len(profile.versions), was |-> profile.name, name |-> name, version |-> 0]]
  /\ UNCHANGED profile

\* Mutant: the row number is not unique.
NextVersionFree(e) == TRUE

\* uq_profile_version: the number after the last one loaded is not taken yet.
VersionFree(e) == edits[e].seen + 1 \notin DOMAIN profile.versions

\* The commit; the name is written when it differs from the loaded one.
CommitVersion(e) ==
  /\ edits[e].at = "loaded"
  /\ LET version == edits[e].seen + 1
         renamed == edits[e].name \notin {NoName, edits[e].was}
     IN  IF VersionFree(e)
         THEN /\ profile' = [name |-> IF renamed THEN edits[e].name ELSE profile.name,
                             versions |-> Append(profile.versions, e)]
              /\ edits' = [edits EXCEPT ![e].at = "ok", ![e].version = version]
         ELSE /\ edits' = [edits EXCEPT ![e].at = "error"]
              /\ UNCHANGED profile

ProfilesNext ==
  \E e \in Editors :
    \/ \E name \in ProfileNames : CreateProfile(e, name)
    \/ \E name \in Names : LoadProfile(e, name)
    \/ CommitVersion(e)

ProfilesSpec == ProfilesInit /\ [][ProfilesNext]_profileVars

-----------------------------------------------------------------------------
\* The answer of an update names the version under which its configuration is stored,
\* for good: what a research run was assessed against can always be read again.  A
\* refused update has stored nothing.
AnsweredVersionStands ==
  /\ \A e \in Editors :
       /\ edits[e].at = "ok" => edits[e].version \in DOMAIN profile.versions
                                  /\ profile.versions[edits[e].version] = e
       /\ edits[e].at = "error" => \A v \in DOMAIN profile.versions : profile.versions[v] # e
  /\ \A v, w \in DOMAIN profile.versions :
       profile.versions[v] = profile.versions[w] => v = w
=============================================================================

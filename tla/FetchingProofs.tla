---------------------------- MODULE FetchingProofs ----------------------------
(***************************************************************************)
(* Fetching, for any number of threads, of DNS slots and of requests and   *)
(* bytes of a rendered page: DNS slots are counted right, no page that the *)
(* watchdog cut is taken for whole, and the browser stays down.  And the   *)
(* news search beside it: requests to GDELT are spaced, for any number of  *)
(* research slots, queries and answers and any interval.                   *)
(***************************************************************************)
EXTENDS Fetching, NewsSearch, FiniteSetTheorems, TLAPS

Steps == {"idle", "resolving", "resolved", "connecting", "wrapping", "waiting", "reading",
          "read", "shell", "rendering"}

Endings == {"", "dns_busy", "failed", "timeout", "redirect", "page"}

FetchRecords == [at : Steps, late : BOOLEAN, shut : BOOLEAN, armed : BOOLEAN,
                 cut : {"", "watchdog", "peer"}, answer : Endings]

LookupRecords == [of : Callers \union {Nobody}, at : {"queued", "looking", "ending"}]

-----------------------------------------------------------------------------
(* Sequences *)

LEMMA Removed ==
  ASSUME NEW S, NEW s \in Seq(S), NEW i \in 1..Len(s)
  PROVE  /\ RemoveAt(s, i) \in Seq(S)
         /\ Len(RemoveAt(s, i)) = Len(s) - 1
         /\ \A k \in 1..(Len(s) - 1) : RemoveAt(s, i)[k] = IF k < i THEN s[k] ELSE s[k + 1]
<1> DEFINE before == SubSeq(s, 1, i - 1)
           after == SubSeq(s, i + 1, Len(s))
<1>1. /\ before \in Seq(S) /\ Len(before) = i - 1
      /\ \A k \in 1..(i - 1) : before[k] = s[k]
  OBVIOUS
<1>2. /\ after \in Seq(S) /\ Len(after) = Len(s) - i
      /\ \A k \in 1..(Len(s) - i) : after[k] = s[i + k]
  OBVIOUS
<1>3. RemoveAt(s, i) = before \o after
  BY DEF RemoveAt
<1> HIDE DEF before, after
<1>4. before \o after \in Seq(S) /\ Len(before \o after) = Len(s) - 1
  BY <1>1, <1>2
<1>5. ASSUME NEW k \in 1..(Len(s) - 1)
      PROVE  (before \o after)[k] = IF k < i THEN s[k] ELSE s[k + 1]
  <2>1. CASE k < i
    BY <1>1, <1>2, <2>1
  <2>2. CASE ~(k < i)
    <3>1. (before \o after)[k] = after[k - (i - 1)]
      BY <1>1, <1>2, <2>2
    <3>2. after[k - (i - 1)] = s[i + (k - (i - 1))]
      BY <1>2, <2>2
    <3>3. i + (k - (i - 1)) = k + 1
      OBVIOUS
    <3> QED
      BY <2>2, <3>1, <3>2, <3>3
  <2> QED
    BY <2>1, <2>2
<1> QED
  BY <1>3, <1>4, <1>5

\* A lookup goes on to its next state.
LEMMA StepOf ==
  ASSUME lookups \in Seq(LookupRecords), NEW i \in DOMAIN lookups,
         NEW at \in {"queued", "looking", "ending"}, lookups' = [lookups EXCEPT ![i].at = at]
  PROVE  /\ lookups' \in Seq(LookupRecords) /\ Len(lookups') = Len(lookups)
         /\ DOMAIN lookups' = DOMAIN lookups
         /\ \A k \in DOMAIN lookups : /\ lookups'[k].at = IF k = i THEN at ELSE lookups[k].at
                                      /\ lookups'[k].of = lookups[k].of
<1>1. lookups[i] \in LookupRecords
  OBVIOUS
<1>2. [lookups[i] EXCEPT !.at = at] \in LookupRecords
  BY <1>1 DEF LookupRecords
<1>3. lookups' = [lookups EXCEPT ![i] = [lookups[i] EXCEPT !.at = at]]
  OBVIOUS
<1>4. lookups' \in Seq(LookupRecords) /\ Len(lookups') = Len(lookups)
  BY <1>2, <1>3
<1>5. \A k \in DOMAIN lookups : lookups[k] \in LookupRecords
  OBVIOUS
<1> QED
  BY <1>1, <1>3, <1>4, <1>5 DEF LookupRecords

\* A caller does not wait for its lookups any more.
LEMMA GivenUp ==
  ASSUME lookups \in Seq(LookupRecords), NEW c \in Callers,
         lookups' = [i \in DOMAIN lookups |->
           IF lookups[i].of = c THEN [lookups[i] EXCEPT !.of = Nobody] ELSE lookups[i]]
  PROVE  /\ lookups' \in Seq(LookupRecords) /\ Len(lookups') = Len(lookups)
         /\ DOMAIN lookups' = DOMAIN lookups
         /\ \A i \in DOMAIN lookups :
              /\ lookups'[i].at = lookups[i].at
              /\ lookups'[i].of = IF lookups[i].of = c THEN Nobody ELSE lookups[i].of
<1>1. DOMAIN lookups = 1..Len(lookups) /\ Len(lookups) \in Nat
  OBVIOUS
<1>2. ASSUME NEW i \in DOMAIN lookups
      PROVE  lookups[i] \in LookupRecords /\ lookups'[i] \in LookupRecords
  <2>1. lookups[i] \in LookupRecords
    OBVIOUS
  <2>2. [lookups[i] EXCEPT !.of = Nobody] \in LookupRecords
    BY <2>1 DEF LookupRecords
  <2> QED
    BY <2>1, <2>2
<1>3. lookups' \in [1..Len(lookups) -> LookupRecords]
  BY <1>1, <1>2
<1>4. lookups' \in Seq(LookupRecords) /\ Len(lookups') = Len(lookups)
  BY <1>1, <1>3
<1> QED
  BY <1>2, <1>4 DEF LookupRecords

-----------------------------------------------------------------------------
(* DNS slots *)

\* The lookups that hold a slot.
Held == {i \in DOMAIN lookups : HoldsSlot(lookups[i])}

SlotInv ==
  /\ lookups \in Seq(LookupRecords)
  /\ Cardinality(Held) <= DnsSlots

LEMMA HeldIsFinite ==
  ASSUME lookups \in Seq(LookupRecords)
  PROVE  IsFiniteSet(Held) /\ Cardinality(Held) \in Nat
<1>1. DOMAIN lookups = 1..Len(lookups) /\ Len(lookups) \in Nat
  OBVIOUS
<1>2. IsFiniteSet(DOMAIN lookups)
  BY <1>1, FS_Interval
<1> QED
  BY <1>2, FS_Subset, FS_CardinalityType DEF Held

\* Lookups that keep their number and at most give up their slots.
LEMMA SameLookups ==
  ASSUME SlotInv, lookups' \in Seq(LookupRecords), Len(lookups') = Len(lookups),
         \A i \in DOMAIN lookups : HoldsSlot(lookups'[i]) => HoldsSlot(lookups[i])
  PROVE  SlotInv'
<1>1. Held' \subseteq Held
  BY DEF Held, SlotInv
<1>2. Cardinality(Held') <= Cardinality(Held) /\ Cardinality(Held) \in Nat
  BY <1>1, HeldIsFinite, FS_Subset DEF SlotInv
<1>3. Cardinality(Held') \in Nat
  BY <1>1, HeldIsFinite, FS_Subset, FS_CardinalityType DEF SlotInv
<1> QED
  BY <1>2, <1>3, FetchingAssumption DEF SlotInv

LEMMA ResolveCounts ==
  ASSUME SlotInv, NEW c \in Callers, Resolve(c)
  PROVE  SlotInv'
<1>1. CASE UNCHANGED lookups
  BY <1>1 DEF SlotInv, Held
<1>2. CASE lookups' = Append(lookups, [of |-> c, at |-> "queued"]) /\ Cardinality(Held) < DnsSlots
  <2> DEFINE n == Len(lookups) + 1
  <2>1. /\ lookups' \in Seq(LookupRecords) /\ Len(lookups') = n
        /\ \A i \in 1..Len(lookups) : lookups'[i] = lookups[i]
        /\ lookups'[n] = [of |-> c, at |-> "queued"]
    BY <1>2 DEF SlotInv, LookupRecords
  <2>2. Held' = Held \union {n}
    BY <2>1 DEF Held, SlotInv, HoldsSlot
  <2>3. Cardinality(Held') <= Cardinality(Held) + 1 /\ Cardinality(Held) \in Nat
    <3>1. IsFiniteSet(Held) /\ Cardinality(Held) \in Nat
      BY HeldIsFinite DEF SlotInv
    <3>2. Cardinality(Held \union {n})
            = IF n \in Held THEN Cardinality(Held) ELSE Cardinality(Held) + 1
      BY <3>1, FS_AddElement
    <3> HIDE DEF n
    <3> QED
      BY <2>2, <3>1, <3>2
  <2>4. Cardinality(Held') \in Nat
    BY <2>2, HeldIsFinite, FS_AddElement, FS_CardinalityType DEF SlotInv
  <2> QED
    BY <1>2, <2>1, <2>3, <2>4, FetchingAssumption DEF SlotInv
<1> QED
  BY <1>1, <1>2, HeldIsFinite, FetchingAssumption DEF Resolve, Held, SlotInv

LEMMA EndCounts ==
  ASSUME SlotInv, NEW i, NEW addresses, LookupEnds(i, addresses)
  PROVE  SlotInv'
<1>1. i \in 1..Len(lookups) /\ lookups' = RemoveAt(lookups, i)
  BY DEF LookupEnds, SlotInv
<1>2. /\ lookups' \in Seq(LookupRecords) /\ Len(lookups') = Len(lookups) - 1
      /\ \A k \in 1..(Len(lookups) - 1) :
           lookups'[k] = IF k < i THEN lookups[k] ELSE lookups[k + 1]
  BY <1>1, Removed DEF SlotInv
<1> DEFINE f == [k \in Held' |-> IF k < i THEN k ELSE k + 1]
<1>3. DOMAIN lookups' = 1..(Len(lookups) - 1) /\ DOMAIN lookups = 1..Len(lookups) /\ Len(lookups) \in Nat
  BY <1>2 DEF SlotInv
<1>4. f \in [Held' -> Held]
  <2> SUFFICES ASSUME NEW k \in Held' PROVE (IF k < i THEN k ELSE k + 1) \in Held
    OBVIOUS
  <2>1. k \in 1..(Len(lookups) - 1) /\ HoldsSlot(lookups'[k])
    BY <1>3 DEF Held, HoldsSlot
  <2> QED
    BY <1>1, <1>2, <1>3, <2>1 DEF Held
<1>5. \A k, m \in Held' : f[k] = f[m] => k = m
  BY <1>1, <1>3 DEF Held
<1>6. f \in Injection(Held', Held)
  BY <1>4, <1>5 DEF Injection, IsInjective
<1>7. Cardinality(Held') <= Cardinality(Held) /\ IsFiniteSet(Held')
  BY <1>6, HeldIsFinite, FS_Injection DEF SlotInv
<1>8. Cardinality(Held') \in Nat /\ Cardinality(Held) \in Nat
  BY <1>7, HeldIsFinite, FS_CardinalityType DEF SlotInv
<1> QED
  BY <1>2, <1>7, <1>8, FetchingAssumption DEF SlotInv

LEMMA SlotsCounted ==
  ASSUME SlotInv, [FetchingNext]_fetchingVars
  PROVE  SlotInv'
<1>1. CASE UNCHANGED lookups
  BY <1>1 DEF SlotInv, Held
<1>2. ASSUME NEW c \in Callers, Fetch(c)
      PROVE  SlotInv'
  <2>1. CASE Resolve(c)
    BY <2>1, ResolveCounts
  <2>2. CASE LookupTimesOut(c)
    <3>1. /\ lookups' \in Seq(LookupRecords) /\ Len(lookups') = Len(lookups)
          /\ \A i \in DOMAIN lookups : lookups'[i].at = lookups[i].at
      BY <2>2, GivenUp DEF LookupTimesOut, SlotInv
    <3> QED
      BY <3>1, SameLookups DEF HoldsSlot
  <2>3. CASE ~Resolve(c) /\ ~LookupTimesOut(c)
    BY <1>1, <1>2, <2>3 DEF Fetch, DeadlinePasses, Connect, WatchdogFires, Wrap, SendRequest,
      FetchBreaks, ReadBody, ReturnBody, Headers, AskRender, RenderTimesOut, OnlyFetches
  <2> QED
    BY <2>1, <2>2, <2>3
<1>3. CASE StartLookup
  <2>1. PICK i \in Queued : lookups' = [lookups EXCEPT ![i].at = "looking"]
    BY <1>3 DEF StartLookup
  <2>2. i \in DOMAIN lookups /\ lookups[i].at = "queued"
    BY <2>1 DEF Queued
  <2>3. /\ lookups' \in Seq(LookupRecords) /\ Len(lookups') = Len(lookups)
        /\ \A k \in DOMAIN lookups : lookups'[k].at = IF k = i THEN "looking" ELSE lookups[k].at
    BY <2>1, <2>2, StepOf DEF SlotInv
  <2> QED
    BY <2>2, <2>3, SameLookups DEF HoldsSlot
<1>4. ASSUME NEW i \in DOMAIN lookups, ReleaseSlot(i)
      PROVE  SlotInv'
  <2>1. lookups' = [lookups EXCEPT ![i].at = "ending"]
    BY <1>4 DEF ReleaseSlot
  <2>2. /\ lookups' \in Seq(LookupRecords) /\ Len(lookups') = Len(lookups)
        /\ \A k \in DOMAIN lookups : lookups'[k].at = IF k = i THEN "ending" ELSE lookups[k].at
    BY <2>1, StepOf DEF SlotInv
  <2> QED
    BY <2>2, SameLookups DEF HoldsSlot
<1>5. ASSUME NEW i \in DOMAIN lookups, NEW a \in {"public", "other"}, LookupEnds(i, a)
      PROVE  SlotInv'
  BY <1>5, EndCounts
<1>6. CASE StartRender \/ CloseBrowser \/ ShutDown \/ CloseReturns
           \/ (\E size \in {0, 1, 2} : PageRequests(size))
           \/ (\E answer \in {"page", "failed", "timeout"} : EndRender(answer))
           \/ UNCHANGED fetchingVars
  BY <1>1, <1>6 DEF StartRender, CloseBrowser, ShutDown, CloseReturns, PageRequests, EndRender,
    fetchingVars
<1> QED
  BY <1>2, <1>3, <1>4, <1>5, <1>6 DEF FetchingNext

\* No more lookups hold a slot than there are, whoever still waits for them.
THEOREM SlotsInvariant == FetchingSpec => []SlotInv
<1>1. FetchingInit => SlotInv
  <2> SUFFICES ASSUME FetchingInit PROVE SlotInv
    OBVIOUS
  <2>1. lookups = <<>> /\ Held = {}
    BY DEF FetchingInit, Held
  <2>2. Cardinality(Held) = 0
    BY <2>1, FS_EmptySet
  <2> QED
    BY <2>1, <2>2, FetchingAssumption DEF SlotInv
<1> QED
  BY <1>1, SlotsCounted, PTL DEF FetchingSpec

\* safety.py: an admitted lookup never waits while every resolver thread is looking, for any
\* number of slots and callers, also those that gave up.
THEOREM LookupsRun == FetchingSpec => []AdmittedLookupsRun
<1>1. SlotInv => AdmittedLookupsRun
  <2> SUFFICES ASSUME SlotInv, Queued # {} PROVE Cardinality(Looking) < DnsSlots
    BY DEF AdmittedLookupsRun
  <2>1. PICK q \in Queued : TRUE
    OBVIOUS
  <2>2. q \in Held /\ Looking \subseteq Held \ {q}
    BY <2>1 DEF Queued, Looking, Held, HoldsSlot
  <2>3. IsFiniteSet(Held) /\ Cardinality(Held) \in Nat
    BY HeldIsFinite DEF SlotInv
  <2>4. IsFiniteSet(Held \ {q}) /\ Cardinality(Held \ {q}) = Cardinality(Held) - 1
    BY <2>2, <2>3, FS_RemoveElement
  <2>5. IsFiniteSet(Looking) /\ Cardinality(Looking) <= Cardinality(Held \ {q})
    BY <2>2, <2>4, FS_Subset
  <2>6. Cardinality(Looking) \in Nat
    BY <2>5, FS_CardinalityType
  <2> QED
    BY <2>3, <2>4, <2>5, <2>6, FetchingAssumption DEF SlotInv
<1> QED
  BY <1>1, SlotsInvariant, PTL

-----------------------------------------------------------------------------
(* The browser *)

Jobs == Callers \union {Nobody, "shutdown"}

\* The shutdown is asked for once, by close(), and nothing is accepted behind it.
BrowserInv ==
  /\ renders \in Seq(Jobs)
  /\ browser \in [open : BOOLEAN, running : BOOLEAN, requests : Nat, bytes : Nat,
                  withheld : BOOLEAN, close : {"no", "waiting", "closed", "overdue"},
                  down : BOOLEAN]
  /\ \A i \in DOMAIN renders :
       renders[i] = "shutdown" => i = Len(renders) /\ browser.close # "no" /\ ~browser.down
  /\ browser.close # "no" /\ ~browser.down =>
       renders # <<>> /\ renders[Len(renders)] = "shutdown"
  /\ browser.down => renders = <<>> /\ ~browser.open /\ browser.close # "no"
  /\ browser.running => renders # <<>> /\ Head(renders) # "shutdown"

LEMMA AskKeepsBrowser ==
  ASSUME BrowserInv, NEW c \in Callers, AskRender(c)
  PROVE  BrowserInv'
<1>1. CASE UNCHANGED renders
  BY <1>1 DEF AskRender, BrowserInv
<1>2. CASE renders' = Append(renders, c) /\ browser.close = "no"
  <2>1. c \in Jobs /\ c # "shutdown"
    BY FetchingAssumption DEF Jobs
  <2>2. /\ renders' \in Seq(Jobs) /\ Len(renders') = Len(renders) + 1
        /\ \A i \in 1..Len(renders) : renders'[i] = renders[i]
        /\ renders'[Len(renders) + 1] = c
    BY <1>2, <2>1 DEF BrowserInv
  <2>3. UNCHANGED browser
    BY DEF AskRender
  <2> QED
    BY <1>2, <2>1, <2>2, <2>3 DEF BrowserInv
<1> QED
  BY <1>1, <1>2 DEF AskRender, Accepting

LEMMA TimeOutKeepsBrowser ==
  ASSUME BrowserInv, NEW c \in Callers, RenderTimesOut(c)
  PROVE  BrowserInv'
<1>1. DOMAIN renders = 1..Len(renders) /\ Len(renders) \in Nat
  BY DEF BrowserInv
<1>2. renders' = [i \in DOMAIN renders |-> IF renders[i] = c THEN Nobody ELSE renders[i]]
  BY DEF RenderTimesOut
<1>3. renders' \in [1..Len(renders) -> Jobs]
  BY <1>1, <1>2 DEF BrowserInv, Jobs
<1>4. renders' \in Seq(Jobs) /\ Len(renders') = Len(renders) /\ DOMAIN renders' = DOMAIN renders
  BY <1>1, <1>3
<1>5. \A i \in DOMAIN renders : renders'[i] = "shutdown" <=> renders[i] = "shutdown"
  BY <1>2, FetchingAssumption
<1>6. UNCHANGED browser
  BY DEF RenderTimesOut
<1> QED
  BY <1>1, <1>4, <1>5, <1>6 DEF BrowserInv

LEMMA TailKeepsBrowser ==
  ASSUME BrowserInv, renders # <<>>
  PROVE  /\ Tail(renders) \in Seq(Jobs) /\ Len(Tail(renders)) = Len(renders) - 1
         /\ Len(renders) \in Nat \ {0}
         /\ \A i \in 1..Len(Tail(renders)) : Tail(renders)[i] = renders[i + 1]
BY DEF BrowserInv

LEMMA BrowserKeepsBrowser ==
  ASSUME BrowserInv,
         \/ StartRender \/ CloseBrowser \/ ShutDown \/ CloseReturns
         \/ \E size \in {0, 1, 2} : PageRequests(size)
         \/ \E answer \in {"page", "failed", "timeout"} : EndRender(answer)
  PROVE  BrowserInv'
<1>1. CASE StartRender
  BY <1>1 DEF StartRender, BrowserInv
<1>2. CASE CloseBrowser
  <2>1. /\ renders' \in Seq(Jobs) /\ Len(renders') = Len(renders) + 1
        /\ \A i \in 1..Len(renders) : renders'[i] = renders[i]
        /\ renders'[Len(renders) + 1] = "shutdown" /\ Len(renders) \in Nat
    BY <1>2 DEF CloseBrowser, BrowserInv, Jobs
  <2>2. browser.close = "no" /\ browser' = [browser EXCEPT !.close = "waiting"]
    BY <1>2 DEF CloseBrowser
  <2>3. \A i \in 1..Len(renders) : renders[i] # "shutdown"
    BY <2>2 DEF BrowserInv
  <2> QED
    BY <2>1, <2>2, <2>3 DEF BrowserInv
<1>3. CASE ShutDown
  <2>1. /\ renders # <<>> /\ Head(renders) = "shutdown" /\ ~browser.running
        /\ renders' = Tail(renders)
        /\ browser' = [browser EXCEPT !.open = FALSE, !.down = TRUE]
    BY <1>3 DEF ShutDown
  <2>2. 1 \in DOMAIN renders /\ renders[1] = "shutdown"
    BY <2>1, TailKeepsBrowser DEF BrowserInv
  <2>3. Len(renders) = 1 /\ browser.close # "no"
    BY <2>2 DEF BrowserInv
  <2>4. renders' = <<>>
    BY <2>1, <2>3, TailKeepsBrowser
  <2>5. /\ browser' \in [open : BOOLEAN, running : BOOLEAN, requests : Nat, bytes : Nat,
             withheld : BOOLEAN, close : {"no", "waiting", "closed", "overdue"}, down : BOOLEAN]
        /\ browser'.down /\ ~browser'.open /\ browser'.close # "no" /\ ~browser'.running
    BY <2>1, <2>3 DEF BrowserInv
  <2> QED
    BY <2>4, <2>5 DEF BrowserInv
<1>4. CASE CloseReturns
  <2>1. /\ browser.close = "waiting" /\ UNCHANGED renders
        /\ browser' = [browser EXCEPT !.close = IF browser.down THEN "closed" ELSE "overdue"]
    BY <1>4 DEF CloseReturns
  <2>2. /\ browser' \in [open : BOOLEAN, running : BOOLEAN, requests : Nat, bytes : Nat,
             withheld : BOOLEAN, close : {"no", "waiting", "closed", "overdue"}, down : BOOLEAN]
        /\ browser'.close # "no" /\ browser'.down = browser.down
        /\ browser'.open = browser.open /\ browser'.running = browser.running
    BY <2>1 DEF BrowserInv
  <2> QED
    BY <2>1, <2>2 DEF BrowserInv
<1>5. ASSUME NEW size \in {0, 1, 2}, PageRequests(size)
      PROVE  BrowserInv'
  <2>1. UNCHANGED renders
    BY <1>5 DEF PageRequests
  <2>2. browser.requests + 1 \in Nat /\ browser.bytes + size \in Nat
    BY DEF BrowserInv
  <2>3. /\ browser' \in [open : BOOLEAN, running : BOOLEAN, requests : Nat, bytes : Nat,
             withheld : BOOLEAN, close : {"no", "waiting", "closed", "overdue"}, down : BOOLEAN]
        /\ browser'.close = browser.close /\ browser'.down = browser.down
        /\ browser'.open = browser.open /\ browser'.running = browser.running
    <3>1. (browser.withheld \/ browser.bytes + size > MaxBytes) \in BOOLEAN
      BY DEF BrowserInv
    <3> QED
      BY <1>5, <2>2, <3>1 DEF PageRequests, BrowserInv
  <2> QED
    BY <2>1, <2>3 DEF BrowserInv
<1>6. ASSUME NEW answer \in {"page", "failed", "timeout"}, EndRender(answer)
      PROVE  BrowserInv'
  <2>1. /\ renders # <<>> /\ Head(renders) # "shutdown" /\ renders' = Tail(renders)
        /\ browser' = [browser EXCEPT !.running = FALSE]
    BY <1>6 DEF EndRender
  <2>2. /\ renders' \in Seq(Jobs) /\ Len(renders') = Len(renders) - 1
        /\ Len(renders) \in Nat \ {0}
        /\ \A i \in 1..Len(renders') : renders'[i] = renders[i + 1]
    BY <2>1, TailKeepsBrowser
  <2>3. ~browser.down /\ renders[1] # "shutdown"
    BY <2>1 DEF BrowserInv
  <2>4. /\ browser'.close = browser.close /\ browser'.down = browser.down /\ ~browser'.running
        /\ browser' \in [open : BOOLEAN, running : BOOLEAN, requests : Nat, bytes : Nat,
             withheld : BOOLEAN, close : {"no", "waiting", "closed", "overdue"}, down : BOOLEAN]
    BY <2>1 DEF BrowserInv
  <2>5. browser.close # "no" => Len(renders) > 1 /\ renders[Len(renders)] = "shutdown"
    BY <2>2, <2>3 DEF BrowserInv
  <2>6. \A i \in DOMAIN renders' :
          renders'[i] = "shutdown" => i = Len(renders') /\ browser.close # "no" /\ ~browser.down
    BY <2>2 DEF BrowserInv
  <2> QED
    BY <2>2, <2>3, <2>4, <2>5, <2>6 DEF BrowserInv
<1> QED
  BY <1>1, <1>2, <1>3, <1>4, <1>5, <1>6

LEMMA BrowserKept ==
  ASSUME BrowserInv, [FetchingNext]_fetchingVars
  PROVE  BrowserInv'
<1>1. CASE UNCHANGED <<renders, browser>>
  BY <1>1 DEF BrowserInv
<1>2. ASSUME NEW c \in Callers, Fetch(c)
      PROVE  BrowserInv'
  <2>1. CASE AskRender(c)
    BY <2>1, AskKeepsBrowser
  <2>2. CASE RenderTimesOut(c)
    BY <2>2, TimeOutKeepsBrowser
  <2>3. CASE ~AskRender(c) /\ ~RenderTimesOut(c)
    BY <1>1, <1>2, <2>3 DEF Fetch, Resolve, LookupTimesOut, DeadlinePasses, Connect,
      WatchdogFires, Wrap, SendRequest, FetchBreaks, ReadBody, ReturnBody, Headers, OnlyFetches,
      OnlyLookups
  <2> QED
    BY <2>1, <2>2, <2>3
<1>3. CASE StartLookup \/ UNCHANGED fetchingVars
           \/ (\E i \in DOMAIN lookups : \/ ReleaseSlot(i)
                                         \/ \E a \in {"public", "other"} : LookupEnds(i, a))
  BY <1>1, <1>3 DEF StartLookup, ReleaseSlot, LookupEnds, OnlyLookups, fetchingVars
<1> QED
  BY <1>2, <1>3, BrowserKeepsBrowser DEF FetchingNext

\* The jobs of the browser thread and its state fit together.
THEOREM BrowserInvariant == FetchingSpec => []BrowserInv
<1>1. FetchingInit => BrowserInv
  BY DEF FetchingInit, BrowserInv
<1> QED
  BY <1>1, BrowserKept, PTL DEF FetchingSpec

\* rendering.py: once the browser thread has run the shutdown, no browser is open again and
\* no render is accepted, also when close() had given up waiting for it.
THEOREM BrowserStaysDown == FetchingSpec => []ShutDownIsFinal
<1>1. BrowserInv => ShutDownIsFinal
  BY DEF BrowserInv, ShutDownIsFinal
<1> QED
  BY <1>1, BrowserInvariant, PTL

-----------------------------------------------------------------------------
(* Pages that were cut off *)

\* A socket is shut after the deadline only; a body the watchdog cut is late, and
\* neither rendered nor an answer.
Whole(f) ==
  /\ f.shut => f.late
  /\ f.at \in {"resolving", "resolved", "connecting", "wrapping", "waiting", "reading"} => f.cut = ""
  /\ f.at = "read" /\ f.cut = "watchdog" => f.late
  /\ f.at \in {"shell", "rendering"} => f.cut # "watchdog"
  /\ f.answer = "page" => f.at = "idle" /\ f.cut # "watchdog"

\* A lookup, and a render, is waited for by one caller, who does nothing else.
LookupsAreOwned ==
  \A i \in DOMAIN lookups : lookups[i].of \in Callers =>
    /\ fetches[lookups[i].of].at = "resolving"
    /\ \A k \in DOMAIN lookups : lookups[k].of = lookups[i].of => k = i

RendersAreOwned ==
  \A i \in DOMAIN renders : renders[i] \in Callers =>
    /\ fetches[renders[i]].at = "rendering"
    /\ \A k \in DOMAIN renders : renders[k] = renders[i] => k = i

CutInv ==
  /\ fetches \in [Callers -> FetchRecords]
  /\ lookups \in Seq(LookupRecords)
  /\ renders \in Seq(Jobs)
  /\ \A c \in Callers : Whole(fetches[c])
  /\ LookupsAreOwned
  /\ RendersAreOwned

\* The record of a fetch that ends.
LEMMA EndedFetch ==
  ASSUME NEW f \in FetchRecords, NEW answer \in Endings, answer = "page" => f.cut # "watchdog"
  PROVE  /\ [NoFetch EXCEPT !.answer = answer, !.cut = f.cut] \in FetchRecords
         /\ Whole([NoFetch EXCEPT !.answer = answer, !.cut = f.cut])
         /\ [NoFetch EXCEPT !.answer = answer, !.cut = f.cut].at = "idle"
BY DEF FetchRecords, NoFetch, Steps, Whole, Endings

\* The record of a fetch that goes on.
LEMMA NextStep ==
  ASSUME NEW f \in FetchRecords, Whole(f), f.at # "idle", NEW at \in Steps \ {"idle"},
         at \in {"resolving", "resolved", "connecting", "wrapping", "waiting", "reading"} =>
           f.cut = "",
         at # "read",
         at \in {"shell", "rendering"} => f.cut # "watchdog"
  PROVE  /\ [f EXCEPT !.at = at] \in FetchRecords /\ Whole([f EXCEPT !.at = at])
         /\ [f EXCEPT !.at = at].at = at
BY DEF FetchRecords, Whole

\* A caller that waits neither for a lookup nor for a render takes a step of its own.
LEMMA OwnStep ==
  ASSUME CutInv, NEW c \in Callers, NEW f \in FetchRecords, Whole(f),
         fetches' = [fetches EXCEPT ![c] = f], UNCHANGED <<lookups, renders>>,
         fetches[c].at \in {"resolving", "rendering"} => f.at = fetches[c].at
  PROVE  CutInv'
<1>1. fetches' \in [Callers -> FetchRecords]
  BY DEF CutInv
<1>2. \A d \in Callers : fetches'[d] = IF d = c THEN f ELSE fetches[d]
  BY DEF CutInv
<1>3. LookupsAreOwned' /\ RendersAreOwned'
  BY <1>2 DEF CutInv, LookupsAreOwned, RendersAreOwned
<1> QED
  BY <1>1, <1>2, <1>3 DEF CutInv, Whole

LEMMA EndsAlone ==
  ASSUME CutInv, NEW c \in Callers, NEW answer \in Endings, Ends(c, answer),
         answer = "page" => fetches[c].cut # "watchdog",
         fetches[c].at \notin {"resolving", "rendering"}, UNCHANGED <<lookups, renders>>
  PROVE  CutInv'
<1> DEFINE f == [NoFetch EXCEPT !.answer = answer, !.cut = fetches[c].cut]
<1>1. fetches[c] \in FetchRecords
  BY DEF CutInv
<1>2. f \in FetchRecords /\ Whole(f)
  BY <1>1, EndedFetch
<1>3. fetches' = [fetches EXCEPT ![c] = f]
  BY DEF Ends
<1> HIDE DEF f
<1> QED
  BY <1>2, <1>3, OwnStep

LEMMA EntersAlone ==
  ASSUME CutInv, NEW c \in Callers, NEW at \in Steps \ {"idle", "read"}, Enters(c, at),
         fetches[c].at \notin {"idle", "resolving", "rendering"},
         at \notin {"shell", "rendering"} => fetches[c].cut = "",
         fetches[c].cut # "watchdog", UNCHANGED <<lookups, renders>>
  PROVE  CutInv'
<1> DEFINE f == [fetches[c] EXCEPT !.at = at]
<1>1. fetches[c] \in FetchRecords /\ Whole(fetches[c])
  BY DEF CutInv
<1>2. f \in FetchRecords /\ Whole(f)
  BY <1>1 DEF FetchRecords, Whole, Steps
<1>3. fetches' = [fetches EXCEPT ![c] = f]
  BY DEF Enters
<1> HIDE DEF f
<1> QED
  BY <1>2, <1>3, OwnStep

\* The steps of SafeHTTPTransport.fetch and of its timer.
LEMMA TransportKeeps ==
  ASSUME CutInv, NEW c \in Callers,
         \/ DeadlinePasses(c) \/ Connect(c) \/ WatchdogFires(c) \/ Wrap(c) \/ SendRequest(c)
         \/ FetchBreaks(c) \/ ReadBody(c) \/ ReturnBody(c)
         \/ \E redirect \in BOOLEAN : Headers(c, redirect)
  PROVE  CutInv'
<1>0. fetches[c] \in FetchRecords /\ Whole(fetches[c])
  BY DEF CutInv
<1>1. CASE DeadlinePasses(c)
  <2> DEFINE f == [fetches[c] EXCEPT !.late = TRUE]
  <2>1. f \in FetchRecords /\ Whole(f) /\ f.at = fetches[c].at
    BY <1>0 DEF FetchRecords, Whole
  <2>2. fetches' = [fetches EXCEPT ![c] = f] /\ UNCHANGED <<lookups, renders>>
    BY <1>1 DEF DeadlinePasses, OnlyFetches
  <2> HIDE DEF f
  <2> QED
    BY <2>1, <2>2, OwnStep
<1>2. CASE Connect(c)
  <2> DEFINE f == [fetches[c] EXCEPT !.at = "connecting", !.armed = TRUE]
  <2>1. fetches[c].at = "resolved" /\ UNCHANGED <<lookups, renders>>
    BY <1>2 DEF Connect, OnlyFetches
  <2>2. f \in FetchRecords /\ Whole(f)
    BY <1>0, <2>1 DEF FetchRecords, Whole, Steps
  <2>3. CASE Ends(c, "timeout")
    BY <2>1, <2>3, EndsAlone DEF Endings
  <2>4. CASE fetches' = [fetches EXCEPT ![c] = f]
    <3> HIDE DEF f
    <3> QED
      BY <2>1, <2>2, <2>4, OwnStep
  <2> QED
    BY <1>2, <2>3, <2>4 DEF Connect
<1>3. CASE WatchdogFires(c)
  <2> DEFINE f == [fetches[c] EXCEPT !.armed = FALSE, !.shut = fetches[c].at # "wrapping"]
  <2>1. f \in FetchRecords /\ Whole(f) /\ f.at = fetches[c].at
    BY <1>0, <1>3 DEF WatchdogFires, FetchRecords, Whole
  <2>2. fetches' = [fetches EXCEPT ![c] = f] /\ UNCHANGED <<lookups, renders>>
    BY <1>3 DEF WatchdogFires, OnlyFetches
  <2> HIDE DEF f
  <2> QED
    BY <2>1, <2>2, OwnStep
<1>4. CASE Wrap(c)
  <2>1. fetches[c].cut = ""
    BY <1>0, <1>4 DEF Wrap, Whole
  <2> QED
    BY <1>4, <2>1, EntersAlone DEF Wrap, OnlyFetches, Steps
<1>5. CASE SendRequest(c)
  <2>1. fetches[c].cut = ""
    BY <1>0, <1>5 DEF SendRequest, Whole
  <2> QED
    BY <1>5, <2>1, EntersAlone DEF SendRequest, OnlyFetches, Steps
<1>6. CASE FetchBreaks(c)
  BY <1>6, EndsAlone DEF FetchBreaks, OnlyFetches, Endings
<1>7. CASE ReadBody(c)
  <2>1. PICK cut \in {IF fetches[c].shut THEN "watchdog" ELSE "", "peer"} :
          fetches' = [fetches EXCEPT ![c].at = "read", ![c].cut = cut]
    BY <1>7 DEF ReadBody
  <2> DEFINE f == [fetches[c] EXCEPT !.at = "read", !.cut = cut]
  <2>2. f \in FetchRecords /\ Whole(f)
    BY <1>0, <1>7 DEF ReadBody, FetchRecords, Whole, Steps
  <2>3. fetches' = [fetches EXCEPT ![c] = f]
    BY <1>0, <2>1 DEF CutInv
  <2>4. fetches[c].at = "reading" /\ UNCHANGED <<lookups, renders>>
    BY <1>7 DEF ReadBody, OnlyFetches
  <2> HIDE DEF f
  <2> QED
    BY <2>2, <2>3, <2>4, OwnStep
<1>8. CASE ReturnBody(c)
  <2> DEFINE f == [fetches[c] EXCEPT !.at = "shell", !.armed = FALSE, !.shut = FALSE]
  <2>1. fetches[c].at = "read" /\ UNCHANGED <<lookups, renders>>
    BY <1>8 DEF ReturnBody, OnlyFetches
  <2>2. CASE Ends(c, "failed") \/ Ends(c, "timeout")
    BY <2>1, <2>2, EndsAlone DEF Endings
  <2>3. CASE InTime(c) /\ Ends(c, "page")
    <3>1. fetches[c].cut # "watchdog"
      BY <1>0, <2>1, <2>3 DEF InTime, Whole
    <3> QED
      BY <2>1, <2>3, <3>1, EndsAlone DEF Endings
  <2>4. CASE InTime(c) /\ fetches' = [fetches EXCEPT ![c] = f]
    <3>1. f \in FetchRecords /\ Whole(f)
      BY <1>0, <2>1, <2>4 DEF InTime, FetchRecords, Whole, Steps
    <3> HIDE DEF f
    <3> QED
      BY <2>1, <2>4, <3>1, OwnStep
  <2> QED
    BY <1>8, <2>2, <2>3, <2>4 DEF ReturnBody
<1>9. ASSUME NEW redirect \in BOOLEAN, Headers(c, redirect)
      PROVE  CutInv'
  <2>1. fetches[c].cut = ""
    BY <1>0, <1>9 DEF Headers, Whole
  <2> QED
    BY <1>9, <2>1, EndsAlone, EntersAlone DEF Headers, OnlyFetches, Steps, Endings
<1> QED
  BY <1>1, <1>2, <1>3, <1>4, <1>5, <1>6, <1>7, <1>8, <1>9

\* The steps of resolve_public.
LEMMA ResolveKeepsPages ==
  ASSUME CutInv, NEW c \in Callers, Resolve(c)
  PROVE  CutInv'
<1> DEFINE busy == [NoFetch EXCEPT !.answer = "dns_busy"]
           going == [NoFetch EXCEPT !.at = "resolving"]
           lookup == [of |-> c, at |-> "queued"]
<1>1. fetches[c].at = "idle" /\ UNCHANGED renders
  BY DEF Resolve, OnlyLookups
<1>2. /\ busy \in FetchRecords /\ Whole(busy)
      /\ going \in FetchRecords /\ Whole(going) /\ going.at = "resolving"
  BY DEF NoFetch, FetchRecords, Steps, Endings, Whole
<1>3. CASE fetches' = [fetches EXCEPT ![c] = busy] /\ UNCHANGED lookups
  <2> HIDE DEF busy
  <2> QED
    BY <1>1, <1>2, <1>3, OwnStep
<1>4. CASE fetches' = [fetches EXCEPT ![c] = going] /\ lookups' = Append(lookups, lookup)
  <2> DEFINE n == Len(lookups) + 1
  <2>1. /\ lookups' \in Seq(LookupRecords) /\ DOMAIN lookups' = 1..n
        /\ DOMAIN lookups = 1..Len(lookups) /\ Len(lookups) \in Nat
        /\ \A i \in DOMAIN lookups : lookups'[i] = lookups[i]
        /\ lookups'[n].of = c
    BY <1>4 DEF CutInv, LookupRecords
  <2> HIDE DEF going, lookup
  <2>2. /\ fetches' \in [Callers -> FetchRecords]
        /\ \A d \in Callers : fetches'[d] = IF d = c THEN going ELSE fetches[d]
    BY <1>2, <1>4 DEF CutInv
  <2>3. \A i \in DOMAIN lookups : lookups[i].of # c
    BY <1>1 DEF CutInv, LookupsAreOwned
  <2>4. LookupsAreOwned'
    <3>1. \A i \in DOMAIN lookups' : i = n \/ (i \in DOMAIN lookups /\ lookups'[i] = lookups[i])
      BY <2>1
    <3>2. \A i \in DOMAIN lookups : lookups[i].of \in Callers =>
            fetches'[lookups[i].of].at = "resolving"
      BY <2>2, <2>3 DEF CutInv, LookupsAreOwned
    <3>3. fetches'[c].at = "resolving"
      BY <1>2, <2>2
    <3>4. \A i, k \in DOMAIN lookups' :
            lookups'[i].of \in Callers /\ lookups'[k].of = lookups'[i].of => k = i
      BY <2>1, <2>3, <3>1 DEF CutInv, LookupsAreOwned
    <3> QED
      BY <2>1, <3>1, <3>2, <3>3, <3>4 DEF LookupsAreOwned
  <2>5. RendersAreOwned'
    BY <1>1, <2>2 DEF CutInv, RendersAreOwned
  <2> QED
    BY <1>1, <1>2, <2>1, <2>2, <2>4, <2>5 DEF CutInv, Whole
<1> QED
  BY <1>3, <1>4 DEF Resolve

LEMMA TimeOutKeepsPages ==
  ASSUME CutInv, NEW c \in Callers, LookupTimesOut(c)
  PROVE  CutInv'
<1> DEFINE f == [NoFetch EXCEPT !.answer = "timeout", !.cut = fetches[c].cut]
<1>1. fetches[c].at = "resolving" /\ UNCHANGED renders /\ fetches' = [fetches EXCEPT ![c] = f]
  BY DEF LookupTimesOut, OnlyLookups, Ends
<1>2. f \in FetchRecords /\ Whole(f)
  <2>1. fetches[c] \in FetchRecords
    BY DEF CutInv
  <2> QED
    BY <2>1, EndedFetch DEF Endings
<1> HIDE DEF f
<1>3. /\ lookups' \in Seq(LookupRecords) /\ DOMAIN lookups' = DOMAIN lookups
      /\ \A i \in DOMAIN lookups :
           lookups'[i].of = IF lookups[i].of = c THEN Nobody ELSE lookups[i].of
  BY GivenUp DEF LookupTimesOut, CutInv
<1>4. /\ fetches' \in [Callers -> FetchRecords]
      /\ \A d \in Callers : fetches'[d] = IF d = c THEN f ELSE fetches[d]
  BY <1>1, <1>2 DEF CutInv
<1>5. LookupsAreOwned'
  BY <1>3, <1>4, FetchingAssumption DEF CutInv, LookupsAreOwned
<1>6. RendersAreOwned'
  BY <1>1, <1>4 DEF CutInv, RendersAreOwned
<1> QED
  BY <1>1, <1>2, <1>3, <1>4, <1>5, <1>6 DEF CutInv, Whole

\* Resolver threads change no owner of a lookup.
LEMMA ResolversKeepPages ==
  ASSUME CutInv, StartLookup \/ (\E i \in DOMAIN lookups : ReleaseSlot(i))
  PROVE  CutInv'
<1>1. PICK i \in DOMAIN lookups, at \in {"looking", "ending"} :
        lookups' = [lookups EXCEPT ![i].at = at]
  BY DEF StartLookup, ReleaseSlot, Queued
<1>2. UNCHANGED <<fetches, renders>>
  BY DEF StartLookup, ReleaseSlot, OnlyLookups
<1>3. /\ lookups' \in Seq(LookupRecords) /\ DOMAIN lookups' = DOMAIN lookups
      /\ \A k \in DOMAIN lookups : lookups'[k].of = lookups[k].of
  BY <1>1, StepOf DEF CutInv
<1>4. LookupsAreOwned' /\ RendersAreOwned'
  BY <1>2, <1>3 DEF CutInv, LookupsAreOwned, RendersAreOwned
<1> QED
  BY <1>2, <1>3, <1>4 DEF CutInv, Whole

LEMMA LookupEndKeepsPages ==
  ASSUME CutInv, NEW i \in DOMAIN lookups, NEW addresses, LookupEnds(i, addresses)
  PROVE  CutInv'
<1> DEFINE c == lookups[i].of
<1>1. /\ i \in 1..Len(lookups) /\ lookups' = RemoveAt(lookups, i) /\ UNCHANGED renders
      /\ Len(lookups) \in Nat /\ DOMAIN lookups = 1..Len(lookups)
      /\ c \in Callers \union {Nobody}
  <2>1. lookups \in Seq(LookupRecords)
    BY DEF CutInv
  <2>2. lookups[i] \in LookupRecords
    BY <2>1
  <2>3. Len(lookups) \in Nat /\ DOMAIN lookups = 1..Len(lookups)
    BY <2>1
  <2> QED
    BY <2>2, <2>3 DEF LookupEnds, OnlyLookups, LookupRecords
<1>2. /\ lookups' \in Seq(LookupRecords) /\ DOMAIN lookups' = 1..(Len(lookups) - 1)
      /\ \A k \in 1..(Len(lookups) - 1) :
           lookups'[k] = IF k < i THEN lookups[k] ELSE lookups[k + 1]
  <2>1. lookups \in Seq(LookupRecords)
    BY DEF CutInv
  <2>2. /\ lookups' \in Seq(LookupRecords) /\ Len(lookups') = Len(lookups) - 1
        /\ \A k \in 1..(Len(lookups) - 1) :
             lookups'[k] = IF k < i THEN lookups[k] ELSE lookups[k + 1]
    BY <1>1, <2>1, Removed
  <2> QED
    BY <2>2
<1>3. \A k \in DOMAIN lookups' : \E j \in DOMAIN lookups : j # i /\ lookups'[k] = lookups[j]
  BY <1>1, <1>2
<1>4. \A k, m \in DOMAIN lookups' :
        lookups'[k].of = lookups'[m].of /\ lookups'[k].of \in Callers => k = m
  <2> DEFINE old(k) == IF k < i THEN k ELSE k + 1
  <2>1. \A k \in DOMAIN lookups' : old(k) \in DOMAIN lookups /\ lookups'[k] = lookups[old(k)]
    BY <1>1, <1>2
  <2>2. \A k, m \in DOMAIN lookups' : old(k) = old(m) => k = m
    BY <1>1, <1>2
  <2> HIDE DEF old
  <2> QED
    BY <2>1, <2>2 DEF CutInv, LookupsAreOwned
<1>5. CASE c = Nobody
  <2>1. UNCHANGED fetches
    BY <1>5 DEF LookupEnds
  <2>2. LookupsAreOwned' /\ RendersAreOwned'
    BY <1>1, <1>3, <1>4, <2>1 DEF CutInv, LookupsAreOwned, RendersAreOwned
  <2> QED
    BY <1>1, <1>2, <2>1, <2>2 DEF CutInv, Whole
<1>6. CASE c \in Callers
  <2>1. fetches[c].at = "resolving" /\ fetches[c] \in FetchRecords /\ Whole(fetches[c])
    BY <1>6 DEF CutInv, LookupsAreOwned
  <2>2. PICK f \in FetchRecords : Whole(f) /\ fetches' = [fetches EXCEPT ![c] = f]
    <3>1. Enters(c, "resolved") \/ Ends(c, "failed")
      BY <1>6, FetchingAssumption DEF LookupEnds
    <3>2. CASE Enters(c, "resolved")
      <4> DEFINE f == [fetches[c] EXCEPT !.at = "resolved"]
      <4>1. f \in FetchRecords /\ Whole(f)
        BY <2>1 DEF FetchRecords, Steps, Whole
      <4>2. fetches' = [fetches EXCEPT ![c] = f]
        BY <3>2 DEF Enters
      <4> QED
        BY <4>1, <4>2
    <3>3. CASE Ends(c, "failed")
      <4> DEFINE f == [NoFetch EXCEPT !.answer = "failed", !.cut = fetches[c].cut]
      <4>1. f \in FetchRecords /\ Whole(f)
        BY <2>1, EndedFetch DEF Endings
      <4>2. fetches' = [fetches EXCEPT ![c] = f]
        BY <3>3 DEF Ends
      <4> QED
        BY <4>1, <4>2
    <3> QED
      BY <3>1, <3>2, <3>3
  <2>3. /\ fetches' \in [Callers -> FetchRecords]
        /\ \A d \in Callers : fetches'[d] = IF d = c THEN f ELSE fetches[d]
    BY <2>2 DEF CutInv
  <2>4. \A j \in DOMAIN lookups : j # i => lookups[j].of # c
    BY <1>6 DEF CutInv, LookupsAreOwned
  <2>5. \A k \in DOMAIN lookups' : lookups'[k].of \in Callers =>
          fetches'[lookups'[k].of].at = "resolving"
    BY <1>3, <2>3, <2>4 DEF CutInv, LookupsAreOwned
  <2>6. LookupsAreOwned'
    BY <1>4, <2>5 DEF LookupsAreOwned
  <2>7. RendersAreOwned'
    BY <1>1, <2>1, <2>3 DEF CutInv, RendersAreOwned
  <2> QED
    BY <1>1, <1>2, <2>2, <2>3, <2>6, <2>7 DEF CutInv, Whole
<1> QED
  BY <1>1, <1>5, <1>6

\* A page is handed to the browser thread, or its caller gives up on it.
LEMMA AskKeepsPages ==
  ASSUME CutInv, NEW c \in Callers, AskRender(c)
  PROVE  CutInv'
<1>1. /\ fetches[c].at = "shell" /\ UNCHANGED lookups
      /\ fetches[c] \in FetchRecords /\ Whole(fetches[c])
  BY DEF AskRender, CutInv
<1>2. CASE UNCHANGED renders /\ (Ends(c, "timeout") \/ Ends(c, "failed"))
  BY <1>1, <1>2, EndsAlone DEF Endings
<1>3. CASE Enters(c, "rendering") /\ renders' = Append(renders, c)
  <2> DEFINE f == [fetches[c] EXCEPT !.at = "rendering"]
             n == Len(renders) + 1
  <2>1. f \in FetchRecords /\ Whole(f) /\ f.at = "rendering"
    BY <1>1 DEF FetchRecords, Steps, Whole
  <2>2. fetches' = [fetches EXCEPT ![c] = f]
    BY <1>3 DEF Enters
  <2> HIDE DEF f
  <2>3. /\ fetches' \in [Callers -> FetchRecords]
        /\ \A d \in Callers : fetches'[d] = IF d = c THEN f ELSE fetches[d]
    BY <2>1, <2>2 DEF CutInv
  <2>4. /\ renders' \in Seq(Jobs) /\ DOMAIN renders' = 1..n
        /\ DOMAIN renders = 1..Len(renders) /\ Len(renders) \in Nat
        /\ \A i \in DOMAIN renders : renders'[i] = renders[i]
        /\ renders'[n] = c
    BY <1>3 DEF CutInv, Jobs
  <2>5. \A i \in DOMAIN renders : renders[i] # c
    BY <1>1 DEF CutInv, RendersAreOwned
  <2>6. RendersAreOwned'
    BY <2>1, <2>3, <2>4, <2>5 DEF CutInv, RendersAreOwned
  <2>7. LookupsAreOwned'
    BY <1>1, <2>3 DEF CutInv, LookupsAreOwned
  <2> QED
    BY <1>1, <2>1, <2>3, <2>4, <2>6, <2>7 DEF CutInv, Whole
<1> QED
  BY <1>2, <1>3 DEF AskRender

LEMMA RenderTimeOutKeepsPages ==
  ASSUME CutInv, NEW c \in Callers, RenderTimesOut(c)
  PROVE  CutInv'
<1> DEFINE f == [NoFetch EXCEPT !.answer = "timeout", !.cut = fetches[c].cut]
<1>1. fetches[c].at = "rendering" /\ UNCHANGED lookups /\ fetches' = [fetches EXCEPT ![c] = f]
  BY DEF RenderTimesOut, Ends
<1>2. f \in FetchRecords /\ Whole(f)
  <2>1. fetches[c] \in FetchRecords
    BY DEF CutInv
  <2> QED
    BY <2>1, EndedFetch DEF Endings
<1> HIDE DEF f
<1>3. DOMAIN renders = 1..Len(renders) /\ Len(renders) \in Nat
  BY DEF CutInv
<1>4. renders' = [i \in DOMAIN renders |-> IF renders[i] = c THEN Nobody ELSE renders[i]]
  BY DEF RenderTimesOut
<1>5. renders' \in [1..Len(renders) -> Jobs]
  BY <1>3, <1>4 DEF CutInv, Jobs
<1>6. renders' \in Seq(Jobs) /\ DOMAIN renders' = DOMAIN renders
  BY <1>3, <1>5
<1>7. /\ fetches' \in [Callers -> FetchRecords]
      /\ \A d \in Callers : fetches'[d] = IF d = c THEN f ELSE fetches[d]
  BY <1>1, <1>2 DEF CutInv
<1>8. RendersAreOwned'
  BY <1>4, <1>6, <1>7, FetchingAssumption DEF CutInv, RendersAreOwned
<1>9. LookupsAreOwned'
  BY <1>1, <1>7 DEF CutInv, LookupsAreOwned
<1> QED
  BY <1>1, <1>2, <1>6, <1>7, <1>8, <1>9 DEF CutInv, Whole

\* The first job of the browser thread is done.
LEMMA FirstRenderGoes ==
  ASSUME renders \in Seq(Jobs), renders # <<>>, renders' = Tail(renders)
  PROVE  /\ renders' \in Seq(Jobs) /\ 1 \in DOMAIN renders /\ Head(renders) = renders[1]
         /\ \A k \in DOMAIN renders' : k + 1 \in DOMAIN renders /\ k \in Nat \ {0}
                                       /\ renders'[k] = renders[k + 1]
OBVIOUS

LEMMA EndRenderKeepsPages ==
  ASSUME CutInv, NEW answer \in {"page", "failed", "timeout"}, EndRender(answer)
  PROVE  CutInv'
<1> DEFINE c == renders[1]
<1>1. renders # <<>> /\ Head(renders) # "shutdown" /\ renders' = Tail(renders) /\ UNCHANGED lookups
  BY DEF EndRender
<1>2. /\ renders' \in Seq(Jobs) /\ 1 \in DOMAIN renders /\ Head(renders) = c
      /\ \A k \in DOMAIN renders' : k + 1 \in DOMAIN renders /\ k \in Nat \ {0}
                                    /\ renders'[k] = renders[k + 1]
  BY <1>1, FirstRenderGoes DEF CutInv
<1>3. c \in Callers \union {Nobody}
  BY <1>1, <1>2 DEF CutInv, Jobs
<1>4. \A k, m \in DOMAIN renders' : renders'[k] = renders'[m] /\ renders'[k] \in Callers => k = m
  BY <1>2 DEF CutInv, RendersAreOwned
<1>5. CASE c = Nobody
  <2>1. UNCHANGED fetches
    BY <1>2, <1>5 DEF EndRender
  <2>2. RendersAreOwned' /\ LookupsAreOwned'
    BY <1>1, <1>2, <1>4, <2>1 DEF CutInv, LookupsAreOwned, RendersAreOwned
  <2> QED
    BY <1>1, <1>2, <2>1, <2>2 DEF CutInv, Whole
<1>6. CASE c \in Callers
  <2> DEFINE f == [NoFetch EXCEPT !.answer = answer, !.cut = fetches[c].cut]
  <2>1. fetches[c].at = "rendering" /\ fetches[c] \in FetchRecords /\ Whole(fetches[c])
    BY <1>2, <1>6 DEF CutInv, RendersAreOwned
  <2>2. f \in FetchRecords /\ Whole(f)
    <3>1. fetches[c].cut # "watchdog" /\ answer \in Endings
      BY <2>1 DEF Whole, Endings
    <3> QED
      BY <2>1, <3>1, EndedFetch
  <2>3. fetches' = [fetches EXCEPT ![c] = f]
    BY <1>2, <1>6, FetchingAssumption DEF EndRender, Ends
  <2> HIDE DEF f
  <2>4. /\ fetches' \in [Callers -> FetchRecords]
        /\ \A d \in Callers : fetches'[d] = IF d = c THEN f ELSE fetches[d]
    BY <1>6, <2>2, <2>3 DEF CutInv
  <2>5. \A k \in DOMAIN renders' : renders'[k] # c
    <3> SUFFICES ASSUME NEW k \in DOMAIN renders', renders[k + 1] = renders[1] PROVE FALSE
      BY <1>2
    <3>1. k + 1 = 1
      BY <1>2, <1>6 DEF CutInv, RendersAreOwned
    <3> QED
      BY <1>2, <3>1
  <2>6. \A k \in DOMAIN renders' : renders'[k] \in Callers =>
          fetches'[renders'[k]].at = "rendering"
    BY <1>2, <2>4, <2>5 DEF CutInv, RendersAreOwned
  <2>7. RendersAreOwned'
    BY <1>4, <2>6 DEF RendersAreOwned
  <2>8. LookupsAreOwned'
    BY <1>1, <2>1, <2>4 DEF CutInv, LookupsAreOwned
  <2> QED
    BY <1>1, <1>2, <2>2, <2>4, <2>7, <2>8 DEF CutInv, Whole
<1> QED
  BY <1>3, <1>5, <1>6

\* close() and the shutdown wait for nobody.
LEMMA ClosingKeepsPages ==
  ASSUME CutInv, CloseBrowser \/ ShutDown
  PROVE  CutInv'
<1>1. UNCHANGED <<fetches, lookups>>
  BY DEF CloseBrowser, ShutDown
<1>2. renders' \in Seq(Jobs) /\ RendersAreOwned'
  <2>1. CASE CloseBrowser
    <3>1. /\ renders' \in Seq(Jobs) /\ DOMAIN renders' = 1..(Len(renders) + 1)
          /\ DOMAIN renders = 1..Len(renders) /\ Len(renders) \in Nat
          /\ \A i \in DOMAIN renders : renders'[i] = renders[i]
          /\ renders'[Len(renders) + 1] = "shutdown"
      BY <2>1 DEF CloseBrowser, CutInv, Jobs
    <3>2. RendersAreOwned'
      BY <1>1, <3>1, FetchingAssumption DEF CutInv, RendersAreOwned
    <3> QED
      BY <3>1, <3>2
  <2>2. CASE ShutDown
    <3>1. /\ renders' \in Seq(Jobs)
          /\ \A k \in DOMAIN renders' : k + 1 \in DOMAIN renders /\ k \in Nat \ {0}
                                        /\ renders'[k] = renders[k + 1]
      BY <2>2, FirstRenderGoes DEF ShutDown, CutInv
    <3>2. \A k \in DOMAIN renders' : renders'[k] \in Callers =>
            fetches[renders'[k]].at = "rendering"
      BY <3>1 DEF CutInv, RendersAreOwned
    <3>3. \A k, m \in DOMAIN renders' :
            renders'[k] = renders'[m] /\ renders'[k] \in Callers => k = m
      BY <3>1 DEF CutInv, RendersAreOwned
    <3> QED
      BY <1>1, <3>1, <3>2, <3>3 DEF RendersAreOwned
  <2> QED
    BY <2>1, <2>2
<1>3. LookupsAreOwned'
  BY <1>1 DEF CutInv, LookupsAreOwned
<1> QED
  BY <1>1, <1>2, <1>3 DEF CutInv, Whole

LEMMA PagesKept ==
  ASSUME CutInv, [FetchingNext]_fetchingVars
  PROVE  CutInv'
<1>1. ASSUME NEW c \in Callers, Fetch(c)
      PROVE  CutInv'
  BY <1>1, ResolveKeepsPages, TimeOutKeepsPages, TransportKeeps, AskKeepsPages,
    RenderTimeOutKeepsPages DEF Fetch
<1>2. ASSUME NEW i \in DOMAIN lookups, NEW a \in {"public", "other"}, LookupEnds(i, a)
      PROVE  CutInv'
  BY <1>2, LookupEndKeepsPages
<1>3. CASE StartRender \/ CloseReturns \/ (\E size \in {0, 1, 2} : PageRequests(size))
           \/ UNCHANGED fetchingVars
  <2>1. UNCHANGED <<fetches, lookups, renders>>
    BY <1>3 DEF StartRender, CloseReturns, PageRequests, fetchingVars
  <2> QED
    BY <2>1 DEF CutInv, LookupsAreOwned, RendersAreOwned, Whole
<1> QED
  BY <1>1, <1>2, <1>3, ResolversKeepPages, ClosingKeepsPages, EndRenderKeepsPages
    DEF FetchingNext

\* What is cut off, what is late, and who waits for what.
THEOREM PagesInvariant == FetchingSpec => []CutInv
<1>1. FetchingInit => CutInv
  <2> SUFFICES ASSUME FetchingInit PROVE CutInv
    OBVIOUS
  <2>1. NoFetch \in FetchRecords /\ Whole(NoFetch)
    BY DEF NoFetch, FetchRecords, Steps, Endings, Whole
  <2>2. fetches = [c \in Callers |-> NoFetch] /\ lookups = <<>> /\ renders = <<>>
    BY DEF FetchingInit
  <2> QED
    BY <2>1, <2>2 DEF CutInv, LookupsAreOwned, RendersAreOwned
<1> QED
  BY <1>1, PagesKept, PTL DEF FetchingSpec

\* transport.py: whichever of the reading thread and the watchdog comes first, a body the
\* watchdog cut off is neither an answer nor handed to the browser.
THEOREM CutPagesDropped == FetchingSpec => []CutPagesAreDropped
<1>1. CutInv => CutPagesAreDropped
  BY DEF CutInv, CutPagesAreDropped, Whole
<1> QED
  BY <1>1, PagesInvariant, PTL

-----------------------------------------------------------------------------
(* Requests to the news index *)


Fields == {"at", "query", "tries", "found", "news", "failed", "wake", "logged"}

\* A search is a record of these fields; what it has found needs no type.
IsSearch(r) == r = [f \in Fields |-> r[f]] /\ r.wake \in Nat

\* The slot that sleeps has the lock for itself.
OneSleeps ==
  \A s, t \in ResearchSlots : search[s].at = "asleep" /\ search[t].at = "asleep" => s = t

\* It sleeps until the interval after the last request is over.
SleepsLongEnough ==
  \A s \in ResearchSlots :
    search[s].at = "asleep" /\ admitted # <<>> => search[s].wake >= Last(admitted) + Interval

SpacingInv ==
  /\ search = [s \in ResearchSlots |-> search[s]]
  /\ \A s \in ResearchSlots : IsSearch(search[s])
  /\ admitted \in Seq(Nat)
  /\ now \in Nat
  /\ OneSleeps
  /\ SleepsLongEnough
  /\ RequestsAreSpaced

-----------------------------------------------------------------------------
(* Searches *)

LEMMA IdleSearch == IsSearch(NoSearch) /\ NoSearch.at = "idle"
BY DEF IsSearch, Fields, NoSearch

\* After a query a search goes on, or ends, where it is told to.
LEMMA QueryOver ==
  ASSUME NEW r, IsSearch(r), NEW next, NEW end
  PROVE  /\ IsSearch(AfterQuery(r, next, end))
         /\ AfterQuery(r, next, end).at \in {next, end}
<1>1. CASE r.query = Queries \/ Len(r.found) >= MaxResults
  BY <1>1 DEF AfterQuery, IsSearch, Fields
<1>2. CASE ~(r.query = Queries \/ Len(r.found) >= MaxResults)
  <2>1. AfterQuery(r, next, end) = [r EXCEPT !.at = next, !.query = r.query + 1, !.tries = 0]
    BY <1>2 DEF AfterQuery
  <2> QED
    BY <2>1 DEF IsSearch, Fields
<1> QED
  BY <1>1, <1>2

\* A step that puts no slot to sleep and sends no request keeps the invariant.
LEMMA AwakeStep ==
  ASSUME SpacingInv, NEW s \in ResearchSlots, NEW r, IsSearch(r), r.at # "asleep",
         Becomes(s, r), UNCHANGED <<admitted, now>>
  PROVE  SpacingInv'
<1>1. /\ search' = [t \in ResearchSlots |-> search'[t]]
      /\ \A t \in ResearchSlots : search'[t] = IF t = s THEN r ELSE search[t]
  BY DEF Becomes, SpacingInv
<1>2. \A t \in ResearchSlots : IsSearch(search'[t])
  BY <1>1 DEF SpacingInv
<1>3. OneSleeps' /\ SleepsLongEnough'
  BY <1>1 DEF SpacingInv, OneSleeps, SleepsLongEnough
<1> QED
  BY <1>1, <1>2, <1>3 DEF SpacingInv, RequestsAreSpaced, IsSearch

-----------------------------------------------------------------------------
(* The lock *)

LEMMA EnterGateKeeps ==
  ASSUME SpacingInv, NEW s \in ResearchSlots, EnterGate(s)
  PROVE  SpacingInv'
<1> USE NewsSearchAssumption
<1> DEFINE wake == IF admitted # <<>> /\ Last(admitted) + Interval > now
                   THEN Last(admitted) + Interval ELSE now
           r == [search[s] EXCEPT !.at = "asleep", !.wake = wake]
<1>1. admitted # <<>> => Last(admitted) \in Nat
  BY DEF SpacingInv, Last
<1>2. wake \in Nat /\ (admitted # <<>> => wake >= Last(admitted) + Interval)
  BY <1>1 DEF SpacingInv
<1>3. IsSearch(r) /\ r.at = "asleep" /\ r.wake = wake
  <2> HIDE DEF wake
  <2>1. IsSearch(search[s])
    BY DEF SpacingInv
  <2> QED
    BY <2>1, <1>2 DEF IsSearch, Fields
<1>4. \A t \in ResearchSlots : search'[t] = IF t = s THEN r ELSE search[t]
  BY DEF EnterGate, Becomes, SpacingInv
<1>5. search' = [t \in ResearchSlots |-> search'[t]] /\ UNCHANGED <<admitted, now>>
  BY DEF EnterGate, Becomes, SpacingInv
<1>6. \A t \in ResearchSlots : search[t].at # "asleep"
  BY DEF EnterGate, GateIsFree
<1> HIDE DEF r, wake
<1>7. OneSleeps' /\ SleepsLongEnough'
  BY <1>2, <1>3, <1>4, <1>5, <1>6 DEF OneSleeps, SleepsLongEnough
<1>8. \A t \in ResearchSlots : IsSearch(search'[t])
  BY <1>3, <1>4 DEF SpacingInv
<1> QED
  BY <1>5, <1>7, <1>8 DEF SpacingInv, RequestsAreSpaced, IsSearch

LEMMA LeaveGateKeeps ==
  ASSUME SpacingInv, NEW s \in ResearchSlots, LeaveGate(s)
  PROVE  SpacingInv'
<1> USE NewsSearchAssumption
<1> DEFINE r == [search[s] EXCEPT !.at = "gdelt", !.wake = 0]
<1>1. IsSearch(search[s])
  BY DEF SpacingInv
<1>2. IsSearch(r) /\ r.at = "gdelt"
  BY <1>1 DEF IsSearch, Fields
<1>3. \A t \in ResearchSlots : search'[t] = IF t = s THEN r ELSE search[t]
  BY DEF LeaveGate, Becomes, SpacingInv
<1>4. search' = [t \in ResearchSlots |-> search'[t]] /\ now' = now
  BY DEF LeaveGate, Becomes, SpacingInv
<1>5. \A t \in ResearchSlots : search'[t].at # "asleep"
  BY <1>2, <1>3 DEF SpacingInv, OneSleeps, LeaveGate
<1>6. /\ admitted \in Seq(Nat) /\ now \in Nat
      /\ admitted' = Append(admitted, now) /\ admitted' \in Seq(Nat)
  BY DEF LeaveGate, SpacingInv
<1>7. admitted # <<>> => now - admitted[Len(admitted)] >= Interval
  <2> SUFFICES ASSUME admitted # <<>> PROVE now - admitted[Len(admitted)] >= Interval
    OBVIOUS
  <2>1. now >= search[s].wake /\ search[s].wake >= Last(admitted) + Interval
    BY DEF LeaveGate, SpacingInv, SleepsLongEnough
  <2>2. Last(admitted) = admitted[Len(admitted)] /\ Last(admitted) \in Nat
    BY <1>6 DEF Last
  <2> QED
    BY <2>1, <2>2, <1>1, <1>6 DEF IsSearch
<1>8. RequestsAreSpaced'
  <2> SUFFICES ASSUME NEW i \in 1..(Len(admitted') - 1)
               PROVE  admitted'[i + 1] - admitted'[i] >= Interval
    BY DEF RequestsAreSpaced
  <2>1. Len(admitted') = Len(admitted) + 1 /\ Len(admitted) \in Nat /\ i \in 1..Len(admitted)
    BY <1>6
  <2>2. admitted'[i] = admitted[i]
    BY <1>6, <2>1
  <2>3. CASE i = Len(admitted)
    BY <1>6, <1>7, <2>1, <2>2, <2>3
  <2>4. CASE i < Len(admitted)
    BY <1>6, <2>1, <2>2, <2>4 DEF SpacingInv, RequestsAreSpaced
  <2> QED
    BY <2>1, <2>3, <2>4
<1>9. OneSleeps' /\ SleepsLongEnough'
  BY <1>5 DEF OneSleeps, SleepsLongEnough
<1>10. \A t \in ResearchSlots : IsSearch(search'[t])
  BY <1>2, <1>3 DEF SpacingInv
<1> QED
  BY <1>4, <1>6, <1>8, <1>9, <1>10 DEF SpacingInv, IsSearch

-----------------------------------------------------------------------------
(* Everything else *)

LEMMA SearchKeeps ==
  ASSUME SpacingInv, NEW s \in ResearchSlots,
         \/ StartSearch(s)
         \/ \E answer \in Answers : GdeltAnswers(s, answer) \/ NewsApiAnswers(s, answer)
         \/ \E limited \in BOOLEAN : GdeltFails(s, limited) \/ NewsApiFails(s, limited)
         \/ \E configured \in BOOLEAN : SearchOn(s, configured)
         \/ NewsApiEnds(s) \/ MergeNews(s)
  PROVE  SpacingInv'
<1>0. IsSearch(search[s])
  BY DEF SpacingInv
<1>1. CASE StartSearch(s)
  <2>1. IsSearch([NoSearch EXCEPT !.at = "gate"]) /\ [NoSearch EXCEPT !.at = "gate"].at = "gate"
    BY IdleSearch DEF IsSearch, Fields
  <2> QED
    BY <1>1, <2>1, AwakeStep DEF StartSearch
<1>2. ASSUME NEW answer \in Answers, GdeltAnswers(s, answer) \/ NewsApiAnswers(s, answer)
      PROVE  SpacingInv'
  <2> DEFINE r == [search[s] EXCEPT !.found = MergedInto(search[s].found, Articles(answer))]
  <2>1. IsSearch(r)
    BY <1>0 DEF IsSearch, Fields
  <2> HIDE DEF r
  <2>2. /\ IsSearch(AfterQuery(r, "gate", "found")) /\ AfterQuery(r, "gate", "found").at # "asleep"
        /\ IsSearch(AfterQuery(r, "newsapi", "kept")) /\ AfterQuery(r, "newsapi", "kept").at # "asleep"
    BY <2>1, QueryOver
  <2>3. /\ UNCHANGED <<admitted, now>>
        /\ \/ Becomes(s, AfterQuery(r, "gate", "found"))
           \/ Becomes(s, AfterQuery(r, "newsapi", "kept"))
    BY <1>2 DEF GdeltAnswers, NewsApiAnswers, r
  <2> QED
    BY <2>2, <2>3, AwakeStep
<1>3. ASSUME NEW limited \in BOOLEAN, GdeltFails(s, limited)
      PROVE  SpacingInv'
  <2> DEFINE failed == [search[s] EXCEPT !.failed = TRUE]
             again == [search[s] EXCEPT !.at = "gate", !.tries = 1]
             ended == [failed EXCEPT !.at = "found"]
             over == AfterQuery(failed, "gate", "found")
  <2>1. IsSearch(failed)
    BY <1>0 DEF IsSearch, Fields
  <2>2. IsSearch(again) /\ again.at = "gate"
    BY <1>0 DEF IsSearch, Fields
  <2>3. IsSearch(ended) /\ ended.at = "found" /\ IsSearch(over) /\ over.at # "asleep"
    <3> HIDE DEF failed
    <3> QED
      BY <2>1, QueryOver DEF IsSearch, Fields
  <2>4. /\ UNCHANGED <<admitted, now>>
        /\ Becomes(s, again) \/ Becomes(s, ended) \/ Becomes(s, over)
    BY <1>3 DEF GdeltFails
  <2> HIDE DEF failed, again, ended, over
  <2> QED
    BY <2>2, <2>3, <2>4, AwakeStep
<1>4. ASSUME NEW limited \in BOOLEAN, NewsApiFails(s, limited)
      PROVE  SpacingInv'
  <2> DEFINE again == [search[s] EXCEPT !.tries = 1]
             ended == [search[s] EXCEPT !.at = "kept", !.failed = TRUE]
  <2>1. IsSearch(again) /\ again.at = "newsapi" /\ IsSearch(ended) /\ ended.at = "kept"
    BY <1>0, <1>4 DEF NewsApiFails, IsSearch, Fields
  <2>2. UNCHANGED <<admitted, now>> /\ (Becomes(s, again) \/ Becomes(s, ended))
    BY <1>4 DEF NewsApiFails
  <2> HIDE DEF again, ended
  <2> QED
    BY <2>1, <2>2, AwakeStep
<1>5. ASSUME NEW configured \in BOOLEAN, SearchOn(s, configured)
      PROVE  SpacingInv'
  <2> DEFINE news == [search[s] EXCEPT !.news = search[s].found, !.found = <<>>, !.failed = FALSE,
                        !.query = 1, !.tries = 0, !.logged = GdeltLogged(s)]
             on == [news EXCEPT !.at = "newsapi"]
             off == [news EXCEPT !.at = "done",
                                 !.logged = Append(@, Line("newsapi skipped", NoStats))]
  <2>1. IsSearch(news)
    BY <1>0 DEF IsSearch, Fields
  <2>2. IsSearch(on) /\ on.at = "newsapi" /\ IsSearch(off) /\ off.at = "done"
    <3> HIDE DEF news
    <3> QED
      BY <2>1 DEF IsSearch, Fields
  <2>3. UNCHANGED <<admitted, now>> /\ (Becomes(s, on) \/ Becomes(s, off))
    BY <1>5 DEF SearchOn
  <2> HIDE DEF news, on, off
  <2> QED
    BY <2>2, <2>3, AwakeStep
<1>6. CASE NewsApiEnds(s)
  <2> DEFINE ended == [search[s] EXCEPT !.at = "done",
                                        !.logged = Append(@, Line("newsapi error", NoStats))]
             kept == [search[s] EXCEPT !.at = "merge"]
  <2>1. IsSearch(ended) /\ ended.at = "done" /\ IsSearch(kept) /\ kept.at = "merge"
    BY <1>0 DEF IsSearch, Fields
  <2>2. UNCHANGED <<admitted, now>> /\ (Becomes(s, ended) \/ Becomes(s, kept))
    BY <1>6 DEF NewsApiEnds
  <2> HIDE DEF ended, kept
  <2> QED
    BY <2>1, <2>2, AwakeStep
<1>7. CASE MergeNews(s)
  <2> DEFINE added == SelectSeq(search[s].found, LAMBDA a : a.url \notin Urls(search[s].news))
             done == [search[s] EXCEPT !.at = "done", !.found = <<>>, !.news = @ \o added,
                                       !.logged = Append(@, Line("newsapi ok", lastStats))]
  <2>1. Becomes(s, done) /\ UNCHANGED <<admitted, now>>
    BY <1>7 DEF MergeNews
  <2>2. IsSearch(done) /\ done.at = "done"
    <3> HIDE DEF added
    <3> QED
      BY <1>0 DEF IsSearch, Fields
  <2> HIDE DEF added, done
  <2> QED
    BY <2>1, <2>2, AwakeStep
<1> QED
  BY <1>1, <1>2, <1>3, <1>4, <1>5, <1>6, <1>7

LEMMA TickKeeps ==
  ASSUME SpacingInv, NewsTick
  PROVE  SpacingInv'
BY DEF SpacingInv, NewsTick, IsSearch, OneSleeps, SleepsLongEnough, RequestsAreSpaced

LEMMA StutterKeeps ==
  ASSUME SpacingInv, UNCHANGED newsVars
  PROVE  SpacingInv'
BY DEF SpacingInv, newsVars, IsSearch, OneSleeps, SleepsLongEnough, RequestsAreSpaced

\* The strengthened invariant of the news search holds for any slots and answers.
THEOREM SpacingInvariant == NewsSpec => []SpacingInv
<1>1. NewsInit => SpacingInv
  BY IdleSearch DEF NewsInit, SpacingInv, OneSleeps, SleepsLongEnough, RequestsAreSpaced
<1>2. SpacingInv /\ [NewsNext]_newsVars => SpacingInv'
  BY EnterGateKeeps, LeaveGateKeeps, SearchKeeps, TickKeeps, StutterKeeps DEF NewsNext
<1> QED
  BY <1>1, <1>2, PTL DEF NewsSpec

\* gdelt.py: whatever the slots do, two requests to GDELT, retries included, leave the
\* lock at least the interval apart.
THEOREM SpacedRequests == NewsSpec => []RequestsAreSpaced
<1>1. SpacingInv => RequestsAreSpaced
  BY DEF SpacingInv
<1> QED
  BY <1>1, SpacingInvariant, PTL
=============================================================================

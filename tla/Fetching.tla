------------------------------- MODULE Fetching -------------------------------
(***************************************************************************)
(* How one address is fetched: resolve_public with its shared DNS slots    *)
(* (collection/safety.py), SafeHTTPTransport.fetch with its watchdog       *)
(* (collection/transport.py), and BrowserRenderingTransport with its one   *)
(* browser thread (collection/rendering.py).                               *)
(*                                                                         *)
(* Time is whether the deadline of a fetch has passed; what servers, names *)
(* and scripts do is chosen.                                               *)
(***************************************************************************)
EXTENDS Integers, Sequences, FiniteSets, SequencesExt

CONSTANTS
  Callers,      \* threads that fetch
  Nobody,       \* the caller of a lookup or a render that is not waited for any more
  DnsSlots,     \* DNS slots, and resolver threads
  MaxRequests,  \* requests a page may make while it is rendered
  MaxBytes,     \* bytes they may bring
  MaxRenders    \* bound on the jobs that wait for the browser thread

ASSUME FetchingAssumption == DnsSlots \in Nat \ {0} /\ MaxRequests \in Nat /\ MaxBytes \in Nat
                            /\ MaxRenders \in Nat
                            /\ Nobody \notin Callers
                            /\ "shutdown" \notin Callers \union {Nobody}

VARIABLES
  fetches,  \* the fetch of each caller
  lookups,  \* DNS lookups that were admitted, oldest first
  renders,  \* jobs of the browser thread, the first may be running
  browser   \* the browser, close() and the page being rendered

fetchingVars == <<fetches, lookups, renders, browser>>

NoFetch == [at |-> "idle", late |-> FALSE, shut |-> FALSE, armed |-> FALSE, cut |-> "",
            answer |-> ""]

Enters(c, at) == fetches' = [fetches EXCEPT ![c].at = at]
Ends(c, answer) ==
  fetches' = [fetches EXCEPT ![c] = [NoFetch EXCEPT !.answer = answer, !.cut = fetches[c].cut]]

FetchingInit ==
  /\ fetches = [c \in Callers |-> NoFetch]
  /\ lookups = <<>>
  /\ renders = <<>>
  /\ browser = [open |-> FALSE, running |-> FALSE, requests |-> 0, bytes |-> 0,
                withheld |-> FALSE,
                close |-> "no", down |-> FALSE]

-----------------------------------------------------------------------------
(* resolve_public: at most DnsSlots lookups are admitted, each to a resolver thread *)

Looking == {i \in DOMAIN lookups : lookups[i].at = "looking"}
Queued == {i \in DOMAIN lookups : lookups[i].at = "queued"}
OnlyLookups == UNCHANGED <<renders, browser>>

\* Mutant: a caller that gives up gives its slot back.
WhileWaitedFor(lookup) == lookup.at # "ending" /\ lookup.of # Nobody

\* The slot belongs to the lookup, until getaddrinfo has returned.
HoldsSlot(lookup) == lookup.at # "ending"

Resolve(c) ==
  /\ fetches[c].at = "idle"
  /\ LET held == {i \in DOMAIN lookups : HoldsSlot(lookups[i])} IN
     IF Cardinality(held) >= DnsSlots
     THEN fetches' = [fetches EXCEPT ![c] = [NoFetch EXCEPT !.answer = "dns_busy"]]
          /\ UNCHANGED lookups
     ELSE /\ fetches' = [fetches EXCEPT ![c] = [NoFetch EXCEPT !.at = "resolving"]]
          /\ lookups' = Append(lookups, [of |-> c, at |-> "queued"])
  /\ OnlyLookups

\* A resolver thread takes the oldest lookup; one that has given its slot back is
\* busy until its result is set.
StartLookup ==
  /\ Cardinality(DOMAIN lookups \ Queued) < DnsSlots
  /\ \E i \in Queued : /\ \A k \in Queued : i <= k
                       /\ lookups' = [lookups EXCEPT ![i].at = "looking"]
  /\ UNCHANGED fetches /\ OnlyLookups

ReleaseSlot(i) ==
  /\ i \in Looking
  /\ lookups' = [lookups EXCEPT ![i].at = "ending"]
  /\ UNCHANGED fetches /\ OnlyLookups

\* Addresses that are not all public, none, or an error of the resolver end the fetch.
LookupEnds(i, addresses) ==
  /\ i \in DOMAIN lookups /\ lookups[i].at = "ending"
  /\ lookups' = RemoveAt(lookups, i)
  /\ LET c == lookups[i].of IN
     IF c = Nobody THEN UNCHANGED fetches
     ELSE IF addresses = "public" THEN Enters(c, "resolved") ELSE Ends(c, "failed")
  /\ OnlyLookups

\* The caller stops waiting; the lookup goes on.
LookupTimesOut(c) ==
  /\ fetches[c].at = "resolving" /\ fetches[c].late
  /\ lookups' = [i \in DOMAIN lookups |->
                   IF lookups[i].of = c THEN [lookups[i] EXCEPT !.of = Nobody] ELSE lookups[i]]
  /\ Ends(c, "timeout") /\ OnlyLookups

-----------------------------------------------------------------------------
(* SafeHTTPTransport.fetch and its Timer *)

OnlyFetches == UNCHANGED <<lookups, renders, browser>>

DeadlinePasses(c) ==
  /\ fetches[c].at # "idle" /\ ~fetches[c].late
  /\ fetches' = [fetches EXCEPT ![c].late = TRUE]
  /\ OnlyFetches

\* The timer is armed before the socket is connected.
Connect(c) ==
  /\ fetches[c].at = "resolved"
  /\ IF fetches[c].late THEN Ends(c, "timeout")
     ELSE fetches' = [fetches EXCEPT ![c].at = "connecting", ![c].armed = TRUE]
  /\ OnlyFetches

\* expire: the active socket is shut down.  While a socket is being wrapped for TLS the
\* active one is detached already, and shutting it down does nothing.
WatchdogFires(c) ==
  /\ fetches[c].armed /\ fetches[c].late
  /\ fetches' = [fetches EXCEPT ![c].armed = FALSE, ![c].shut = fetches[c].at # "wrapping"]
  /\ OnlyFetches

Wrap(c) ==
  /\ fetches[c].at = "connecting" /\ ~fetches[c].shut
  /\ Enters(c, "wrapping") /\ OnlyFetches

\* Handshake (or none) and request.
SendRequest(c) ==
  /\ fetches[c].at \in {"connecting", "wrapping"} /\ ~fetches[c].shut
  /\ Enters(c, "waiting") /\ OnlyFetches

\* A peer that fails or resets, a response that is refused, or a socket that was shut.
FetchBreaks(c) ==
  /\ fetches[c].at \in {"connecting", "wrapping", "waiting", "reading"}
  /\ Ends(c, "failed") /\ OnlyFetches

\* A redirect is returned without its body, late or not.
Headers(c, redirect) ==
  /\ fetches[c].at = "waiting" /\ ~fetches[c].shut
  /\ IF redirect THEN Ends(c, "redirect") ELSE Enters(c, "reading")
  /\ OnlyFetches

\* read() returns what has come when the connection ends, whoever ended it.
ReadBody(c) ==
  /\ fetches[c].at = "reading"
  /\ \E cut \in {IF fetches[c].shut THEN "watchdog" ELSE "", "peer"} :
       fetches' = [fetches EXCEPT ![c].at = "read", ![c].cut = cut]
  /\ OnlyFetches

\* Mutant: the watchdog alone keeps the deadline.
AnyTime(c) == TRUE

InTime(c) == ~fetches[c].late

\* A body that is too large is refused; one that is late too.
ReturnBody(c) ==
  /\ fetches[c].at = "read"
  /\ \/ Ends(c, "failed")
     \/ IF ~InTime(c) THEN Ends(c, "timeout")
        ELSE \/ Ends(c, "page")
             \/ fetches' = [fetches EXCEPT ![c].at = "shell", ![c].armed = FALSE, ![c].shut = FALSE]
  /\ OnlyFetches

-----------------------------------------------------------------------------
(* BrowserRenderingTransport *)

\* Mutant: renders are accepted after close.
OpenOrClosed == TRUE

\* The lock is held while close() waits for the browser thread.
Accepting == browser.close = "no"

\* A page that looks like a shell of scripts is handed to the browser thread.
AskRender(c) ==
  /\ fetches[c].at = "shell" /\ browser.close # "waiting" /\ Len(renders) < MaxRenders
  /\ IF fetches[c].late THEN Ends(c, "timeout") /\ UNCHANGED renders
     ELSE IF ~Accepting \/ browser.close = "closed"
     THEN Ends(c, "failed") /\ UNCHANGED renders
     ELSE Enters(c, "rendering") /\ renders' = Append(renders, c)
  /\ UNCHANGED <<lookups, browser>>

\* The caller waits for five seconds more than it has.
RenderTimesOut(c) ==
  /\ fetches[c].at = "rendering" /\ fetches[c].late
  /\ renders' = [i \in DOMAIN renders |-> IF renders[i] = c THEN Nobody ELSE renders[i]]
  /\ Ends(c, "timeout")
  /\ UNCHANGED <<lookups, browser>>

\* The deadline of a render starts anew here, also when nobody waits for it.
StartRender ==
  /\ ~browser.running /\ renders # <<>> /\ Head(renders) # "shutdown"
  /\ browser' = [browser EXCEPT !.open = TRUE, !.running = TRUE, !.requests = 0, !.bytes = 0,
                               !.withheld = FALSE]
  /\ UNCHANGED <<fetches, lookups, renders>>

\* A script or a call of the page is fetched within the budget of requests; what comes
\* over the budget of bytes is counted and withheld.
PageRequests(size) ==
  /\ browser.running /\ browser.requests < MaxRequests
  /\ browser' = [browser EXCEPT !.requests = @ + 1, !.bytes = @ + size,
                                !.withheld = @ \/ browser.bytes + size > MaxBytes]
  /\ UNCHANGED <<fetches, lookups, renders>>

\* A browser that does not start, a late or too large page, or the rendered page.
EndRender(answer) ==
  /\ renders # <<>> /\ Head(renders) # "shutdown"
  /\ browser.running \/ answer = "failed"
  /\ renders' = Tail(renders)
  /\ browser' = [browser EXCEPT !.running = FALSE]
  /\ IF Head(renders) = Nobody THEN UNCHANGED fetches ELSE Ends(Head(renders), answer)
  /\ UNCHANGED lookups

CloseBrowser ==
  /\ browser.close = "no"
  /\ browser' = [browser EXCEPT !.close = "waiting"]
  /\ renders' = Append(renders, "shutdown")
  /\ UNCHANGED <<fetches, lookups>>

\* _shutdown, behind the renders that were accepted before.
ShutDown ==
  /\ ~browser.running /\ renders # <<>> /\ Head(renders) = "shutdown"
  /\ renders' = Tail(renders)
  /\ browser' = [browser EXCEPT !.open = FALSE, !.down = TRUE]
  /\ UNCHANGED <<fetches, lookups>>

\* close() goes on and the executor takes no more jobs, or it waited too long.
CloseReturns ==
  /\ browser.close = "waiting"
  /\ browser' = [browser EXCEPT !.close = IF browser.down THEN "closed" ELSE "overdue"]
  /\ UNCHANGED <<fetches, lookups, renders>>

Fetch(c) ==
  \/ Resolve(c) \/ LookupTimesOut(c) \/ DeadlinePasses(c) \/ Connect(c) \/ WatchdogFires(c)
  \/ Wrap(c) \/ SendRequest(c) \/ FetchBreaks(c) \/ ReadBody(c) \/ ReturnBody(c)
  \/ \E redirect \in BOOLEAN : Headers(c, redirect)
  \/ AskRender(c) \/ RenderTimesOut(c)

FetchingNext ==
  \/ \E c \in Callers : Fetch(c)
  \/ StartLookup
  \/ \E i \in DOMAIN lookups : \/ ReleaseSlot(i)
                               \/ \E a \in {"public", "other"} : LookupEnds(i, a)
  \/ StartRender \/ CloseBrowser \/ ShutDown \/ CloseReturns
  \/ \E size \in {0, 1, 2} : PageRequests(size)
  \/ \E answer \in {"page", "failed", "timeout"} : EndRender(answer)

FetchingSpec == FetchingInit /\ [][FetchingNext]_fetchingVars

-----------------------------------------------------------------------------
(* Properties *)

\* The slots keep lookups from piling up behind names that hang: one that is admitted
\* waits at most for a resolver thread that has its answer already, although lookups
\* outlive the callers that gave up on them.
AdmittedLookupsRun == Queued # {} => Cardinality(Looking) < DnsSlots

\* A page that the watchdog cut off is never taken for a whole one, whichever of the
\* reading thread and the timer comes first.
CutPagesAreDropped ==
  \A c \in Callers : fetches[c].answer = "page" \/ fetches[c].at = "shell" =>
                       fetches[c].cut # "watchdog"

\* Once close() has shut the browser down no render starts another, also when close()
\* itself gave up waiting behind a long render.
ShutDownIsFinal == browser.down => ~browser.open /\ renders = <<>>
=============================================================================

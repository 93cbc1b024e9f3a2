----------------------------- MODULE UsageView -----------------------------
(***************************************************************************)
(* The usage page of the dashboard: a snapshot of each range is kept for   *)
(* as long as the document lives and shown at once, while the page asks    *)
(* for a newer one; requests overlap and answer in any order.              *)
(*                                                                         *)
(* The usage itself is the ledger of module Usage: here it is a version    *)
(* that only grows.  The two requests for the usage of the user and of the *)
(* organization follow each other and are one here.                        *)
(***************************************************************************)
EXTENDS Naturals

CONSTANTS
  Period,       \* ranges of days
  First,        \* the one that a visit begins with
  Fetch,        \* requests, bound: of those under way
  MaxVersion,   \* bound: versions of the ledger
  MaxLoads      \* bound: requests of one visit of the page

ASSUME UsageViewAssumption == First \in Period /\ MaxVersion \in Nat /\ MaxLoads \in Nat

VARIABLES
  ledger,       \* the version of the usage
  period,       \* the range that is selected
  view,         \* what is shown: the range and version of a snapshot
  cache,        \* the version of the snapshot that is kept of each range
  sequence,     \* requestSequence of this visit of the page
  refreshing,   \* the button waits
  visit,        \* whether the page is there, and whether it is the first time
  fetch         \* the requests

usageViewVars == <<ledger, period, view, cache, sequence, refreshing, visit, fetch>>

NoSnapshot == [what |-> "loading", of |-> 0]
NoFetch == [stage |-> "none", period |-> First, id |-> 0, of |-> 0,
            aborted |-> FALSE, signal |-> FALSE, mine |-> FALSE]

Loading == [what |-> "loading", period |-> First, of |-> 0]
Snapshot(p, v) == [what |-> "ready", period |-> p, of |-> v]
Cached(p) == IF cache[p] # NoSnapshot THEN Snapshot(p, cache[p].of) ELSE Loading

---------------------------------------------------------------------------
\* Requests that have a signal reject when the effect of their range is cleaned up.
CleanedUp ==
  [q \in Fetch |-> IF fetch[q].mine /\ fetch[q].signal
                     THEN [fetch[q] EXCEPT !.aborted = TRUE] ELSE fetch[q]]

\* loadUsage: the newest request of the page.
LoadUsage(fetches, p, signal) ==
  \E q \in Fetch :
    /\ fetches[q].stage = "none" /\ sequence < MaxLoads
    /\ sequence' = sequence + 1
    /\ refreshing' = TRUE
    /\ fetch' = [fetches EXCEPT ![q] =
         [NoFetch EXCEPT !.stage = "asked", !.period = p, !.id = sequence + 1,
                         !.signal = signal, !.mine = TRUE]]

\* The effect of a range: what is kept of it is shown, and a newer one asked for.
SelectPeriod(p) ==
  /\ visit = "open" /\ p # period
  /\ period' = p
  /\ view' = Cached(p)
  /\ LoadUsage(CleanedUp, p, TRUE)
  /\ UNCHANGED <<ledger, cache, visit>>

\* The button waits; to try again after an error does not.
ReloadUsage ==
  /\ visit = "open"
  /\ ~refreshing \/ view.what = "error"
  /\ LoadUsage(fetch, period, FALSE)
  /\ UNCHANGED <<ledger, period, view, cache, visit>>

UsageGrows ==
  /\ ledger < MaxVersion
  /\ ledger' = ledger + 1
  /\ UNCHANGED <<period, view, cache, sequence, refreshing, visit, fetch>>

\* The server answers; the answer is under way.
ServeUsage(q) ==
  /\ fetch[q].stage = "asked" /\ ~fetch[q].aborted
  /\ \E stage \in {"answered", "failed"} :
       fetch' = [fetch EXCEPT ![q].stage = stage, ![q].of = ledger]
  /\ UNCHANGED <<ledger, period, view, cache, sequence, refreshing, visit>>

\* Only the newest request of the page may.
Newest(q) == fetch[q].mine /\ fetch[q].id = sequence

\* The counter is one of each visit: what the newest request of an earlier visit
\* fetched is kept, however late (id 0, see CloseUsage).
NewestThen(q) == Newest(q) \/ (~fetch[q].mine /\ fetch[q].id = 0)

Remembered(q) == [cache EXCEPT ![fetch[q].period] = [what |-> "ready", of |-> fetch[q].of]]

TakeUsage(q) ==
  /\ fetch[q].stage \in {"answered", "failed"} \/ fetch[q].aborted
  /\ LET answered == fetch[q].stage = "answered" /\ ~fetch[q].aborted
         p == fetch[q].period
     IN /\ cache' = IF answered /\ NewestThen(q) THEN Remembered(q) ELSE cache
        /\ view' = IF ~Newest(q) THEN view
                   ELSE IF answered THEN Snapshot(p, fetch[q].of)
                   ELSE IF fetch[q].aborted \/ cache[p] # NoSnapshot THEN view
                   ELSE [Loading EXCEPT !.what = "error"]
        /\ refreshing' = (refreshing /\ ~Newest(q))
  /\ fetch' = [fetch EXCEPT ![q] = NoFetch]
  /\ UNCHANGED <<ledger, period, sequence, visit>>

\* What is left of a visit belongs to no page.
CloseUsage ==
  /\ visit = "open"
  /\ visit' = "closed"
  /\ fetch' = [q \in Fetch |->
       [CleanedUp[q] EXCEPT !.mine = FALSE, !.id = IF Newest(q) THEN 0 ELSE @]]
  /\ sequence' = 0 /\ refreshing' = FALSE /\ view' = Loading
  /\ UNCHANGED <<ledger, period, cache>>

OpenUsage ==
  /\ visit = "closed"
  /\ visit' = "open"
  /\ period' = First
  /\ view' = Cached(period')
  /\ LoadUsage(fetch, period', TRUE)
  /\ UNCHANGED <<ledger, cache>>

UsageViewInit ==
  /\ ledger = 0 /\ period = First /\ view = Loading
  /\ cache = [p \in Period |-> NoSnapshot]
  /\ sequence = 0 /\ refreshing = FALSE /\ visit = "closed"
  /\ fetch = [q \in Fetch |-> NoFetch]

UsageViewNext ==
  \/ \E p \in Period : SelectPeriod(p)
  \/ ReloadUsage \/ UsageGrows \/ CloseUsage \/ OpenUsage
  \/ \E q \in Fetch : ServeUsage(q) \/ TakeUsage(q)

---------------------------------------------------------------------------
(* Properties *)

UsageViewTypeOK ==
  /\ {ledger, sequence} \subseteq 0..(MaxVersion + MaxLoads) /\ period \in Period
  /\ refreshing \in BOOLEAN /\ visit \in {"open", "closed"}
  /\ view.what \in {"loading", "ready", "error"} /\ view.of \in 0..ledger
  /\ \A p \in Period : cache[p].of \in 0..ledger
  /\ \A q \in Fetch : fetch[q].stage \in {"none", "asked", "answered", "failed"}

\* A snapshot on the page is one of the selected range, and the button waits as
\* long as the newest request does, no longer (loadUsage).
UsageIsOfRange ==
  /\ view.what = "ready" => view.period = period
  /\ refreshing <=> visit = "open" /\ \E q \in Fetch : fetch[q].stage # "none" /\ Newest(q)

\* While the page stays at one range its usage never goes back.
UsageNeverGoesBack ==
  [][view.what = "ready" /\ visit' = "open" /\ period' = period =>
       view'.what = "ready" /\ view'.of >= view.of]_usageViewVars
=============================================================================

------------------------------ MODULE Traffic ------------------------------
(***************************************************************************)
(* HTTP requests to published services and the two limiters they pass: the *)
(* connection limiter, whose lease a response holds until its body ends,   *)
(* and the bandwidth limiter, which counts every chunk of a request or a   *)
(* response in fixed windows.                                              *)
(*                                                                         *)
(* A limiter keeps a counter for the host, one for each worker, one for    *)
(* each organization and one for each route. They are one set of keys here.*)
(***************************************************************************)
EXTENDS Integers, FiniteSets

CONSTANTS
  Download,       \* requests to published services
  Key,            \* global, and the workers, organizations and routes
  Scope,          \* the four keys of each request
  LeaseLimit,     \* NEBULA_PUBLICATION_*CONNECTION_LIMIT of each key
  ByteLimit,      \* NEBULA_PUBLICATION_*BANDWIDTH of each key
  Window,         \* length of a bandwidth window, in ticks
  Sizes,          \* sizes of chunks and of declared bodies
  MaxTicks        \* bound: ticks of the clock

ASSUME ScopeAssumption == IsFiniteSet(Download) /\ Scope \in [Download -> SUBSET Key]
ASSUME LimiterAssumption ==
  LeaseLimit \in [Key -> Nat \ {0}] /\ ByteLimit \in [Key -> Nat \ {0}]
ASSUME WindowAssumption == Window \in Nat \ {0} /\ Sizes \subseteq Nat \ {0} /\ MaxTicks \in Nat

VARIABLES
  leases,    \* PublicationConnectionLimiter: leases of each key
  meter,     \* PublicationBandwidthLimiter: the window of each key
  download,  \* the requests
  passed,    \* history: bytes let through until the end of each tick, for each key
  tick       \* the clock

trafficVars == <<leases, meter, download, passed, tick>>

---------------------------------------------------------------------------
(* The limiters *)

HasLease(d) == \A k \in Scope[d] : leases[k] < LeaseLimit[k]

Leased(d, n) == [k \in Key |-> IF k \in Scope[d] THEN leases[k] + n ELSE leases[k]]

\* A window that is over counts nothing.
InWindow(k) == IF tick - meter[k].start >= Window THEN 0 ELSE meter[k].bytes

CanConsume(d, n) == \A k \in Scope[d] : InWindow(k) + n <= ByteLimit[k]

\* Mutant: every chunk begins a window.
MeteredAnew(d, n) ==
  [k \in Key |-> IF k \in Scope[d] THEN [start |-> tick, bytes |-> InWindow(k) + n]
                                     ELSE meter[k]]

\* A window begins with the first bytes that are counted in it.
Metered(d, n) ==
  [k \in Key |-> IF k \in Scope[d]
    THEN [start |-> IF InWindow(k) = 0 THEN tick ELSE meter[k].start, bytes |-> InWindow(k) + n]
    ELSE meter[k]]

Consume(d, n) ==
  /\ CanConsume(d, n)
  /\ meter' = Metered(d, n)
  /\ passed' = [k \in Key |->
       [t \in 0..MaxTicks |-> IF k \in Scope[d] /\ t >= tick THEN passed[k][t] + n
                                                          ELSE passed[k][t]]]

---------------------------------------------------------------------------
(* A request *)

\* phase: "worker" while the worker is asked, "streaming" while its response is
\* read, "cancelling" while the read of a refused body is cancelled.
\* lease: release() was not called yet.
NoDownload == [phase |-> "idle", lease |-> FALSE, gone |-> FALSE]

\* release() does nothing the second time.
Released(d) == IF download[d].lease THEN Leased(d, -1) ELSE leases

\* 405, 426, 404 or, while publications are paused, 503; also 401 without the
\* token of a private service.
Refused(d) == download' = [download EXCEPT ![d].phase = "ended"] /\ UNCHANGED leases

\* Both limiters, 429: a declared length is tested and not yet charged.
ArriveDownload(d) ==
  /\ download[d].phase = "idle"
  /\ \E declared \in {0} \cup Sizes :
       \/ Refused(d)
       \/ /\ declared = 0 \/ CanConsume(d, declared)
          /\ HasLease(d)
          /\ download' = [download EXCEPT ![d].phase = "worker", ![d].lease = TRUE]
          /\ leases' = Leased(d, 1)
  /\ UNCHANGED <<meter, passed, tick>>

\* A chunk of the request's body on its way to the worker; over the limit the
\* body breaks, and with it the call.
SendChunk(d) ==
  /\ download[d].phase = "worker"
  /\ \E n \in Sizes :
       \/ Consume(d, n) /\ UNCHANGED <<download, leases>>
       \/ /\ ~CanConsume(d, n)
          /\ download' = [download EXCEPT ![d].phase = "ended", ![d].lease = FALSE]
          /\ leases' = Released(d)
          /\ UNCHANGED <<meter, passed>>
  /\ UNCHANGED tick

\* The worker answers, with a body or without, or the call fails or is aborted.
WorkerReplies(d) ==
  /\ download[d].phase = "worker"
  /\ \/ download' = [download EXCEPT ![d].phase = "streaming"] /\ UNCHANGED leases
     \/ /\ download' = [download EXCEPT ![d].phase = "ended", ![d].lease = FALSE]
        /\ leases' = Released(d)
  /\ UNCHANGED <<meter, passed, tick>>

\* A chunk of the response; over the limit its reader is cancelled.
ReceiveChunk(d) ==
  /\ download[d].phase = "streaming" /\ ~download[d].gone
  /\ \E n \in Sizes :
       \/ Consume(d, n) /\ UNCHANGED download
       \/ /\ ~CanConsume(d, n)
          /\ download' = [download EXCEPT ![d].phase = "cancelling"]
          /\ UNCHANGED <<meter, passed>>
  /\ UNCHANGED <<leases, tick>>

\* Mutant: the end of a body does not call release().
EndResponseHeld(d) ==
  /\ download[d].phase \in {"streaming", "cancelling"}
  /\ download' = [download EXCEPT ![d].phase = "ended"]
  /\ UNCHANGED <<leases, meter, passed, tick>>

\* The body ends or breaks, or the cancelled reader is done.
EndResponse(d) ==
  /\ download[d].phase \in {"streaming", "cancelling"}
  /\ download' = [download EXCEPT ![d].phase = "ended", ![d].lease = FALSE]
  /\ leases' = Released(d)
  /\ UNCHANGED <<meter, passed, tick>>

\* The client cancels the body; a read that was under way still ends it.
CancelResponse(d) ==
  /\ download[d].phase \in {"streaming", "cancelling"} /\ ~download[d].gone
  /\ download' = [download EXCEPT ![d].gone = TRUE, ![d].lease = FALSE]
  /\ leases' = Released(d)
  /\ UNCHANGED <<meter, passed, tick>>

Tick ==
  /\ tick < MaxTicks
  /\ tick' = tick + 1
  /\ UNCHANGED <<leases, meter, download, passed>>

TrafficInit ==
  /\ leases = [k \in Key |-> 0]
  /\ meter = [k \in Key |-> [start |-> 0, bytes |-> 0]]
  /\ download = [d \in Download |-> NoDownload]
  /\ passed = [k \in Key |-> [t \in 0..MaxTicks |-> 0]]
  /\ tick = 0

TrafficNext ==
  \/ \E d \in Download :
       \/ ArriveDownload(d) \/ SendChunk(d) \/ WorkerReplies(d) \/ ReceiveChunk(d)
       \/ EndResponse(d) \/ CancelResponse(d)
  \/ Tick

---------------------------------------------------------------------------
(* Properties *)

TrafficTypeOK ==
  /\ leases \in [Key -> Nat]
  /\ meter \in [Key -> [start : 0..MaxTicks, bytes : Nat]]
  /\ \A d \in Download : download[d].phase \in {"idle", "worker", "streaming", "cancelling", "ended"}
  /\ passed \in [Key -> [0..MaxTicks -> Nat]]
  /\ tick \in 0..MaxTicks

\* A request that was let through and whose response neither ended nor was
\* cancelled by its client, whatever became of its lease.
OpenResponse(x) == x.phase \in {"worker", "streaming", "cancelling"} /\ ~x.gone

\* Every counter of the connection limiter is the number of responses that are
\* still open, whichever of end, error, refusal and cancellation came first or
\* came twice, and never above its limit: responseWithLease and release().
LeasesBalance ==
  \A k \in Key :
    /\ leases[k] = Cardinality({d \in Download : OpenResponse(download[d]) /\ k \in Scope[d]})
    /\ leases[k] <= LeaseLimit[k]

\* The bytes that were let through from tick t on.
Since(k, t) == passed[k][tick] - IF t <= 0 THEN 0 ELSE passed[k][t - 1]

\* Every byte that is let through is charged to all four keys and a refused one
\* to none, so that a window never passes more than its limit, and any interval
\* as long as a window never more than twice that: tryConsume checks every key
\* before it charges the first.
BytesAreMetered ==
  \A k \in Key :
    /\ InWindow(k) = IF tick - meter[k].start >= Window THEN 0
                     ELSE Since(k, meter[k].start)
    /\ InWindow(k) <= ByteLimit[k]
    /\ Since(k, tick - Window + 1) <= 2 * ByteLimit[k]
============================================================================

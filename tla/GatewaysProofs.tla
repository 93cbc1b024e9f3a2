---------------------------- MODULE GatewaysProofs ----------------------------
(***************************************************************************)
(* Proofs about the gateways, each for any requests, limits, sockets and   *)
(* workers: the calls of a worker, the limiters of the published services, *)
(* the console bridge and the usage ledger; and about the four together.   *)
(***************************************************************************)
EXTENDS MCGateways, FiniteSetTheorems, TLAPS

CallsSpec == CallsInit /\ [][CallsNext]_callVars

TrafficSpec == TrafficInit /\ [][TrafficNext]_trafficVars

ConsoleSpec == ConsoleInit /\ [][ConsoleNext]_consoleVars

UsageSpec == UsageInit /\ [][UsageNext]_usageVars

---------------------------------------------------------------------------
(* Calls of a worker *)

Connections == [address : Address, key : KeyId]

CallPhases == {"idle", "create", "last", "good", "retryable", "final", "aborted"}

CallRecords == [phase : CallPhases, kind : Kind, row : Connections \cup {NoClient},
                to : Connections \cup {NoClient}]

CallsInv ==
  /\ host \in Connections
  /\ client \in Connections \cup {NoClient}
  /\ call \in [Call -> CallRecords]
  /\ CallsAreCurrent

LEMMA OutcomeEffect ==
  ASSUME NEW answer \in WorkerAnswer
  PROVE  /\ Outcome(answer) \in {"good", "retryable", "final", "aborted"}
         /\ Proxied(answer) \in {"good", "retryable", "aborted"}
<1>1. CASE answer = "aborted"
  BY <1>1 DEF Outcome, Proxied
<1>2. CASE answer = "unreachable"
  BY <1>2 DEF Outcome, Proxied
<1>3. CASE answer \in {"retryable", "server_error", "no_json", "unexpected"}
  <2>1. Proxied(answer) = "good" /\ Outcome(answer) = "retryable"
    BY <1>3 DEF Outcome, Proxied
  <2>2. QED
    BY <2>1
<1>4. CASE answer \in {"final", "client_error"}
  <2>1. Proxied(answer) = "good" /\ Outcome(answer) = "final"
    BY <1>4 DEF Outcome, Proxied
  <2>2. QED
    BY <2>1
<1>5. CASE answer = "good"
  BY <1>5 DEF Outcome, Proxied
<1>6. QED
  BY <1>1, <1>2, <1>3, <1>4, <1>5 DEF WorkerAnswer

\* Whether it was cached or not, the client of a call is the one of the host as it is.
LEMMA StartCallStep ==
  ASSUME CallsInv, NEW c \in Call, StartCall(c)
  PROVE  CallsInv'
<1>1. PICK kind \in Kind :
        IF host.key \in Configured
          THEN /\ client' = ClientOf
               /\ call' = [call EXCEPT ![c] =
                    [phase |-> IF kind = "ensure" THEN "create" ELSE "last", kind |-> kind,
                     row |-> host, to |-> ClientOf]]
          ELSE call' = [call EXCEPT ![c] = [NoCall EXCEPT !.phase = "final"]] /\ UNCHANGED client
  BY DEF StartCall
<1>2. ClientOf = host /\ host' = host
  BY DEF ClientOf, UpToDate, StartCall
<1>3. CASE host.key \in Configured
  <2> DEFINE new == [phase |-> IF kind = "ensure" THEN "create" ELSE "last", kind |-> kind,
                     row |-> host, to |-> host]
  <2>1. new \in CallRecords /\ new.to = new.row
    BY DEF CallsInv, CallRecords, CallPhases
  <2>2. client' = host /\ call' = [call EXCEPT ![c] = new]
    BY <1>1, <1>2, <1>3
  <2> HIDE DEF new
  <2>3. QED
    BY <1>2, <2>1, <2>2 DEF CallsInv, CallsAreCurrent
<1>4. CASE host.key \notin Configured
  <2> DEFINE new == [NoCall EXCEPT !.phase = "final"]
  <2>1. new \in CallRecords /\ new.phase = "final"
    BY DEF NoCall, CallRecords, CallPhases, Kind
  <2>2. client' = client /\ call' = [call EXCEPT ![c] = new]
    BY <1>1, <1>4
  <2> HIDE DEF new
  <2>3. QED
    BY <1>2, <2>1, <2>2 DEF CallsInv, CallsAreCurrent
<1>5. QED
  BY <1>3, <1>4

LEMMA AnswerCallStep ==
  ASSUME CallsInv, NEW c \in Call, AnswerCall(c)
  PROVE  CallsInv'
<1>1. PICK answer \in WorkerAnswer :
        LET result == IF call[c].kind = "proxy" THEN Proxied(answer) ELSE Outcome(answer)
        IN call' = [call EXCEPT ![c].phase =
             IF call[c].phase = "create" /\ (result = "good" \/ answer = "unexpected")
               THEN "last" ELSE result]
  BY DEF AnswerCall
<1>2. PICK phase \in CallPhases : call' = [call EXCEPT ![c].phase = phase]
  BY <1>1, OutcomeEffect DEF CallPhases
<1>3. call[c] \in CallRecords /\ call[c].to = call[c].row /\ UNCHANGED <<host, client>>
  BY DEF AnswerCall, CallsInv, CallsAreCurrent
<1> DEFINE new == [call[c] EXCEPT !.phase = phase]
<1>4. new \in CallRecords /\ new.to = new.row
  BY <1>3 DEF CallRecords
<1>5. call' = [call EXCEPT ![c] = new]
  BY <1>2
<1> HIDE DEF new
<1>6. QED
  BY <1>3, <1>4, <1>5 DEF CallsInv, CallsAreCurrent

LEMMA CallsInvariant == CallsSpec => []CallsInv
<1>1. CallsInit => CallsInv
  <2> SUFFICES ASSUME CallsInit PROVE CallsInv
    OBVIOUS
  <2>1. NoCall \in CallRecords /\ NoCall.phase = "idle"
    BY DEF NoCall, CallRecords, CallPhases, Kind
  <2>2. QED
    BY <2>1 DEF CallsInit, CallsInv, CallsAreCurrent, Connections
<1>2. CallsInv /\ [CallsNext]_callVars => CallsInv'
  <2> SUFFICES ASSUME CallsInv, [CallsNext]_callVars PROVE CallsInv'
    OBVIOUS
  <2>1. CASE PatchHost
    BY <2>1 DEF PatchHost, CallsInv, CallsAreCurrent, Connections
  <2>2. CASE UNCHANGED callVars
    BY <2>2 DEF callVars, CallsInv, CallsAreCurrent
  <2>3. QED
    BY <2>1, <2>2, StartCallStep, AnswerCallStep DEF CallsNext
<1>3. QED
  BY <1>1, <1>2, PTL DEF CallsSpec

LEMMA CallsInvTypes == CallsInv => CallsTypeOK /\ CallsAreCurrent
  BY DEF CallsInv, CallsTypeOK, Connections, CallRecords

---------------------------------------------------------------------------
(* The limiters of the published services *)

LEMMA TickNumbers ==
  /\ Window \in Nat /\ Window > 0 /\ MaxTicks \in Nat
  /\ \A t \in 0..MaxTicks : t \in Nat /\ t \in Int
  /\ \A t \in 1..MaxTicks : t - 1 \in 0..MaxTicks
  BY WindowAssumption

\* The bytes that p counts before tick t.
Until(p, t) == IF t <= 0 THEN 0 ELSE p[t - 1]

\* p never counts down, and nothing is counted for the time to come.
Counts(p, now) ==
  /\ p \in [0..MaxTicks -> Nat]
  /\ \A t, u \in 0..MaxTicks : t <= u => p[t] <= p[u]
  /\ \A t \in 0..MaxTicks : t >= now => p[t] = p[now]

\* The window m counts what passed since it began, nothing passed after its end, and what
\* passed before is at most l in any interval as long as a window that ends where m begins.
MeterInv(m, p, now, l) ==
  /\ m \in [start : 0..MaxTicks, bytes : Nat]
  /\ m.start <= now /\ m.bytes <= l
  /\ p[now] - Until(p, m.start) = m.bytes
  /\ \A t \in 0..now : t >= m.start + Window => Until(p, t) = p[now]
  /\ \A t \in 0..m.start : t + Window > m.start => Until(p, m.start) - Until(p, t) <= l

LEMMA UntilBounds ==
  ASSUME NEW now \in 0..MaxTicks, NEW p, Counts(p, now)
  PROVE  /\ p[now] \in Nat
         /\ \A t \in 0..MaxTicks :
              /\ Until(p, t) \in Nat
              /\ t <= now => Until(p, t) <= p[now]
         /\ \A t, u \in 0..MaxTicks : t <= u => Until(p, t) <= Until(p, u)
<1>1. p[now] \in Nat
  BY DEF Counts
<1>2. ASSUME NEW t \in 0..MaxTicks
      PROVE  Until(p, t) \in Nat /\ (t <= now => Until(p, t) <= p[now])
  <2>1. CASE t = 0
    BY <1>1, <2>1 DEF Until
  <2>2. CASE t # 0
    <3>1. Until(p, t) = p[t - 1] /\ t - 1 \in 0..MaxTicks /\ t \in Nat /\ now \in Nat
      BY <2>2, TickNumbers DEF Until
    <3>2. QED
      BY <3>1 DEF Counts
  <2>3. QED
    BY <2>1, <2>2
<1>3. ASSUME NEW t \in 0..MaxTicks, NEW u \in 0..MaxTicks, t <= u
      PROVE  Until(p, t) <= Until(p, u)
  <2>1. CASE t = 0
    <3>1. Until(p, t) = 0 /\ Until(p, u) \in Nat
      BY <1>2, <2>1 DEF Until
    <3>2. QED
      BY <3>1
  <2>2. CASE t # 0
    <3>1. /\ Until(p, t) = p[t - 1] /\ Until(p, u) = p[u - 1]
          /\ t - 1 \in 0..MaxTicks /\ u - 1 \in 0..MaxTicks /\ t - 1 <= u - 1
      BY <1>3, <2>2, TickNumbers DEF Until
    <3>2. QED
      BY <3>1 DEF Counts
  <2>3. QED
    BY <2>1, <2>2
<1>4. QED
  BY <1>1, <1>2, <1>3

\* What is counted now.
Raised(p, now, n) == [t \in 0..MaxTicks |-> IF t >= now THEN p[t] + n ELSE p[t]]

LEMMA RaisedEffect ==
  ASSUME NEW now \in 0..MaxTicks, NEW p, Counts(p, now), NEW n \in Nat
  PROVE  /\ Counts(Raised(p, now, n), now)
         /\ Raised(p, now, n)[now] = p[now] + n
         /\ \A t \in 0..now : Until(Raised(p, now, n), t) = Until(p, t)
<1> DEFINE q == Raised(p, now, n)
<1>1. /\ now \in Nat /\ \A t \in 0..MaxTicks : t \in Nat /\ p[t] \in Nat
  BY TickNumbers DEF Counts
<1>2. \A t \in 0..MaxTicks : q[t] = IF t >= now THEN p[t] + n ELSE p[t]
  BY DEF Raised
<1>3. q \in [0..MaxTicks -> Nat]
  <2>1. \A t \in 0..MaxTicks : (IF t >= now THEN p[t] + n ELSE p[t]) \in Nat
    BY <1>1
  <2>2. QED
    BY <2>1 DEF Raised
<1> HIDE DEF q
<1>4. \A t, u \in 0..MaxTicks : t <= u => q[t] <= q[u]
  BY <1>1, <1>2 DEF Counts
<1>5. \A t \in 0..MaxTicks : t >= now => q[t] = q[now]
  BY <1>1, <1>2 DEF Counts
<1>6. q[now] = p[now] + n
  BY <1>1, <1>2
<1>7. ASSUME NEW t \in 0..now
      PROVE  Until(q, t) = Until(p, t)
  <2>1. CASE t = 0
    BY <2>1 DEF Until
  <2>2. CASE t # 0
    <3>1. t - 1 \in 0..MaxTicks /\ ~(t - 1 >= now) /\ ~(t <= 0)
      BY <1>1, <2>2, TickNumbers
    <3>2. QED
      BY <1>2, <3>1 DEF Until
  <2>3. QED
    BY <2>1, <2>2
<1>8. Counts(q, now)
  BY <1>3, <1>4, <1>5 DEF Counts
<1>9. QED
  BY <1>6, <1>7, <1>8 DEF q

\* What a window that is still open has counted.
Inside(m, now) == IF now - m.start >= Window THEN 0 ELSE m.bytes

MeteredNow(m, now, n) ==
  [start |-> IF Inside(m, now) = 0 THEN now ELSE m.start, bytes |-> Inside(m, now) + n]

\* Some bytes pass, as many as there is room for.
LEMMA MeteredEffect ==
  ASSUME NEW now \in 0..MaxTicks, NEW p, Counts(p, now), NEW n \in Nat \ {0}, NEW l \in Nat,
         NEW m, MeterInv(m, p, now, l), Inside(m, now) + n <= l
  PROVE  MeterInv(MeteredNow(m, now, n), Raised(p, now, n), now, l)
<1> DEFINE q == Raised(p, now, n)
           new == MeteredNow(m, now, n)
<1>1. /\ now \in Nat /\ m.start \in 0..MaxTicks /\ m.start \in Nat /\ m.bytes \in Nat
      /\ m.start <= now /\ m.bytes <= l /\ Window \in Nat /\ Window > 0 /\ MaxTicks \in Nat
      /\ now <= MaxTicks
  BY TickNumbers DEF MeterInv
<1>2. /\ p[now] \in Nat
      /\ \A t \in 0..MaxTicks :
           /\ Until(p, t) \in Nat
           /\ t <= now => Until(p, t) <= p[now]
      /\ \A t, u \in 0..MaxTicks : t <= u => Until(p, t) <= Until(p, u)
  BY UntilBounds
<1>3. /\ q[now] = p[now] + n
      /\ \A t \in 0..now : Until(q, t) = Until(p, t)
  BY RaisedEffect
<1>4. /\ p[now] - Until(p, m.start) = m.bytes
      /\ \A t \in 0..now : t >= m.start + Window => Until(p, t) = p[now]
      /\ \A t \in 0..m.start : t + Window > m.start => Until(p, m.start) - Until(p, t) <= l
  BY DEF MeterInv
<1>5. Inside(m, now) \in Nat /\ \A t \in 0..now : t \in 0..MaxTicks /\ t \in Nat
  BY <1>1 DEF Inside
<1>6. new.start = (IF Inside(m, now) = 0 THEN now ELSE m.start) /\ new.bytes = Inside(m, now) + n
  BY DEF MeteredNow
<1>7. new \in [start : 0..MaxTicks, bytes : Nat]
  BY <1>1, <1>5 DEF MeteredNow
<1> HIDE DEF q, new
<1>8. CASE Inside(m, now) # 0
  <2>1. new.start = m.start /\ new.bytes = m.bytes + n /\ now < m.start + Window
    BY <1>1, <1>6, <1>8 DEF Inside
  <2>2. Until(q, m.start) = Until(p, m.start) /\ \A t \in 0..m.start : Until(q, t) = Until(p, t)
    BY <1>1, <1>3
  <2>3. q[now] - Until(q, m.start) = m.bytes + n
    BY <1>1, <1>2, <1>3, <1>4, <2>2
  <2>4. \A t \in 0..now : ~(t >= m.start + Window)
    BY <1>1, <2>1
  <2>5. new.bytes <= l
    BY <1>6
  <2>6. MeterInv(new, q, now, l)
    BY <1>1, <1>4, <1>7, <2>1, <2>2, <2>3, <2>4, <2>5 DEF MeterInv
  <2>7. QED
    BY <2>6 DEF q, new
<1>9. CASE Inside(m, now) = 0
  <2>1. new.start = now /\ new.bytes = n /\ n <= l
    BY <1>6, <1>9
  <2>2. Until(p, now) = p[now]
    <3>1. CASE now >= m.start + Window
      BY <1>1, <1>4, <3>1
    <3>2. CASE now < m.start + Window
      <4>1. m.bytes = 0
        BY <1>1, <1>9, <3>2 DEF Inside
      <4>2. /\ Until(p, m.start) = p[now] /\ Until(p, m.start) <= Until(p, now)
            /\ Until(p, now) <= p[now]
        BY <1>1, <1>2, <1>4, <4>1
      <4>3. QED
        BY <1>2, <4>2
    <3>3. QED
      BY <1>1, <3>1, <3>2
  <2>3. q[now] - Until(q, now) = n
    BY <1>1, <1>2, <1>3, <2>2
  <2>4. \A t \in 0..now : ~(t >= now + Window)
    BY <1>1
  <2>5. ASSUME NEW t \in 0..now, t + Window > now
        PROVE  Until(q, now) - Until(q, t) <= l
    <3>1. Until(q, now) = p[now] /\ Until(q, t) = Until(p, t) /\ Until(p, t) \in Nat
      BY <1>1, <1>2, <1>3, <1>5, <2>2
    <3>2. CASE t >= m.start
      <4>1. Until(p, m.start) <= Until(p, t) /\ Until(p, m.start) \in Nat
        BY <1>1, <1>2, <1>5, <3>2
      <4>2. QED
        BY <1>1, <1>2, <1>4, <3>1, <4>1
    <3>3. CASE t < m.start
      <4>1. now < m.start + Window /\ t + Window > m.start /\ t \in 0..m.start
        BY <1>1, <1>5, <2>5, <3>3
      <4>2. m.bytes = 0
        BY <1>1, <1>9, <4>1 DEF Inside
      <4>3. Until(p, m.start) - Until(p, t) <= l /\ Until(p, m.start) = p[now]
        BY <1>1, <1>2, <1>4, <4>1, <4>2
      <4>4. QED
        BY <3>1, <4>3
    <3>4. QED
      BY <1>1, <1>5, <3>2, <3>3
  <2>6. MeterInv(new, q, now, l)
    BY <1>1, <1>7, <2>1, <2>3, <2>4, <2>5 DEF MeterInv
  <2>7. QED
    BY <2>6 DEF q, new
<1>10. QED
  BY <1>8, <1>9

\* A tick passes.
LEMMA MeterLater ==
  ASSUME NEW now \in 0..MaxTicks, now + 1 \in 0..MaxTicks, NEW p, Counts(p, now), NEW l \in Nat,
         NEW m, MeterInv(m, p, now, l)
  PROVE  Counts(p, now + 1) /\ MeterInv(m, p, now + 1, l)
<1>1. /\ now \in Nat /\ now + 1 <= MaxTicks
      /\ m.start \in Nat /\ m.start <= now /\ Window \in Nat
  BY TickNumbers DEF MeterInv
<1>2. p[now + 1] = p[now]
  BY <1>1 DEF Counts
<1>3. Counts(p, now + 1)
  <2>1. \A t \in 0..MaxTicks : t >= now + 1 => t >= now
    BY <1>1
  <2>2. QED
    BY <1>2, <2>1 DEF Counts
<1>4. ASSUME NEW t \in 0..(now + 1), t >= m.start + Window
      PROVE  Until(p, t) = p[now + 1]
  <2>1. CASE t = now + 1
    BY <1>1, <1>2, <2>1 DEF Until
  <2>2. CASE t # now + 1
    <3>1. t \in 0..now
      BY <1>1, <2>2
    <3>2. QED
      BY <1>2, <1>4, <3>1 DEF MeterInv
  <2>3. QED
    BY <2>1, <2>2
<1>5. QED
  BY <1>1, <1>2, <1>3, <1>4 DEF MeterInv

\* Any stretch as long as a window that ends now has room for two limits.
LEMMA MeterBounds ==
  ASSUME NEW now \in 0..MaxTicks, NEW p, Counts(p, now), NEW l \in Nat,
         NEW m, MeterInv(m, p, now, l)
  PROVE  /\ now - m.start < Window => m.bytes = p[now] - Until(p, m.start)
         /\ p[now] - Until(p, now - Window + 1) <= 2 * l
<1>0. PICK t \in Int : t = now - Window + 1
  BY TickNumbers
<1>1. /\ now \in Nat /\ m.start \in 0..MaxTicks /\ m.start \in Nat /\ m.bytes \in Nat
      /\ m.start <= now /\ m.bytes <= l /\ Window \in Nat /\ Window > 0 /\ now <= MaxTicks
      /\ p[now] - Until(p, m.start) = m.bytes
  BY TickNumbers DEF MeterInv
<1>2. /\ p[now] \in Nat
      /\ \A u \in 0..MaxTicks : Until(p, u) \in Nat
      /\ \A u, v \in 0..MaxTicks : u <= v => Until(p, u) <= Until(p, v)
  BY UntilBounds
<1>3. PICK u \in 0..MaxTicks : /\ u \in Nat /\ Until(p, t) = Until(p, u)
                               /\ u >= t /\ u <= now
  <2>1. CASE t <= 0
    <3>1. Until(p, t) = 0 /\ Until(p, 0) = 0 /\ 0 \in 0..MaxTicks /\ 0 <= now
      BY <1>1, <2>1, TickNumbers DEF Until
    <3>2. QED
      BY <2>1, <3>1
  <2>2. CASE t > 0
    <3>1. t \in 0..MaxTicks /\ t \in Nat /\ t <= now
      BY <1>0, <1>1, <2>2, TickNumbers
    <3>2. QED
      BY <3>1
  <2>3. QED
    BY <2>1, <2>2
<1>4. p[now] - Until(p, u) <= 2 * l
  <2>1. CASE u >= m.start
    <3>1. Until(p, m.start) <= Until(p, u) /\ Until(p, m.start) \in Nat /\ Until(p, u) \in Nat
      BY <1>1, <1>2, <1>3, <2>1
    <3>2. QED
      BY <1>1, <1>2, <3>1
  <2>2. CASE u < m.start
    <3>1. u \in 0..m.start /\ u + Window > m.start
      BY <1>0, <1>1, <1>3, <2>2
    <3>2. Until(p, m.start) - Until(p, u) <= l
      BY <3>1 DEF MeterInv
    <3>3. Until(p, m.start) \in Nat /\ Until(p, u) \in Nat
      BY <1>1, <1>2, <1>3
    <3>4. QED
      BY <1>1, <1>2, <3>2, <3>3
  <2>3. QED
    BY <1>1, <1>3, <2>1, <2>2
<1>5. QED
  BY <1>0, <1>1, <1>3, <1>4

DownloadPhases == {"idle", "worker", "streaming", "cancelling", "ended"}

Downloads == [phase : DownloadPhases, lease : BOOLEAN, gone : BOOLEAN]

Holders(k) == {d \in Download : download[d].lease /\ k \in Scope[d]}

MetersInv ==
  /\ tick \in 0..MaxTicks
  /\ meter \in [Key -> [start : 0..MaxTicks, bytes : Nat]]
  /\ passed \in [Key -> [0..MaxTicks -> Nat]]
  /\ \A k \in Key : Counts(passed[k], tick) /\ MeterInv(meter[k], passed[k], tick, ByteLimit[k])

\* Exactly the open responses have a lease that was not given back. A client can
\* only leave what it asked for.
LeasesInv ==
  /\ leases \in [Key -> Nat]
  /\ download \in [Download -> Downloads]
  /\ \A d \in Download : /\ download[d].lease = OpenResponse(download[d])
                         /\ download[d].phase = "idle" => ~download[d].gone
  /\ \A k \in Key : leases[k] = Cardinality(Holders(k)) /\ leases[k] <= LeaseLimit[k]

TrafficInv == MetersInv /\ LeasesInv

LEMMA TrafficInvTypes == TrafficInv => TrafficTypeOK /\ LimitersAccount
<1> SUFFICES ASSUME TrafficInv PROVE TrafficTypeOK /\ LimitersAccount
  OBVIOUS
<1>1. TrafficTypeOK
  BY DEF TrafficInv, MetersInv, LeasesInv, TrafficTypeOK, Downloads, DownloadPhases
<1>2. LeasesBalance
  <2>1. \A k \in Key :
           Holders(k) = {d \in Download : OpenResponse(download[d]) /\ k \in Scope[d]}
    BY DEF TrafficInv, LeasesInv, Holders
  <2>2. QED
    BY <2>1 DEF TrafficInv, LeasesInv, LeasesBalance
<1>3. ASSUME NEW k \in Key
      PROVE  /\ InWindow(k) = IF tick - meter[k].start >= Window THEN 0
                              ELSE Since(k, meter[k].start)
             /\ InWindow(k) <= ByteLimit[k]
             /\ Since(k, tick - Window + 1) <= 2 * ByteLimit[k]
  <2>1. \A t : Since(k, t) = passed[k][tick] - Until(passed[k], t)
    BY DEF Since, Until
  <2>2. /\ ByteLimit[k] \in Nat /\ tick \in 0..MaxTicks
        /\ Counts(passed[k], tick)
        /\ MeterInv(meter[k], passed[k], tick, ByteLimit[k])
    BY LimiterAssumption DEF TrafficInv, MetersInv
  <2>3. /\ tick - meter[k].start < Window =>
             meter[k].bytes = passed[k][tick] - Until(passed[k], meter[k].start)
        /\ passed[k][tick] - Until(passed[k], tick - Window + 1) <= 2 * ByteLimit[k]
    BY <2>2, MeterBounds
  <2>4. /\ tick \in Int /\ meter[k].start \in Int /\ Window \in Int
        /\ meter[k].bytes \in Nat /\ meter[k].bytes <= ByteLimit[k]
    BY <2>2, TickNumbers DEF MeterInv
  <2>5. QED
    BY <2>1, <2>2, <2>3, <2>4 DEF InWindow
<1>4. QED
  BY <1>1, <1>2, <1>3 DEF LimitersAccount, BytesAreMetered

LEMMA ConsumeStep ==
  ASSUME MetersInv, NEW d \in Download, NEW n \in Sizes, Consume(d, n), UNCHANGED tick
  PROVE  MetersInv'
<1>1. ASSUME NEW k \in Key
      PROVE  /\ Counts(passed'[k], tick) /\ passed'[k] \in [0..MaxTicks -> Nat]
             /\ MeterInv(meter'[k], passed'[k], tick, ByteLimit[k])
             /\ meter'[k] \in [start : 0..MaxTicks, bytes : Nat]
  <2>1. /\ ByteLimit[k] \in Nat /\ n \in Nat \ {0} /\ tick \in 0..MaxTicks
        /\ Counts(passed[k], tick)
        /\ MeterInv(meter[k], passed[k], tick, ByteLimit[k])
        /\ passed[k] \in [0..MaxTicks -> Nat]
    BY LimiterAssumption, WindowAssumption DEF MetersInv
  <2>2. InWindow(k) = Inside(meter[k], tick)
    BY DEF InWindow, Inside
  <2>3. passed'[k] = [t \in 0..MaxTicks |-> IF k \in Scope[d] /\ t >= tick THEN passed[k][t] + n
                                                                      ELSE passed[k][t]]
    BY DEF Consume
  <2>4. CASE k \in Scope[d]
    <3>1. Inside(meter[k], tick) + n <= ByteLimit[k]
      BY <2>2, <2>4 DEF Consume, CanConsume
    <3>2. meter'[k] = MeteredNow(meter[k], tick, n)
      BY <2>2, <2>4 DEF Consume, Metered, MeteredNow
    <3>3. passed'[k] = Raised(passed[k], tick, n)
      BY <2>3, <2>4 DEF Raised
    <3>4. /\ MeterInv(meter'[k], passed'[k], tick, ByteLimit[k])
          /\ Counts(passed'[k], tick)
      BY <2>1, <3>1, <3>2, <3>3, MeteredEffect, RaisedEffect
    <3>5. QED
      BY <3>4 DEF MeterInv, Counts
  <2>5. CASE k \notin Scope[d]
    <3>1. passed'[k] = passed[k] /\ meter'[k] = meter[k]
      BY <2>1, <2>3, <2>5 DEF Consume, Metered
    <3>2. QED
      BY <2>1, <3>1 DEF MeterInv
  <2>6. QED
    BY <2>4, <2>5
<1>2. meter' \in [Key -> [start : 0..MaxTicks, bytes : Nat]]
  <2>1. meter' = Metered(d, n)
    BY DEF Consume
  <2>2. meter' = [k \in Key |-> meter'[k]]
    BY <2>1 DEF Metered
  <2>3. QED
    BY <1>1, <2>2
<1>3. passed' \in [Key -> [0..MaxTicks -> Nat]]
  <2>1. passed' = [k \in Key |-> passed'[k]]
    BY DEF Consume
  <2>2. QED
    BY <1>1, <2>1
<1>4. QED
  BY <1>1, <1>2, <1>3 DEF MetersInv

LEMMA TickStep ==
  ASSUME MetersInv, Tick
  PROVE  MetersInv'
<1>1. tick' = tick + 1 /\ tick + 1 \in 0..MaxTicks /\ UNCHANGED <<meter, passed>>
  BY TickNumbers DEF Tick, MetersInv
<1>2. \A k \in Key : ByteLimit[k] \in Nat
  BY LimiterAssumption
<1>3. \A k \in Key : /\ Counts(passed[k], tick + 1)
                     /\ MeterInv(meter[k], passed[k], tick + 1, ByteLimit[k])
  BY <1>1, <1>2, MeterLater DEF MetersInv
<1>4. QED
  BY <1>1, <1>3 DEF MetersInv

LEMMA HoldersFinite == \A k : IsFiniteSet(Holders(k)) /\ Cardinality(Holders(k)) \in Nat
<1>1. \A k : Holders(k) \subseteq Download
  BY DEF Holders
<1>2. QED
  BY <1>1, ScopeAssumption, FS_Subset, FS_CardinalityType

\* A request that may follow another: its response is open when it has a lease.
Follows(new) ==
  new \in Downloads /\ new.lease = OpenResponse(new) /\ new.phase # "idle"

LEMMA RequestSet ==
  ASSUME LeasesInv, NEW d \in Download, NEW new, Follows(new),
         download' = [download EXCEPT ![d] = new]
  PROVE  /\ download' \in [Download -> Downloads]
         /\ \A c \in Download : /\ download'[c].lease = OpenResponse(download'[c])
                                /\ download'[c].phase = "idle" => ~download'[c].gone
BY DEF LeasesInv, Follows

\* One request changes, with its lease or without.
LEMMA LeaseKept ==
  ASSUME LeasesInv, NEW d \in Download, NEW new, Follows(new), new.lease = download[d].lease,
         download' = [download EXCEPT ![d] = new], UNCHANGED leases
  PROVE  LeasesInv'
<1>1. \A k \in Key : Holders(k)' = Holders(k)
  BY DEF LeasesInv, Holders
<1>2. QED
  BY <1>1, RequestSet DEF LeasesInv

LEMMA LeaseReleased ==
  ASSUME LeasesInv, NEW d \in Download, NEW new, Follows(new), ~new.lease,
         download' = [download EXCEPT ![d] = new], leases' = Released(d)
  PROVE  LeasesInv'
<1>1. CASE ~download[d].lease
  <2>1. leases' = leases
    BY <1>1 DEF Released
  <2>2. QED
    BY <1>1, <2>1, LeaseKept DEF LeasesInv, Downloads, Follows
<1>2. CASE download[d].lease
  <2>1. leases' = [k \in Key |-> IF k \in Scope[d] THEN leases[k] + -1 ELSE leases[k]]
    BY <1>2 DEF Released, Leased
  <2>2. ASSUME NEW k \in Key
        PROVE  /\ leases'[k] \in Nat /\ leases'[k] = Cardinality(Holders(k)')
               /\ leases'[k] <= LeaseLimit[k]
    <3>1. /\ leases[k] = Cardinality(Holders(k)) /\ leases[k] \in Nat
          /\ leases[k] <= LeaseLimit[k] /\ LeaseLimit[k] \in Nat
      BY LimiterAssumption DEF LeasesInv
    <3>2. CASE k \in Scope[d]
      <4>1. Holders(k)' = Holders(k) \ {d} /\ d \in Holders(k)
        BY <1>2, <3>2 DEF LeasesInv, Holders
      <4>2. Cardinality(Holders(k) \ {d}) = Cardinality(Holders(k)) - 1
        BY <4>1, HoldersFinite, FS_RemoveElement
      <4>3. Cardinality(Holders(k)') \in Nat
        <5>1. IsFiniteSet(Holders(k) \ {d})
          BY HoldersFinite, FS_Subset
        <5>2. QED
          BY <4>1, <5>1, FS_CardinalityType
      <4>4. leases'[k] = leases[k] - 1
        BY <2>1, <3>1, <3>2
      <4>5. QED
        BY <3>1, <4>1, <4>2, <4>3, <4>4
    <3>3. CASE k \notin Scope[d]
      <4>1. Holders(k)' = Holders(k) /\ leases'[k] = leases[k]
        BY <2>1, <3>3 DEF LeasesInv, Holders
      <4>2. QED
        BY <3>1, <4>1
    <3>4. QED
      BY <3>2, <3>3
  <2>3. leases' \in [Key -> Nat]
    BY <2>1, <2>2
  <2>4. QED
    BY <2>2, <2>3, RequestSet DEF LeasesInv
<1>3. QED
  BY <1>1, <1>2

LEMMA LeaseTaken ==
  ASSUME LeasesInv, NEW d \in Download, ~download[d].lease, HasLease(d),
         NEW new, Follows(new), new.lease,
         download' = [download EXCEPT ![d] = new], leases' = Leased(d, 1)
  PROVE  LeasesInv'
<1>1. leases' = [k \in Key |-> IF k \in Scope[d] THEN leases[k] + 1 ELSE leases[k]]
  BY DEF Leased
<1>2. ASSUME NEW k \in Key
      PROVE  /\ leases'[k] \in Nat /\ leases'[k] = Cardinality(Holders(k)')
             /\ leases'[k] <= LeaseLimit[k]
  <2>1. /\ leases[k] = Cardinality(Holders(k)) /\ leases[k] \in Nat
        /\ leases[k] <= LeaseLimit[k] /\ LeaseLimit[k] \in Nat
    BY LimiterAssumption DEF LeasesInv
  <2>2. CASE k \in Scope[d]
    <3>1. Holders(k)' = Holders(k) \cup {d} /\ d \notin Holders(k)
      BY <2>2 DEF LeasesInv, Holders
    <3>2. Cardinality(Holders(k) \cup {d}) = Cardinality(Holders(k)) + 1
      BY <3>1, HoldersFinite, FS_AddElement
    <3>3. leases'[k] = leases[k] + 1 /\ leases[k] < LeaseLimit[k]
      BY <1>1, <2>2 DEF HasLease
    <3>4. QED
      BY <2>1, <3>1, <3>2, <3>3
  <2>3. CASE k \notin Scope[d]
    <3>1. Holders(k)' = Holders(k) /\ leases'[k] = leases[k]
      BY <1>1, <2>3 DEF LeasesInv, Holders
    <3>2. QED
      BY <2>1, <3>1
  <2>4. QED
    BY <2>2, <2>3
<1>3. leases' \in [Key -> Nat]
  BY <1>1, <1>2
<1>4. QED
  BY <1>2, <1>3, RequestSet DEF LeasesInv

\* The changes that the steps of a request make to it.
LEMMA PhaseChanges ==
  ASSUME LeasesInv, NEW d \in Download, NEW phase \in {"streaming", "cancelling"}
  PROVE  /\ download[d].phase \in {"worker", "streaming"}
              /\ download' = [download EXCEPT ![d].phase = phase] /\ UNCHANGED leases => LeasesInv'
         /\ download' = [download EXCEPT ![d].phase = "ended", ![d].lease = FALSE]
              /\ leases' = Released(d) => LeasesInv'
         /\ download[d].phase # "idle"
              /\ download' = [download EXCEPT ![d].gone = TRUE, ![d].lease = FALSE]
              /\ leases' = Released(d) => LeasesInv'
         /\ download[d].phase = "idle"
              /\ download' = [download EXCEPT ![d].phase = "ended"] /\ UNCHANGED leases => LeasesInv'
         /\ download[d].phase = "idle"
              /\ download' = [download EXCEPT ![d].phase = "worker", ![d].lease = TRUE]
              /\ HasLease(d) /\ leases' = Leased(d, 1) => LeasesInv'
<1>1. /\ download[d] \in Downloads /\ download \in [Download -> Downloads]
      /\ download[d].lease = OpenResponse(download[d])
      /\ download[d].phase = "idle" => ~download[d].gone
  BY DEF LeasesInv
<1>2. CASE /\ download[d].phase \in {"worker", "streaming"}
           /\ download' = [download EXCEPT ![d].phase = phase] /\ UNCHANGED leases
  <2>1. PICK new : new = [download[d] EXCEPT !.phase = phase]
    OBVIOUS
  <2>2. Follows(new) /\ new.lease = download[d].lease
    BY <1>1, <1>2, <2>1 DEF Downloads, DownloadPhases, Follows, OpenResponse
  <2>3. download' = [download EXCEPT ![d] = new]
    BY <1>1, <1>2, <2>1
  <2>4. QED
    BY <1>2, <2>2, <2>3, LeaseKept
<1>3. CASE /\ download' = [download EXCEPT ![d].phase = "ended", ![d].lease = FALSE]
           /\ leases' = Released(d)
  <2>1. PICK new : new = [download[d] EXCEPT !.phase = "ended", !.lease = FALSE]
    OBVIOUS
  <2>2. Follows(new) /\ ~new.lease
    BY <1>1, <2>1 DEF Downloads, DownloadPhases, Follows, OpenResponse
  <2>3. download' = [download EXCEPT ![d] = new]
    BY <1>1, <1>3, <2>1
  <2>4. QED
    BY <1>3, <2>2, <2>3, LeaseReleased
<1>4. CASE /\ download[d].phase # "idle"
           /\ download' = [download EXCEPT ![d].gone = TRUE, ![d].lease = FALSE]
           /\ leases' = Released(d)
  <2>1. PICK new : new = [download[d] EXCEPT !.gone = TRUE, !.lease = FALSE]
    OBVIOUS
  <2>2. Follows(new) /\ ~new.lease
    BY <1>1, <1>4, <2>1 DEF Downloads, DownloadPhases, Follows, OpenResponse
  <2>3. download' = [download EXCEPT ![d] = new]
    BY <1>1, <1>4, <2>1
  <2>4. QED
    BY <1>4, <2>2, <2>3, LeaseReleased
<1>5. CASE /\ download[d].phase = "idle"
           /\ download' = [download EXCEPT ![d].phase = "ended"] /\ UNCHANGED leases
  <2>1. PICK new : new = [download[d] EXCEPT !.phase = "ended"]
    OBVIOUS
  <2>2. Follows(new) /\ new.lease = download[d].lease
    BY <1>1, <1>5, <2>1 DEF Downloads, DownloadPhases, Follows, OpenResponse
  <2>3. download' = [download EXCEPT ![d] = new]
    BY <1>1, <1>5, <2>1
  <2>4. QED
    BY <1>5, <2>2, <2>3, LeaseKept
<1>6. CASE /\ download[d].phase = "idle"
           /\ download' = [download EXCEPT ![d].phase = "worker", ![d].lease = TRUE]
           /\ HasLease(d) /\ leases' = Leased(d, 1)
  <2>1. PICK new : new = [download[d] EXCEPT !.phase = "worker", !.lease = TRUE]
    OBVIOUS
  <2>2. Follows(new) /\ new.lease /\ ~download[d].lease
    BY <1>1, <1>6, <2>1 DEF Downloads, DownloadPhases, Follows, OpenResponse
  <2>3. download' = [download EXCEPT ![d] = new]
    BY <1>1, <1>6, <2>1
  <2>4. QED
    BY <1>6, <2>2, <2>3, LeaseTaken
<1>7. QED
  BY <1>2, <1>3, <1>4, <1>5, <1>6

LEMMA DownloadStep ==
  ASSUME TrafficInv, NEW d \in Download,
         \/ ArriveDownload(d) \/ SendChunk(d) \/ WorkerReplies(d) \/ ReceiveChunk(d)
         \/ EndResponse(d) \/ CancelResponse(d)
  PROVE  TrafficInv'
<1>1. LeasesInv
  BY DEF TrafficInv
<1>2. UNCHANGED tick /\ (UNCHANGED <<meter, passed>> \/ \E n \in Sizes : Consume(d, n))
  BY DEF ArriveDownload, SendChunk, WorkerReplies, ReceiveChunk, EndResponse, CancelResponse
<1>3. MetersInv'
  <2>1. CASE UNCHANGED <<meter, passed>>
    BY <1>2, <2>1 DEF TrafficInv, MetersInv
  <2>2. CASE \E n \in Sizes : Consume(d, n)
    BY <1>2, <2>2, ConsumeStep DEF TrafficInv
  <2>3. QED
    BY <1>2, <2>1, <2>2
<1>4. CASE ArriveDownload(d)
  <2>1. /\ download[d].phase = "idle"
        /\ \/ download' = [download EXCEPT ![d].phase = "ended"] /\ UNCHANGED leases
           \/ /\ download' = [download EXCEPT ![d].phase = "worker", ![d].lease = TRUE]
              /\ HasLease(d) /\ leases' = Leased(d, 1)
    BY <1>4 DEF ArriveDownload, Refused
  <2>2. LeasesInv'
    BY <1>1, <2>1, PhaseChanges
  <2>3. QED
    BY <1>3, <2>2 DEF TrafficInv
<1>5. CASE SendChunk(d) \/ WorkerReplies(d) \/ ReceiveChunk(d) \/ EndResponse(d)
  <2>1. \/ UNCHANGED <<download, leases>>
        \/ /\ download[d].phase \in {"worker", "streaming"} /\ UNCHANGED leases
           /\ \E phase \in {"streaming", "cancelling"} :
                download' = [download EXCEPT ![d].phase = phase]
        \/ /\ download' = [download EXCEPT ![d].phase = "ended", ![d].lease = FALSE]
           /\ leases' = Released(d)
    BY <1>5 DEF SendChunk, WorkerReplies, ReceiveChunk, EndResponse
  <2>2. LeasesInv'
    <3>1. CASE UNCHANGED <<download, leases>>
      BY <1>1, <3>1 DEF LeasesInv, Holders
    <3>2. QED
      BY <1>1, <2>1, <3>1, PhaseChanges
  <2>3. QED
    BY <1>3, <2>2 DEF TrafficInv
<1>6. CASE CancelResponse(d)
  <2>1. /\ download[d].phase # "idle"
        /\ download' = [download EXCEPT ![d].gone = TRUE, ![d].lease = FALSE]
        /\ leases' = Released(d)
    BY <1>6 DEF CancelResponse
  <2>2. LeasesInv'
    BY <1>1, <2>1, PhaseChanges
  <2>3. QED
    BY <1>3, <2>2 DEF TrafficInv
<1>7. QED
  BY <1>4, <1>5, <1>6

LEMMA TrafficInitInv == TrafficInit => TrafficInv
<1> SUFFICES ASSUME TrafficInit PROVE TrafficInv
  OBVIOUS
<1>1. PICK p : p = [t \in 0..MaxTicks |-> 0]
  OBVIOUS
<1>2. PICK m : m = [start |-> 0, bytes |-> 0]
  OBVIOUS
<1>3. /\ meter = [k \in Key |-> m] /\ passed = [k \in Key |-> p] /\ tick = 0
      /\ leases = [k \in Key |-> 0] /\ download = [d \in Download |-> NoDownload]
  BY <1>1, <1>2 DEF TrafficInit
<1>4. /\ 0 \in 0..MaxTicks /\ p \in [0..MaxTicks -> Nat] /\ \A t \in 0..MaxTicks : p[t] = 0
      /\ m \in [start : 0..MaxTicks, bytes : Nat] /\ m.start = 0 /\ m.bytes = 0
  BY <1>1, <1>2, TickNumbers
<1>5. Counts(p, 0)
  BY <1>4 DEF Counts
<1>6. Until(p, 0) = 0
  BY DEF Until
<1>7. \A l \in Nat : MeterInv(m, p, 0, l)
  BY <1>4, <1>6, TickNumbers DEF MeterInv
<1>8. MetersInv
  BY <1>3, <1>4, <1>5, <1>7, LimiterAssumption DEF MetersInv
<1>9. /\ NoDownload \in Downloads /\ ~NoDownload.lease /\ ~NoDownload.gone
      /\ NoDownload.lease = OpenResponse(NoDownload)
  BY DEF NoDownload, Downloads, DownloadPhases, OpenResponse
<1>10. \A k \in Key : Holders(k) = {}
  BY <1>3, <1>9 DEF Holders
<1>11. \A k \in Key : Cardinality(Holders(k)) = 0 /\ 0 <= LeaseLimit[k]
  BY <1>10, FS_EmptySet, LimiterAssumption
<1>12. LeasesInv
  BY <1>3, <1>9, <1>11 DEF LeasesInv
<1>13. QED
  BY <1>8, <1>12 DEF TrafficInv

LEMMA TrafficInvariant == TrafficSpec => []TrafficInv
<1>1. TrafficInv /\ [TrafficNext]_trafficVars => TrafficInv'
  <2> SUFFICES ASSUME TrafficInv, [TrafficNext]_trafficVars PROVE TrafficInv'
    OBVIOUS
  <2>1. CASE Tick
    <3>1. LeasesInv'
      BY <2>1 DEF Tick, TrafficInv, LeasesInv, Holders
    <3>2. QED
      BY <2>1, <3>1, TickStep DEF TrafficInv
  <2>2. CASE UNCHANGED trafficVars
    BY <2>2 DEF trafficVars, TrafficInv, MetersInv, LeasesInv, Holders
  <2>3. QED
    BY <2>1, <2>2, DownloadStep DEF TrafficNext
<1>2. QED
  BY <1>1, TrafficInitInv, PTL DEF TrafficSpec

---------------------------------------------------------------------------
(* The console bridge *)

ConsoleStatuses == {"none", "connecting", "open", "closing", "closed"}

ConsolePhases == {"idle", "connecting", "prepared", "upgraded", "attached", "over", "refused"}

Bridges ==
  [phase : ConsolePhases, upstream : ConsoleStatuses, browser : ConsoleStatuses,
   attached : BOOLEAN, closed : BOOLEAN, pending : Seq(Nat), bytes : Nat, sent : Nat,
   taken : Nat, seen : Seq(Nat), dropped : SUBSET Nat, typed : Nat, input : Seq(Nat)]

\* The first n messages, in order: those seen, and those the socket dropped.
Shown(seen, dropped, n) ==
  /\ \A i \in DOMAIN seen : seen[i] \in 1..n
  /\ \A i, j \in DOMAIN seen : i < j => seen[i] < seen[j]
  /\ dropped \subseteq 1..n
  /\ \A m \in 1..n : m \in dropped <=> ~\E i \in DOMAIN seen : seen[i] = m

\* What the browser's socket was given begins at the first message, and so does
\* what was sent on. Before the browser is attached either everything that
\* arrived is kept, or the upstream was given up; while both ends are open
\* nothing that arrived is missing.
BridgeInv(b) ==
  /\ b \in Bridges
  /\ b.attached <=> b.phase = "attached"
  /\ b.taken <= b.sent
  /\ \E n \in Nat :
       /\ n <= b.taken /\ Shown(b.seen, b.dropped, n)
       /\ b.phase = "attached" /\ b.browser = "open" /\ b.upstream = "open" => n = b.taken
  /\ b.input = Numbers(Len(b.input)) /\ Len(b.input) <= b.typed
  /\ Len(b.pending) <= MaxPending
  /\ b.phase \in {"attached", "over"} => b.pending = <<>>
  /\ b.phase \notin {"attached", "over"} =>
       b.seen = <<>> /\ b.dropped = {} /\ b.input = <<>> /\ b.typed = 0
  /\ b.phase \in {"idle", "connecting"} => b.pending = <<>> /\ b.bytes = 0 /\ b.taken = 0
  /\ b.phase \in {"prepared", "upgraded"} =>
       \/ b.pending = Numbers(b.taken) /\ b.bytes = b.taken
       \/ b.pending = <<>> /\ b.upstream \in {"closing", "closed"}
  /\ b.phase = "attached" /\ b.browser = "open" => Len(b.input) = b.typed

ConsoleInv ==
  /\ DOMAIN bridge = Terminal /\ bridge = [t \in Terminal |-> bridge[t]]
  /\ \A t \in Terminal : BridgeInv(bridge[t])

LEMMA NumbersGrow ==
  /\ Numbers(0) = <<>>
  /\ \A n \in Nat : /\ Numbers(n) \in Seq(Nat) /\ Len(Numbers(n)) = n
                    /\ Append(Numbers(n), n + 1) = Numbers(n + 1)
                    /\ <<>> \o Numbers(n) = Numbers(n)
<1>1. Numbers(0) = <<>>
  BY DEF Numbers
<1>2. ASSUME NEW n \in Nat
      PROVE  /\ Numbers(n) \in Seq(Nat) /\ Len(Numbers(n)) = n
             /\ Append(Numbers(n), n + 1) = Numbers(n + 1)
             /\ <<>> \o Numbers(n) = Numbers(n)
  <2>1. Numbers(n) \in Seq(Nat) /\ Len(Numbers(n)) = n
    BY DEF Numbers
  <2>2. Append(Numbers(n), n + 1) = Numbers(n + 1)
    BY DEF Numbers
  <2>3. <<>> \o Numbers(n) = Numbers(n)
    BY <2>1
  <2>4. QED
    BY <2>1, <2>2, <2>3
<1>3. QED
  BY <1>1, <1>2

LEMMA NumbersPrefix ==
  ASSUME NEW m \in Nat, NEW n \in Nat, m <= n
  PROVE  IsPrefix(Numbers(m), Numbers(n))
<1>1. Len(Numbers(m)) = m /\ Len(Numbers(n)) = n
  BY NumbersGrow
<1>2. SubSeq(Numbers(n), 1, m) = Numbers(m)
  BY <1>1 DEF Numbers
<1>3. QED
  BY <1>1, <1>2 DEF IsPrefix

LEMMA ShownNone == Shown(<<>>, {}, 0)
BY DEF Shown

\* The next message is seen or dropped.
LEMMA ShownNext ==
  ASSUME NEW seen \in Seq(Nat), NEW dropped, NEW n \in Nat, NEW m \in Nat, m = n + 1,
         Shown(seen, dropped, n)
  PROVE  Shown(Append(seen, m), dropped, m) /\ Shown(seen, dropped \cup {m}, m)
<1>1. /\ \A i \in DOMAIN seen : seen[i] \in 1..n
      /\ \A i, j \in DOMAIN seen : i < j => seen[i] < seen[j]
      /\ dropped \subseteq 1..n
      /\ \A k \in 1..n : k \in dropped <=> ~\E i \in DOMAIN seen : seen[i] = k
  BY DEF Shown
<1>2. 1..m = 1..n \cup {m} /\ m \notin 1..n
  OBVIOUS
<1>3. Shown(seen, dropped \cup {m}, m)
  BY <1>1, <1>2 DEF Shown
<1>4. PICK s : s = Append(seen, m)
  OBVIOUS
<1>5. PICK l \in Nat : l = Len(seen) + 1 /\ DOMAIN seen = 1..Len(seen) /\ Len(seen) \in Nat
  OBVIOUS
<1>6. /\ DOMAIN s = DOMAIN seen \cup {l} /\ l \notin DOMAIN seen
      /\ \A i \in DOMAIN seen : i < l /\ s[i] = seen[i]
      /\ s[l] = m
  BY <1>4, <1>5
<1>7. \A i \in DOMAIN seen : s[i] < m
  BY <1>1, <1>6
<1>8. Shown(s, dropped, m)
  <2>1. \A i, j \in DOMAIN s : i < j => s[i] < s[j]
    BY <1>1, <1>5, <1>6, <1>7
  <2>2. \A k \in 1..m : k \in dropped <=> ~\E i \in DOMAIN s : s[i] = k
    BY <1>1, <1>2, <1>6
  <2>3. QED
    BY <1>1, <1>2, <1>6, <2>1, <2>2 DEF Shown
<1>9. QED
  BY <1>3, <1>4, <1>8

\* Of the messages that were kept the first n are seen, the others dropped.
LEMMA ShownFlushed ==
  ASSUME NEW k \in Nat, NEW n \in 0..k
  PROVE  /\ SubSeq(Numbers(k), 1, n) \in Seq(Nat) /\ Numbers(k) \in Seq(Nat)
         /\ Len(Numbers(k)) = k
         /\ <<>> \o SubSeq(Numbers(k), 1, n) = SubSeq(Numbers(k), 1, n)
         /\ ToSet(SubSeq(Numbers(k), n + 1, k)) \subseteq Nat
         /\ Shown(SubSeq(Numbers(k), 1, n), ToSet(SubSeq(Numbers(k), n + 1, k)), k)
<1>1. Numbers(k) \in Seq(Nat) /\ Len(Numbers(k)) = k /\ \A i \in 1..k : Numbers(k)[i] = i
  BY NumbersGrow DEF Numbers
<1>2. PICK s : s = SubSeq(Numbers(k), 1, n)
  OBVIOUS
<1>3. s \in Seq(Nat) /\ DOMAIN s = 1..n /\ \A i \in 1..n : s[i] = i
  BY <1>1, <1>2
<1>4. PICK q : q = SubSeq(Numbers(k), n + 1, k)
  OBVIOUS
<1>5. DOMAIN q = 1..(k - n) /\ \A i \in 1..(k - n) : q[i] = n + i
  BY <1>1, <1>4
<1>6. ToSet(q) = (n + 1)..k
  <2>1. \A m \in (n + 1)..k : m - n \in 1..(k - n) /\ q[m - n] = m
    BY <1>5
  <2>2. \A i \in 1..(k - n) : q[i] \in (n + 1)..k
    BY <1>5
  <2>3. \A m \in (n + 1)..k : \E i \in DOMAIN q : q[i] = m
    BY <1>5, <2>1
  <2>4. \A m : m \in ToSet(q) <=> \E i \in DOMAIN q : q[i] = m
    BY DEF ToSet
  <2>5. ASSUME NEW m \in ToSet(q)
        PROVE  m \in (n + 1)..k
    <3>1. PICK i \in 1..(k - n) : q[i] = m
      BY <1>5, <2>4
    <3>2. QED
      BY <2>2, <3>1
  <2>6. ASSUME NEW m \in (n + 1)..k
        PROVE  m \in ToSet(q)
    BY <2>3, <2>4, Zenon
  <2>7. QED
    BY <2>5, <2>6, Zenon
<1>7. Shown(s, ToSet(q), k)
  BY <1>3, <1>6 DEF Shown
<1>8. <<>> \o s = s
  BY <1>3
<1>9. QED
  BY <1>1, <1>2, <1>3, <1>4, <1>6, <1>7, <1>8

LEMMA ConsoleInvTypes == ConsoleInv => ConsoleTypeOK /\ ConsoleInOrder
<1> SUFFICES ASSUME ConsoleInv PROVE ConsoleTypeOK /\ ConsoleInOrder
  OBVIOUS
<1>1. ConsoleTypeOK
  BY DEF ConsoleInv, BridgeInv, Bridges, ConsoleStatuses, ConsoleTypeOK
<1>2. ASSUME NEW t \in Terminal, NEW b, b = bridge[t]
      PROVE  /\ \A i, j \in DOMAIN b.seen : i < j => b.seen[i] < b.seen[j]
             /\ \E n \in 0..b.taken :
                  /\ ToSet(b.seen) \cup b.dropped = 1..n /\ ToSet(b.seen) \cap b.dropped = {}
                  /\ b.attached /\ b.browser = "open" /\ b.upstream = "open" => n = b.taken
             /\ IsPrefix(b.input, Numbers(b.typed))
  <2>1. BridgeInv(b) /\ b \in Bridges
    BY <1>2 DEF ConsoleInv, BridgeInv
  <2>2. PICK n \in Nat :
          /\ n <= b.taken /\ Shown(b.seen, b.dropped, n)
          /\ b.phase = "attached" /\ b.browser = "open" /\ b.upstream = "open" => n = b.taken
    BY <2>1 DEF BridgeInv
  <2>3. ToSet(b.seen) \cup b.dropped = 1..n /\ ToSet(b.seen) \cap b.dropped = {}
    BY <2>2 DEF Shown, ToSet
  <2>4. n \in 0..b.taken /\ (b.attached <=> b.phase = "attached")
    BY <2>1, <2>2 DEF BridgeInv, Bridges
  <2>5. IsPrefix(b.input, Numbers(b.typed))
    <3>1. PICK l : l = Len(b.input)
      OBVIOUS
    <3>2. l \in Nat /\ b.typed \in Nat /\ l <= b.typed /\ b.input = Numbers(l)
      BY <2>1, <3>1 DEF BridgeInv, Bridges
    <3>3. QED
      BY <3>2, NumbersPrefix
  <2>6. QED
    BY <2>2, <2>3, <2>4, <2>5 DEF Shown
<1>3. QED
  BY <1>1, <1>2 DEF ConsoleInOrder

LEMMA BridgeSet ==
  ASSUME ConsoleInv, NEW t \in Terminal, NEW b, BridgeInv(b),
         bridge' = [bridge EXCEPT ![t] = b]
  PROVE  ConsoleInv'
<1>1. DOMAIN bridge' = Terminal /\ bridge' = [u \in Terminal |-> bridge'[u]]
  BY DEF ConsoleInv
<1>2. \A u \in Terminal : bridge'[u] = IF u = t THEN b ELSE bridge[u]
  BY DEF ConsoleInv
<1>3. \A u \in Terminal : BridgeInv(bridge'[u])
  BY <1>2 DEF ConsoleInv
<1>4. QED
  BY <1>1, <1>3 DEF ConsoleInv, BridgeInv

\* Before the browser is attached: the phase and the sockets change, the limit
\* and what arrived do not.
LEMMA ConnectStep ==
  ASSUME ConsoleInv, NEW t \in Terminal, Prepare(t) \/ ConnectUpstream(t) \/ Upgrade(t)
  PROVE  ConsoleInv'
<1>1. PICK b : b = bridge[t]
  OBVIOUS
<1>2. BridgeInv(b) /\ b \in Bridges
  BY <1>1 DEF ConsoleInv, BridgeInv
<1>3. CASE Prepare(t)
  <2>1. b.phase = "idle"
    BY <1>1, <1>3 DEF Prepare
  <2>2. BridgeInv([b EXCEPT !.phase = "refused"])
    BY <1>2, <2>1 DEF BridgeInv, Bridges, ConsolePhases
  <2>3. BridgeInv([b EXCEPT !.phase = "connecting", !.upstream = "connecting",
                            !.browser = "connecting"])
    BY <1>2, <2>1 DEF BridgeInv, Bridges, ConsolePhases, ConsoleStatuses
  <2>4. \/ bridge' = [bridge EXCEPT ![t] = [b EXCEPT !.phase = "refused"]]
        \/ bridge' = [bridge EXCEPT ![t] = [b EXCEPT !.phase = "connecting",
                               !.upstream = "connecting", !.browser = "connecting"]]
    BY <1>1, <1>3 DEF Prepare, ConsoleInv
  <2>5. QED
    BY <2>2, <2>3, <2>4, BridgeSet
<1>4. CASE ConnectUpstream(t)
  <2>1. b.phase = "connecting"
    BY <1>1, <1>4 DEF ConnectUpstream
  <2>2. BridgeInv([b EXCEPT !.phase = "prepared", !.upstream = "open"])
    BY <1>2, <2>1, NumbersGrow DEF BridgeInv, Bridges, ConsolePhases, ConsoleStatuses
  <2>3. BridgeInv([b EXCEPT !.phase = "refused", !.upstream = "closed", !.browser = "closed"])
    BY <1>2, <2>1 DEF BridgeInv, Bridges, ConsolePhases, ConsoleStatuses
  <2>4. \/ bridge' = [bridge EXCEPT ![t] = [b EXCEPT !.phase = "prepared", !.upstream = "open"]]
        \/ bridge' = [bridge EXCEPT ![t] = [b EXCEPT !.phase = "refused",
                               !.upstream = "closed", !.browser = "closed"]]
    BY <1>1, <1>4 DEF ConnectUpstream, ConsoleInv
  <2>5. QED
    BY <2>2, <2>3, <2>4, BridgeSet
<1>5. CASE Upgrade(t)
  <2>1. b.phase = "prepared"
    BY <1>1, <1>5 DEF Upgrade
  <2>2. BridgeInv([b EXCEPT !.phase = "upgraded", !.browser = "open"])
    BY <1>2, <2>1 DEF BridgeInv, Bridges, ConsolePhases, ConsoleStatuses
  <2>3. BridgeInv([Shut(b) EXCEPT !.phase = "refused"])
    BY <1>2, <2>1 DEF BridgeInv, Bridges, ConsolePhases, ConsoleStatuses, Shut
  <2>4. \/ bridge' = [bridge EXCEPT ![t] = [b EXCEPT !.phase = "upgraded", !.browser = "open"]]
        \/ bridge' = [bridge EXCEPT ![t] = [Shut(b) EXCEPT !.phase = "refused"]]
    BY <1>1, <1>5 DEF Upgrade, ConsoleInv
  <2>5. QED
    BY <2>2, <2>3, <2>4, BridgeSet
<1>6. QED
  BY <1>3, <1>4, <1>5

\* What was kept becomes the beginning of what is seen or dropped.
LEMMA AttachStep ==
  ASSUME ConsoleInv, NEW t \in Terminal, Attach(t)
  PROVE  ConsoleInv'
<1>1. PICK b : b = bridge[t]
  OBVIOUS
<1>2. BridgeInv(b) /\ b \in Bridges /\ b.phase = "upgraded" /\ b.browser # "closed"
  BY <1>1 DEF ConsoleInv, BridgeInv, Attach
<1>3. /\ b.seen = <<>> /\ b.dropped = {} /\ b.input = <<>> /\ b.typed = 0
      /\ b.taken \in Nat /\ b.sent \in Nat /\ b.taken <= b.sent
  BY <1>2 DEF BridgeInv, Bridges
<1>4. PICK k \in Nat : /\ b.pending = Numbers(k) /\ k <= b.taken
                      /\ (k = b.taken \/ b.upstream \in {"closing", "closed"})
  <2>1. \/ b.pending = Numbers(b.taken)
        \/ b.pending = Numbers(0) /\ b.upstream \in {"closing", "closed"}
    BY <1>2, NumbersGrow DEF BridgeInv
  <2>2. QED
    BY <1>3, <2>1
<1>5. PICK n \in 0..k : bridge' = [bridge EXCEPT ![t] = Attached(b, n)]
  <2>1. Len(b.pending) = k
    BY <1>4, NumbersGrow
  <2>2. QED
    BY <1>1, <2>1 DEF Attach
<1>6. PICK s, d : s = SubSeq(b.pending, 1, n) /\ d = ToSet(SubSeq(b.pending, n + 1, Len(b.pending)))
  OBVIOUS
<1>7. /\ s \in Seq(Nat) /\ d \in SUBSET Nat /\ Shown(s, d, k)
      /\ b.seen \o s = s /\ b.dropped \cup d = d
  BY <1>3, <1>4, <1>6, ShownFlushed
<1>8. PICK e \in Seq(Nat) : e = <<>> /\ Len(e) = 0 /\ e = Numbers(0)
  BY NumbersGrow
<1>9. PICK a : a = [b EXCEPT !.phase = "attached", !.attached = TRUE, !.pending = e, !.bytes = 0,
                             !.seen = s, !.dropped = d]
  OBVIOUS
<1>10. Flushed(b, n) = a
  BY <1>2, <1>6, <1>7, <1>8, <1>9 DEF Flushed, Bridges
<1>11. BridgeInv(a)
  <2>1. /\ a \in Bridges /\ a.phase = "attached" /\ a.attached = TRUE /\ a.seen = s
        /\ a.dropped = d /\ a.pending = e /\ a.taken = b.taken /\ a.sent = b.sent
        /\ a.input = e /\ a.typed = 0 /\ a.upstream = b.upstream
    BY <1>2, <1>3, <1>7, <1>8, <1>9 DEF Bridges, ConsolePhases
  <2>2. k <= a.taken /\ Shown(a.seen, a.dropped, k) /\ (a.upstream = "open" => k = a.taken)
    BY <1>4, <1>7, <2>1
  <2>3. QED
    BY <1>3, <1>8, <2>1, <2>2, PendingAssumption DEF BridgeInv
<1>12. BridgeInv(Hangup(a))
  BY <1>11 DEF BridgeInv, Bridges, ConsoleStatuses, Hangup
<1>13. BridgeInv(Attached(b, n))
  BY <1>10, <1>11, <1>12 DEF Attached
<1>14. QED
  BY <1>5, <1>13, BridgeSet

\* Output that finds the browser open is the next that is seen or dropped; before
\* that it is the next that is kept, or the upstream is given up.
LEMMA TakeOutputStep ==
  ASSUME ConsoleInv, NEW t \in Terminal, TakeOutput(t)
  PROVE  ConsoleInv'
<1>1. PICK c : c = bridge[t]
  OBVIOUS
<1>2. /\ BridgeInv(c) /\ c \in Bridges /\ c.upstream = "open" /\ c.taken < c.sent
      /\ c.phase \in {"prepared", "upgraded", "attached"}
  BY <1>1 DEF ConsoleInv, BridgeInv, TakeOutput
<1>3. PICK n \in Nat, m \in Nat : n = c.taken /\ m = n + 1
  BY <1>2 DEF Bridges
<1>4. PICK b : b = [c EXCEPT !.taken = m]
  OBVIOUS
<1>5. b \in Bridges /\ b.taken = m
  BY <1>2, <1>3, <1>4 DEF Bridges
<1>6. PICK after : /\ bridge' = [bridge EXCEPT ![t] = after]
                   /\ after \in IF b.attached THEN Delivered(b, m) ELSE {Kept(b, m)}
  BY <1>1, <1>3, <1>4, <1>5 DEF TakeOutput
<1>7. CASE c.phase = "attached" /\ c.browser = "open"
  <2>1. /\ c.seen \in Seq(Nat) /\ c.dropped \in SUBSET Nat /\ Shown(c.seen, c.dropped, n)
        /\ c.attached = TRUE
    BY <1>2, <1>3, <1>7 DEF BridgeInv, Bridges
  <2>2. PICK s, e : s = Append(c.seen, m) /\ e = c.dropped \cup {m}
    OBVIOUS
  <2>3. /\ s \in Seq(Nat) /\ e \in SUBSET Nat
        /\ Shown(s, c.dropped, m) /\ Shown(c.seen, e, m)
    <3>1. PICK q \in Seq(Nat), x \in SUBSET Nat : q = c.seen /\ x = c.dropped
      BY <2>1
    <3>2. Shown(Append(q, m), x, m) /\ Shown(q, x \cup {m}, m)
      BY <1>3, <2>1, <3>1, ShownNext
    <3>3. Append(q, m) \in Seq(Nat) /\ x \cup {m} \in SUBSET Nat
      OBVIOUS
    <3>4. QED
      BY <2>2, <3>1, <3>2, <3>3
  <2>4. m <= c.sent /\ m \in Nat
    BY <1>2, <1>3 DEF Bridges
  <2>5. ASSUME NEW q \in Seq(Nat), NEW x \in SUBSET Nat, Shown(q, x, m),
               NEW d, d = [b EXCEPT !.seen = q, !.dropped = x]
        PROVE  BridgeInv(d)
    <3>1. /\ d \in Bridges /\ d.seen = q /\ d.dropped = x /\ d.taken = m
          /\ d.phase = "attached" /\ d.attached = c.attached /\ d.sent = c.sent
          /\ d.input = c.input /\ d.typed = c.typed /\ d.pending = c.pending
          /\ d.browser = c.browser
      BY <1>2, <1>4, <1>5, <1>7, <2>5 DEF Bridges
    <3>2. QED
      BY <1>2, <1>7, <2>4, <2>5, <3>1 DEF BridgeInv
  <2>6. /\ b.seen = c.seen /\ b.dropped = c.dropped /\ b.attached /\ b.browser = "open"
    BY <1>2, <1>4, <1>7, <2>1 DEF Bridges
  <2>7. \/ after = [b EXCEPT !.seen = s]
        \/ after = [b EXCEPT !.dropped = e]
    BY <1>6, <2>2, <2>6 DEF Delivered
  <2>8. \/ after = [b EXCEPT !.seen = s, !.dropped = c.dropped]
        \/ after = [b EXCEPT !.seen = c.seen, !.dropped = e]
    BY <1>5, <2>6, <2>7 DEF Bridges
  <2>9. BridgeInv(after)
    <3>1. CASE after = [b EXCEPT !.seen = s, !.dropped = c.dropped]
      BY <2>1, <2>3, <2>5, <3>1
    <3>2. CASE after = [b EXCEPT !.seen = c.seen, !.dropped = e]
      BY <2>1, <2>3, <2>5, <3>2
    <3>3. QED
      BY <2>8, <3>1, <3>2
  <2>10. QED
    BY <1>6, <2>9, BridgeSet
<1>8. CASE c.phase = "attached" /\ c.browser # "open"
  <2>1. b.attached /\ b.browser # "open"
    BY <1>2, <1>4, <1>5, <1>8 DEF BridgeInv, Bridges
  <2>2. BridgeInv(b)
    <3>1. /\ b.seen = c.seen /\ b.dropped = c.dropped /\ b.taken = m /\ b.phase = c.phase
          /\ b.attached = c.attached /\ b.sent = c.sent /\ b.input = c.input
          /\ b.typed = c.typed /\ b.pending = c.pending /\ b.browser = c.browser
      BY <1>2, <1>4, <1>5 DEF Bridges
    <3>2. m <= c.sent /\ m \in Nat /\ n <= m /\ n = c.taken
      BY <1>2, <1>3 DEF Bridges
    <3>3. PICK l \in Nat : l <= n /\ Shown(c.seen, c.dropped, l)
      BY <1>2, <1>3 DEF BridgeInv
    <3>4. l <= m
      BY <3>2, <3>3
    <3>5. QED
      BY <1>2, <1>5, <1>8, <3>1, <3>2, <3>3, <3>4 DEF BridgeInv
  <2>3. after = b
    BY <1>6, <2>1 DEF Delivered
  <2>4. QED
    BY <1>6, <2>2, <2>3, BridgeSet
<1>9. CASE c.phase \in {"prepared", "upgraded"}
  <2>1. /\ c.pending = Numbers(n) /\ c.bytes = n /\ c.seen = <<>> /\ c.dropped = {}
    BY <1>2, <1>3, <1>9 DEF BridgeInv
  <2>2. PICK p \in Seq(Nat) : p = Append(c.pending, m) /\ p = Numbers(m) /\ Len(p) = m
    BY <1>3, <2>1, NumbersGrow
  <2>3. ~b.attached /\ b.bytes = n /\ b.pending = c.pending
    BY <1>2, <1>4, <1>9, <2>1 DEF BridgeInv, Bridges
  <2>4. bridge' = [bridge EXCEPT ![t] = Kept(b, m)]
    BY <1>6, <2>3
  <2>5. CASE m > MaxPending
    <3>1. Kept(b, m) = [b EXCEPT !.pending = <<>>, !.bytes = m, !.upstream = "closing"]
      BY <1>3, <2>3, <2>5 DEF Kept
    <3>2. BridgeInv([b EXCEPT !.pending = <<>>, !.bytes = m, !.upstream = "closing"])
      <4>1. PICK e \in Seq(Nat) : e = <<>> /\ Len(e) = 0
        <5>1. Numbers(0) \in Seq(Nat) /\ Len(Numbers(0)) = 0 /\ Numbers(0) = <<>>
          BY NumbersGrow
        <5>2. QED
          BY <5>1
      <4>2. PICK d : d = [b EXCEPT !.pending = e, !.bytes = m, !.upstream = "closing"]
        OBVIOUS
      <4>3. /\ d \in Bridges /\ d.pending = e /\ d.upstream = "closing" /\ d.taken = m
            /\ d.attached = c.attached /\ d.sent = c.sent /\ d.input = c.input
            /\ d.typed = c.typed /\ d.seen = <<>> /\ d.dropped = {} /\ d.phase = c.phase
        BY <1>2, <1>4, <1>5, <2>1, <4>2 DEF Bridges, ConsoleStatuses
      <4>4. m <= c.sent /\ m \in Nat /\ n <= m
        BY <1>2, <1>3 DEF Bridges
      <4>5. BridgeInv(d)
        BY <1>2, <1>3, <1>9, <4>1, <4>3, <4>4, ShownNone, PendingAssumption DEF BridgeInv
      <4>6. QED
        BY <4>1, <4>2, <4>5
    <3>3. QED
      BY <2>4, <3>1, <3>2, BridgeSet
  <2>6. CASE ~(m > MaxPending)
    <3>1. Kept(b, m) = [b EXCEPT !.pending = p, !.bytes = m]
      BY <1>3, <2>2, <2>3, <2>6 DEF Kept
    <3>2. BridgeInv([b EXCEPT !.pending = p, !.bytes = m])
      <4>1. PICK d : d = [b EXCEPT !.pending = p, !.bytes = m]
        OBVIOUS
      <4>2. /\ d \in Bridges /\ d.pending = p /\ d.bytes = m /\ d.taken = m
            /\ d.attached = c.attached /\ d.sent = c.sent /\ d.input = c.input
            /\ d.typed = c.typed /\ d.seen = <<>> /\ d.dropped = {} /\ d.phase = c.phase
        BY <1>2, <1>4, <1>5, <2>1, <4>1 DEF Bridges
      <4>3. m <= c.sent /\ m \in Nat /\ n <= m /\ m <= MaxPending
        BY <1>2, <1>3, <2>6, PendingAssumption DEF Bridges
      <4>4. BridgeInv(d)
        BY <1>2, <1>3, <1>9, <2>2, <4>2, <4>3, ShownNone, PendingAssumption DEF BridgeInv
      <4>5. QED
        BY <4>1, <4>4
    <3>3. QED
      BY <2>4, <3>1, <3>2, BridgeSet
  <2>7. QED
    BY <2>5, <2>6
<1>10. QED
  BY <1>2, <1>7, <1>8, <1>9

\* Input that finds no open upstream closes the browser, so that none follows it.
LEMMA TypeStep ==
  ASSUME ConsoleInv, NEW t \in Terminal, Type(t)
  PROVE  ConsoleInv'
<1>1. PICK c : c = bridge[t]
  OBVIOUS
<1>2. BridgeInv(c) /\ c \in Bridges /\ c.phase = "attached" /\ c.browser = "open"
  BY <1>1 DEF ConsoleInv, BridgeInv, Type
<1>3. PICK n \in Nat, m \in Nat :
     n = c.typed /\ m = n + 1 /\ Len(c.input) = n /\ c.input = Numbers(n)
  BY <1>2 DEF BridgeInv, Bridges
<1>4. PICK b : b = [c EXCEPT !.typed = m]
  OBVIOUS
<1>5. b \in Bridges /\ b.typed = m /\ b.input = c.input
  BY <1>2, <1>3, <1>4 DEF Bridges
<1>6. PICK s \in Seq(Nat) : s = Append(c.input, m) /\ s = Numbers(m) /\ Len(s) = m
  BY <1>3, NumbersGrow
<1>7. \/ bridge' = [bridge EXCEPT ![t] = [b EXCEPT !.input = s]]
      \/ bridge' = [bridge EXCEPT ![t] = Hangup(b)]
  BY <1>1, <1>3, <1>4, <1>5, <1>6 DEF Type
<1>8. BridgeInv([b EXCEPT !.input = s])
  <2>1. PICK d : d = [b EXCEPT !.input = s]
    OBVIOUS
  <2>2. /\ d \in Bridges /\ d.input = s /\ d.typed = m /\ d.attached = c.attached
        /\ d.sent = c.sent /\ d.taken = c.taken /\ d.seen = c.seen /\ d.dropped = c.dropped
        /\ d.phase = c.phase
        /\ d.pending = c.pending /\ d.upstream = c.upstream /\ d.browser = c.browser
    BY <1>2, <1>4, <1>5, <1>6, <2>1 DEF Bridges
  <2>3. BridgeInv(d)
    BY <1>2, <1>6, <2>2 DEF BridgeInv
  <2>4. QED
    BY <2>1, <2>3
<1>9. b.attached /\ b.browser = "open"
  BY <1>2, <1>4 DEF BridgeInv, Bridges
<1>10. Hangup(b) = [b EXCEPT !.browser = "closing"]
  BY <1>9 DEF Hangup
<1>11. BridgeInv([b EXCEPT !.browser = "closing"])
  <2>1. PICK d : d = [b EXCEPT !.browser = "closing"]
    OBVIOUS
  <2>2. /\ d \in Bridges /\ d.input = c.input /\ d.typed = m /\ d.attached = c.attached
        /\ d.sent = c.sent /\ d.taken = c.taken /\ d.seen = c.seen /\ d.dropped = c.dropped
        /\ d.phase = c.phase
        /\ d.pending = c.pending /\ d.browser = "closing"
    BY <1>2, <1>4, <1>5, <2>1 DEF Bridges, ConsoleStatuses
  <2>3. n <= m
    BY <1>3
  <2>4. BridgeInv(d)
    BY <1>2, <1>3, <2>2, <2>3 DEF BridgeInv
  <2>5. QED
    BY <2>1, <2>4
<1>12. QED
  BY <1>7, <1>8, <1>10, <1>11, BridgeSet

LEMMA CloseStep ==
  ASSUME ConsoleInv, NEW t \in Terminal, Emit(t) \/ UpstreamCloses(t) \/ BrowserCloses(t)
  PROVE  ConsoleInv'
<1>1. PICK b : b = bridge[t]
  OBVIOUS
<1>2. BridgeInv(b) /\ b \in Bridges
  BY <1>1 DEF ConsoleInv, BridgeInv
<1>3. CASE Emit(t)
  <2>1. BridgeInv([b EXCEPT !.sent = b.sent + 1])
    <3>1. PICK c : c = [b EXCEPT !.sent = b.sent + 1]
      OBVIOUS
    <3>2. /\ c \in Bridges /\ c.upstream = b.upstream /\ c.phase = b.phase
          /\ c.browser = b.browser /\ c.attached = b.attached /\ c.pending = b.pending
          /\ c.bytes = b.bytes /\ c.taken = b.taken /\ c.seen = b.seen
          /\ c.dropped = b.dropped /\ c.typed = b.typed /\ c.input = b.input
      BY <1>2, <3>1 DEF Bridges
    <3>3. b.taken <= c.sent
      BY <1>2, <3>1 DEF BridgeInv, Bridges
    <3>4. BridgeInv(c)
      BY <1>2, <3>2, <3>3 DEF BridgeInv
    <3>5. QED
      BY <3>1, <3>4
  <2>2. bridge' = [bridge EXCEPT ![t] = [b EXCEPT !.sent = b.sent + 1]]
    BY <1>1, <1>3 DEF Emit, ConsoleInv
  <2>3. QED
    BY <2>1, <2>2, BridgeSet
<1>4. CASE UpstreamCloses(t)
  <2>1. PICK c : c = [b EXCEPT !.upstream = "closed", !.closed = TRUE]
    OBVIOUS
  <2>2. b.upstream \in {"open", "closing"}
    BY <1>1, <1>4 DEF UpstreamCloses
  <2>3. BridgeInv(c)
    <3>1. /\ c \in Bridges /\ c.upstream = "closed" /\ c.phase = b.phase /\ c.browser = b.browser
          /\ c.attached = b.attached /\ c.pending = b.pending /\ c.bytes = b.bytes
          /\ c.sent = b.sent /\ c.taken = b.taken /\ c.seen = b.seen /\ c.dropped = b.dropped
          /\ c.typed = b.typed /\ c.input = b.input
      BY <1>2, <2>1 DEF Bridges, ConsoleStatuses
    <3>2. QED
      BY <1>2, <2>2, <3>1 DEF BridgeInv
  <2>4. BridgeInv(Hangup(c))
    BY <2>3 DEF BridgeInv, Bridges, ConsoleStatuses, Hangup
  <2>5. bridge' = [bridge EXCEPT ![t] = Hangup(c)]
    BY <1>1, <1>4, <2>1 DEF UpstreamCloses
  <2>6. QED
    BY <2>4, <2>5, BridgeSet
<1>5. CASE BrowserCloses(t)
  <2>1. PICK c : c = [b EXCEPT !.browser = "closed"]
    OBVIOUS
  <2>2. BridgeInv(c) /\ c.phase = b.phase
    BY <1>2, <2>1 DEF BridgeInv, Bridges, ConsoleStatuses
  <2>3. b.phase = "attached" => BridgeInv([Shut(c) EXCEPT !.phase = "over"])
    BY <2>2 DEF BridgeInv, Bridges, ConsoleStatuses, ConsolePhases, Shut
  <2>4. bridge' = [bridge EXCEPT ![t] =
          IF c.phase = "attached" THEN [Shut(c) EXCEPT !.phase = "over"] ELSE c]
    BY <1>1, <1>5, <2>1 DEF BrowserCloses
  <2>5. QED
    BY <2>2, <2>3, <2>4, BridgeSet
<1>6. QED
  BY <1>3, <1>4, <1>5

LEMMA ConsoleInvariant == ConsoleSpec => []ConsoleInv
<1>1. ConsoleInit => ConsoleInv
  <2> SUFFICES ASSUME ConsoleInit PROVE ConsoleInv
    OBVIOUS
  <2>1. BridgeInv(NoBridge)
    BY NumbersGrow, ShownNone, PendingAssumption
       DEF NoBridge, BridgeInv, Bridges, ConsolePhases, ConsoleStatuses
  <2>2. QED
    BY <2>1 DEF ConsoleInit, ConsoleInv
<1>2. ConsoleInv /\ [ConsoleNext]_consoleVars => ConsoleInv'
  <2> SUFFICES ASSUME ConsoleInv, [ConsoleNext]_consoleVars PROVE ConsoleInv'
    OBVIOUS
  <2>1. CASE UNCHANGED consoleVars
    BY <2>1 DEF consoleVars, ConsoleInv, BridgeInv
  <2>2. QED
    BY <2>1, ConnectStep, AttachStep, TakeOutputStep, TypeStep, CloseStep DEF ConsoleNext
<1>3. QED
  BY <1>1, <1>2, PTL DEF ConsoleSpec
---------------------------------------------------------------------------
(* The usage ledger *)

Sessions == [log : Seq(Turns), model : Model]

RelayPhases == {"idle", "access", "upload", "fetch", "streaming", "completing", "ended"}

Relays == [phase : RelayPhases, kind : {"chat", "upload", "plain"}, held : BOOLEAN,
           aborted : BOOLEAN, gone : BOOLEAN, marker : BOOLEAN]

CopyPhases == {"idle", "asked", "carrying", "recorded", "failed"}

Copies == [phase : CopyPhases, chat : Chat, log : Seq(Turns), model : Model]

EventIds == {"native", "legacy"} \X Chat \X Nat

Rows == [id : EventIds, turn : Chat \X Nat, model : Model, cost : Nat, named : BOOLEAN]

Visits == [phase : {"idle", "listing", "syncing", "answered"}, due : SUBSET EventIds,
           chats : SUBSET Chat, clean : BOOLEAN]

Held(r) == relay[r].phase \in RelayPhases \ {"idle", "ended"}

RelaysInv == relay \in [ChatRequest -> Relays] /\ \A r \in ChatRequest : relay[r].held => Held(r)

RuntimeInv == runtime \in [Chat -> Sessions] /\ workspace \in {"ready", "stopped", "gone"}

IdAt(c, i) == EventId(c, i, runtime[c].log[i])

\* What a copy carries is the beginning of the log it was taken from.
CopiesInv ==
  /\ copy \in [Copier -> Copies]
  /\ \A s \in Copier : \A i \in DOMAIN copy[s].log :
       /\ i \in DOMAIN runtime[copy[s].chat].log
       /\ copy[s].log[i] = runtime[copy[s].chat].log[i]

\* A row is that of a turn in a log, under its id, and of a workspace that is there.
LedgerInv ==
  /\ ledger \subseteq Rows
  /\ \A row \in ledger : \E c \in Chat : \E i \in DOMAIN runtime[c].log :
       row.turn = <<c, i>> /\ row.id = IdAt(c, i)
  /\ \A a, b \in ledger : a.id = b.id => a = b
  /\ workspace = "gone" => ledger = {}

\* What was due is in a log, and while copies are awaited each of it is in one
\* of them or recorded.
Brings(v, c, i) ==
  /\ c \in visit[v].chats
  /\ copy[<<v, c>>].phase \in {"asked", "carrying"} => copy[<<v, c>>].chat = c
  /\ copy[<<v, c>>].phase = "carrying" => i \in DOMAIN copy[<<v, c>>].log
  /\ copy[<<v, c>>].phase = "recorded" /\ workspace # "gone" => IdAt(c, i) \in Ids(ledger)

VisitsInv ==
  /\ visit \in [Visit -> Visits]
  /\ \A v \in Visit : visit[v].phase \in {"listing", "syncing"} =>
       \A id \in visit[v].due : \E c \in Chat : \E i \in DOMAIN runtime[c].log : id = IdAt(c, i)
  /\ \A v \in Visit : visit[v].phase = "syncing" =>
       \A c \in Chat : \A i \in DOMAIN runtime[c].log :
         IdAt(c, i) \in visit[v].due => Brings(v, c, i)

UsageInv == RuntimeInv /\ RelaysInv /\ CopiesInv /\ LedgerInv /\ VisitsInv

LEMMA CopyShape ==
  ASSUME NEW c \in Chat
  PROVE  /\ Asked(c).phase = "asked" /\ Asked(c).chat = c /\ Asked(c).log = <<>>
         /\ Asked(c) \in Copies /\ DOMAIN Asked(c).log = {}
         /\ NoCopy \in Copies /\ DOMAIN NoCopy.log = {} /\ NoCopy.phase = "idle"
         /\ \A phase \in CopyPhases : /\ [NoCopy EXCEPT !.phase = phase] \in Copies
                                      /\ [NoCopy EXCEPT !.phase = phase].log = <<>>
                                      /\ [NoCopy EXCEPT !.phase = phase].phase = phase
<1>1. <<>> \in Seq(Turns) /\ DOMAIN <<>> = {}
  OBVIOUS
<1>2. FirstModel \in Model
  BY RateAssumption
<1>3. PICK d \in Chat : d = CHOOSE e \in Chat : TRUE
  OBVIOUS
<1>4. NoCopy = [phase |-> "idle", chat |-> d, log |-> <<>>, model |-> FirstModel]
  BY <1>3 DEF NoCopy
<1>5. NoCopy \in Copies /\ DOMAIN NoCopy.log = {} /\ NoCopy.phase = "idle"
  BY <1>1, <1>2, <1>4 DEF Copies, CopyPhases
<1>6. Asked(c).phase = "asked" /\ Asked(c).chat = c /\ Asked(c).log = <<>>
  BY <1>4 DEF Asked
<1>7. Asked(c) \in Copies /\ DOMAIN Asked(c).log = {}
  BY <1>1, <1>5, <1>6 DEF Copies, CopyPhases, Asked
<1>8. ASSUME NEW phase \in CopyPhases
      PROVE  /\ [NoCopy EXCEPT !.phase = phase] \in Copies
             /\ [NoCopy EXCEPT !.phase = phase].log = <<>>
             /\ [NoCopy EXCEPT !.phase = phase].phase = phase
  BY <1>1, <1>2, <1>4 DEF Copies, CopyPhases
<1>9. QED
  BY <1>5, <1>6, <1>7, <1>8

\* A row with the id of an entry stays, with its turn, its model and, once it has
\* one, its cost; an entry without a row becomes one.
LEMMA RecordedEffect ==
  ASSUME NEW rows \in SUBSET Rows, NEW entries \in SUBSET Rows,
         \A a, b \in rows : a.id = b.id => a = b,
         \A a, b \in entries : a.id = b.id => a = b
  PROVE  /\ Recorded(rows, entries) \subseteq Rows
         /\ \A row \in rows : \E z \in Recorded(rows, entries) :
              /\ z.id = row.id /\ z.turn = row.turn
              /\ z.model = row.model /\ row.cost \in {0, z.cost}
         /\ \A z \in Recorded(rows, entries) :
              \/ z \in entries
              \/ \E row \in rows : z.id = row.id /\ z.turn = row.turn
         /\ \A e \in entries : \E z \in Recorded(rows, entries) : z.id = e.id
         /\ \A a, b \in Recorded(rows, entries) : a.id = b.id => a = b
<1> DEFINE F(row) == IF {e \in entries : e.id = row.id} = {} THEN row
                     ELSE Merged(row, CHOOSE e \in {e \in entries : e.id = row.id} : TRUE)
<1> DEFINE R == {F(row) : row \in rows} \cup {e \in entries : \A row \in rows : row.id # e.id}
<1>1. Recorded(rows, entries) = R
  BY DEF Recorded
<1>2. ASSUME NEW row \in rows
      PROVE  /\ F(row) \in Rows /\ F(row).id = row.id /\ F(row).turn = row.turn
             /\ F(row).model = row.model /\ row.cost \in {0, F(row).cost}
  <2>1. CASE {e \in entries : e.id = row.id} = {}
    BY <2>1
  <2>2. CASE {e \in entries : e.id = row.id} # {}
    <3>1. PICK new \in entries : new = CHOOSE e \in {e \in entries : e.id = row.id} : TRUE
      BY <2>2
    <3>2. F(row) = Merged(row, new)
      BY <2>2, <3>1
    <3>3. row \in Rows /\ new \in Rows
      OBVIOUS
    <3>4. PICK cost \in Nat : cost = IF row.cost = 0 THEN new.cost ELSE row.cost
      BY <3>3 DEF Rows
    <3>5. PICK named \in BOOLEAN : named = (row.named \/ new.named)
      BY <3>3 DEF Rows
    <3>6. Merged(row, new) = [row EXCEPT !.named = named, !.cost = cost]
      BY <3>4, <3>5 DEF Merged
    <3>7. QED
      BY <3>2, <3>3, <3>4, <3>6 DEF Rows
  <2>3. QED
    BY <2>1, <2>2
<1>3. \A z \in R : \/ \E row \in rows : z = F(row)
                   \/ z \in entries /\ \A row \in rows : row.id # z.id
  OBVIOUS
<1>4. \A row \in rows : F(row) \in R
  OBVIOUS
<1>5. \A e \in entries : (\A row \in rows : row.id # e.id) => e \in R
  OBVIOUS
<1> HIDE DEF F, R
<1>6. R \subseteq Rows
  BY <1>2, <1>3
<1>7. \A row \in rows : \E z \in R :
        /\ z.id = row.id /\ z.turn = row.turn
        /\ z.model = row.model /\ row.cost \in {0, z.cost}
  BY <1>2, <1>4
<1>8. \A z \in R : z \in entries \/ \E row \in rows : z.id = row.id /\ z.turn = row.turn
  BY <1>2, <1>3
<1>9. \A e \in entries : \E z \in R : z.id = e.id
  BY <1>2, <1>4, <1>5
<1>10. ASSUME NEW a \in R, NEW b \in R, a.id = b.id PROVE a = b
  <2>1. CASE a \in entries /\ b \in entries
    BY <1>10, <2>1
  <2>2. CASE (\E row \in rows : a = F(row)) /\ (\E row \in rows : b = F(row))
    BY <1>2, <1>10, <2>2
  <2>3. QED
    BY <1>2, <1>3, <1>10, <2>1, <2>2
<1>11. QED
  BY <1>1, <1>6, <1>7, <1>8, <1>9, <1>10

\* A log only grows, and a model may change.
Grown ==
  /\ runtime' \in [Chat -> Sessions]
  /\ \A c \in Chat : \A i \in DOMAIN runtime[c].log :
       i \in DOMAIN runtime'[c].log /\ runtime'[c].log[i] = runtime[c].log[i]

LEMMA IdsDiffer ==
  \A c, d : \A i, j : \A x, y : EventId(c, i, x) = EventId(d, j, y) => c = d /\ i = j
  BY DEF EventId

\* What a step of a request or of the runtime leaves: no due turn is younger than
\* the dashboard, and no copy of a dashboard is that of a request.
LEMMA RuntimeStep ==
  ASSUME UsageInv, Grown, RelaysInv', UNCHANGED <<workspace, ledger, visit>>,
         \/ UNCHANGED copy
         \/ \E r \in ChatRequest : copy' = [copy EXCEPT ![r] = Asked(ChatOf[r])]
  PROVE  UsageInv'
<1>1. RuntimeInv'
  BY DEF UsageInv, RuntimeInv, Grown
<1>2. \A c \in Chat : \A i \in DOMAIN runtime[c].log : IdAt(c, i)' = IdAt(c, i)
  BY DEF Grown, IdAt, EventId
<1>3. LedgerInv'
  BY <1>2 DEF UsageInv, LedgerInv, Grown
<1>4. ASSUME NEW s \in Copier, copy'[s] # copy[s]
      PROVE  s \in ChatRequest /\ copy'[s] = Asked(ChatOf[s]) /\ ChatOf[s] \in Chat
  BY <1>4, ChatAssumption DEF UsageInv, CopiesInv
<1>5. copy' \in [Copier -> Copies]
  <2>1. CASE UNCHANGED copy
    BY <2>1 DEF UsageInv, CopiesInv
  <2>2. ASSUME NEW r \in ChatRequest, copy' = [copy EXCEPT ![r] = Asked(ChatOf[r])]
        PROVE  copy' \in [Copier -> Copies]
    <3>1. Asked(ChatOf[r]) \in Copies
      BY CopyShape, ChatAssumption
    <3>2. QED
      BY <2>2, <3>1 DEF UsageInv, CopiesInv
  <2>3. QED
    BY <2>1, <2>2
<1>6. CopiesInv'
  <2>1. ASSUME NEW s \in Copier, NEW i \in DOMAIN copy'[s].log
        PROVE  /\ i \in DOMAIN runtime'[copy'[s].chat].log
               /\ copy'[s].log[i] = runtime'[copy'[s].chat].log[i]
    <3>1. copy'[s] = copy[s]
      BY <1>4, <2>1, CopyShape
    <3>2. copy[s] \in Copies /\ copy[s].chat \in Chat
      BY DEF UsageInv, CopiesInv, Copies
    <3>3. QED
      BY <2>1, <3>1, <3>2 DEF UsageInv, CopiesInv, Grown
  <2>2. QED
    BY <1>5, <2>1 DEF CopiesInv
<1>7. \A v \in Visit : \A c \in Chat : <<v, c>> \in Copier /\ copy'[<<v, c>>] = copy[<<v, c>>]
  BY <1>4, CopierAssumption DEF Copier
<1>8. VisitsInv'
  <2>1. visit' \in [Visit -> Visits] /\ visit' = visit
    BY DEF UsageInv, VisitsInv
  <2>2. ASSUME NEW v \in Visit, visit[v].phase \in {"listing", "syncing"}, NEW id \in visit[v].due
        PROVE  \E c \in Chat : \E i \in DOMAIN runtime'[c].log :
                 /\ i \in DOMAIN runtime[c].log
                 /\ id = IdAt(c, i) /\ id = IdAt(c, i)'
    BY <1>2, <2>2 DEF UsageInv, VisitsInv, Grown
  <2>3. ASSUME NEW v \in Visit, visit[v].phase = "syncing",
               NEW c \in Chat, NEW i \in DOMAIN runtime'[c].log, IdAt(c, i)' \in visit[v].due
        PROVE  Brings(v, c, i)'
    <3>1. i \in DOMAIN runtime[c].log
      <4>1. PICK d \in Chat, j \in Nat : j \in DOMAIN runtime[d].log /\ IdAt(c, i)' = IdAt(d, j)
        <5>1. PICK d \in Chat : \E j \in DOMAIN runtime[d].log : IdAt(c, i)' = IdAt(d, j)
          BY <2>2, <2>3
        <5>2. DOMAIN runtime[d].log \subseteq Nat
          BY DEF UsageInv, RuntimeInv, Sessions
        <5>3. QED
          BY <5>1, <5>2
      <4>2. c = d /\ i = j
        BY <4>1, IdsDiffer DEF IdAt
      <4>3. QED
        BY <4>1, <4>2
    <3>2. IdAt(c, i)' = IdAt(c, i)
      BY <1>2, <3>1
    <3>3. Brings(v, c, i)
      BY <2>3, <3>1, <3>2 DEF UsageInv, VisitsInv
    <3>4. Brings(v, c, i)' <=> Brings(v, c, i)
      BY <1>7, <2>1, <3>2 DEF Brings
    <3>5. QED
      BY <3>3, <3>4
  <2>4. QED
    BY <2>1, <2>2, <2>3 DEF VisitsInv
<1>9. QED
  BY <1>1, <1>3, <1>6, <1>8 DEF UsageInv

LEMMA TurnGrows ==
  ASSUME UsageInv, NEW c \in Chat, TakeTurn(c)
  PROVE  Grown
<1>1. PICK turn \in Turns : runtime' = [runtime EXCEPT ![c].log = Append(runtime[c].log, turn)]
  BY DEF TakeTurn
<1>2. runtime[c] \in Sessions /\ runtime[c].log \in Seq(Turns)
  BY DEF UsageInv, RuntimeInv, Sessions
<1>3. PICK log \in Seq(Turns) :
        /\ log = Append(runtime[c].log, turn)
        /\ \A i \in DOMAIN runtime[c].log : i \in DOMAIN log /\ log[i] = runtime[c].log[i]
  <2>1. /\ Append(runtime[c].log, turn) \in Seq(Turns)
        /\ \A i \in DOMAIN runtime[c].log : /\ i \in DOMAIN Append(runtime[c].log, turn)
                                            /\ Append(runtime[c].log, turn)[i] = runtime[c].log[i]
    BY <1>2
  <2>2. QED
    BY <2>1
<1>4. PICK session : session = [runtime[c] EXCEPT !.log = log]
  OBVIOUS
<1>5. session \in Sessions /\ session.log = log
  BY <1>2, <1>4 DEF Sessions
<1>6. runtime' = [runtime EXCEPT ![c] = session]
  BY <1>1, <1>3, <1>4 DEF UsageInv, RuntimeInv
<1>7. QED
  BY <1>3, <1>5, <1>6 DEF UsageInv, RuntimeInv, Grown

LEMMA RelaySet ==
  ASSUME RelaysInv, NEW r \in ChatRequest, NEW x \in Relays,
         x.held => x.phase \in RelayPhases \ {"idle", "ended"},
         relay' = [relay EXCEPT ![r] = x]
  PROVE  RelaysInv'
<1>1. relay' \in [ChatRequest -> Relays]
  BY DEF RelaysInv
<1>2. \A q \in ChatRequest : relay'[q] = IF q = r THEN x ELSE relay[q]
  BY DEF RelaysInv
<1>3. QED
  BY <1>1, <1>2 DEF RelaysInv, Held

\* Every way a request ends removes its abort listener.
LEMMA EndedHolds ==
  ASSUME RelaysInv, NEW r \in ChatRequest, Ended(r)
  PROVE  RelaysInv'
<1>1. PICK b : b = relay[r]
  OBVIOUS
<1>2. PICK x : x = [b EXCEPT !.phase = "ended", !.kind = "plain", !.held = FALSE]
  OBVIOUS
<1>3. x \in Relays /\ ~x.held
  BY <1>1, <1>2 DEF RelaysInv, Relays, RelayPhases
<1>4. relay' = [relay EXCEPT ![r] = x]
  BY <1>1, <1>2 DEF Ended
<1>5. QED
  BY <1>3, <1>4, RelaySet

LEMMA RequestStep ==
  ASSUME UsageInv, NEW r \in ChatRequest,
         \/ ArriveRelay(r) \/ GetRuntimeAccess(r) \/ ReadUpload(r) \/ FetchRuntime(r)
         \/ ForwardMarker(r) \/ ReadEnd(r) \/ CloseStream(r) \/ ReadError(r) \/ Leave(r)
         \/ CancelStream(r)
  PROVE  UsageInv'
<1>1. PICK b : b = relay[r]
  OBVIOUS
<1>2. b \in Relays /\ RelaysInv /\ (b.held => b.phase \in RelayPhases \ {"idle", "ended"})
  BY <1>1 DEF UsageInv, RelaysInv, Held
<1>3. Grown
  <2>1. UNCHANGED runtime => Grown
    BY DEF UsageInv, RuntimeInv, Grown
  <2>2. UNCHANGED runtime \/ TakeTurn(ChatOf[r])
    BY DEF ArriveRelay, GetRuntimeAccess, ReadUpload, FetchRuntime, ForwardMarker, ReadEnd,
           CloseStream, ReadError, Leave, CancelStream
  <2>3. QED
    BY <2>1, <2>2, TurnGrows, ChatAssumption
<1>4. UNCHANGED copy \/ copy' = [copy EXCEPT ![r] = Asked(ChatOf[r])]
  BY DEF ArriveRelay, GetRuntimeAccess, ReadUpload, FetchRuntime, ForwardMarker, ReadEnd,
         CloseStream, ReadError, Leave, CancelStream, Complete
<1>5. UNCHANGED <<workspace, ledger, visit>>
  BY DEF ArriveRelay, GetRuntimeAccess, ReadUpload, FetchRuntime, ForwardMarker, ReadEnd,
         CloseStream, ReadError, Leave, CancelStream
<1>6. Ended(r) => RelaysInv'
  BY <1>2, EndedHolds
<1>7. ASSUME NEW x \in Relays, x.held => x.phase \in RelayPhases \ {"idle", "ended"},
             relay' = [relay EXCEPT ![r] = x]
      PROVE  RelaysInv'
  BY <1>2, <1>7, RelaySet
<1>8. RelaysInv'
  <2>1. CASE ArriveRelay(r)
    <3>1. ASSUME NEW kind \in {"chat", "upload", "plain"},
                 relay' = [relay EXCEPT ![r].phase = "access", ![r].kind = kind, ![r].held = TRUE]
          PROVE  RelaysInv'
      <4>1. PICK x : x = [b EXCEPT !.phase = "access", !.kind = kind, !.held = TRUE]
        OBVIOUS
      <4>2. x \in Relays /\ x.phase = "access"
        BY <1>2, <4>1 DEF Relays, RelayPhases
      <4>3. relay' = [relay EXCEPT ![r] = x]
        BY <1>1, <3>1, <4>1
      <4>4. QED
        BY <1>7, <4>2, <4>3 DEF RelayPhases
    <3>2. QED
      BY <1>6, <2>1, <3>1 DEF ArriveRelay
  <2>2. CASE GetRuntimeAccess(r)
    <3>1. PICK phase \in {"upload", "fetch"} :
            phase = IF relay[r].kind = "upload" THEN "upload" ELSE "fetch"
      OBVIOUS
    <3>2. ASSUME relay' = [relay EXCEPT ![r].phase = phase] PROVE RelaysInv'
      <4>1. PICK x : x = [b EXCEPT !.phase = phase]
        OBVIOUS
      <4>2. x \in Relays /\ x.phase = phase
        BY <1>2, <4>1 DEF Relays, RelayPhases
      <4>3. relay' = [relay EXCEPT ![r] = x]
        BY <1>1, <3>2, <4>1
      <4>4. QED
        BY <1>7, <4>2, <4>3 DEF RelayPhases
    <3>3. QED
      BY <1>6, <2>2, <3>1, <3>2 DEF GetRuntimeAccess
  <2>3. CASE ReadUpload(r)
    <3>1. PICK x : x = [b EXCEPT !.phase = "fetch", !.kind = "plain"]
      OBVIOUS
    <3>2. x \in Relays /\ x.phase = "fetch"
      BY <1>2, <3>1 DEF Relays, RelayPhases
    <3>3. Ended(r) \/ relay' = [relay EXCEPT ![r] = x]
      BY <1>1, <2>3, <3>1 DEF ReadUpload
    <3>4. QED
      BY <1>6, <1>7, <3>2, <3>3 DEF RelayPhases
  <2>4. CASE FetchRuntime(r)
    <3>1. PICK x : x = [b EXCEPT !.phase = "streaming", !.kind = "plain"]
      OBVIOUS
    <3>2. PICK y : y = [b EXCEPT !.phase = "streaming"]
      OBVIOUS
    <3>3. x \in Relays /\ x.phase = "streaming" /\ y \in Relays /\ y.phase = "streaming"
      BY <1>2, <3>1, <3>2 DEF Relays, RelayPhases
    <3>4. \/ Ended(r) \/ relay' = [relay EXCEPT ![r] = x] \/ relay' = [relay EXCEPT ![r] = y]
      BY <1>1, <2>4, <3>1, <3>2 DEF FetchRuntime
    <3>5. QED
      BY <1>6, <1>7, <3>3, <3>4 DEF RelayPhases
  <2>5. CASE ForwardMarker(r)
    <3>1. PICK x : x = [b EXCEPT !.marker = TRUE]
      OBVIOUS
    <3>2. x \in Relays /\ x.phase = b.phase /\ x.held = b.held
      BY <1>2, <3>1 DEF Relays, RelayPhases
    <3>3. relay' = [relay EXCEPT ![r] = x]
      BY <1>1, <2>5, <3>1 DEF ForwardMarker
    <3>4. QED
      BY <1>2, <1>7, <3>2, <3>3
  <2>6. CASE ReadEnd(r)
    <3>1. PICK x : x = [b EXCEPT !.phase = "completing"]
      OBVIOUS
    <3>2. x \in Relays /\ x.phase = "completing"
      BY <1>2, <3>1 DEF Relays, RelayPhases
    <3>3. relay' = [relay EXCEPT ![r] = x]
      BY <1>1, <2>6, <3>1 DEF ReadEnd
    <3>4. QED
      BY <1>7, <3>2, <3>3 DEF RelayPhases
  <2>7. CASE CloseStream(r) \/ ReadError(r)
    BY <1>6, <2>7 DEF CloseStream, ReadError
  <2>8. CASE Leave(r)
    <3>1. PICK x : x = [b EXCEPT !.gone = TRUE, !.aborted = b.held]
      OBVIOUS
    <3>2. x \in Relays /\ x.phase = b.phase /\ x.held = b.held
      BY <1>2, <3>1 DEF Relays, RelayPhases
    <3>3. relay' = [relay EXCEPT ![r] = x]
      BY <1>1, <2>8, <3>1 DEF Leave
    <3>4. QED
      BY <1>2, <1>7, <3>2, <3>3
  <2>9. CASE CancelStream(r)
    <3>1. PICK x : x = [b EXCEPT !.phase = "ended", !.kind = "plain", !.aborted = TRUE,
                                 !.held = FALSE]
      OBVIOUS
    <3>2. x \in Relays /\ ~x.held
      BY <1>2, <3>1 DEF Relays, RelayPhases
    <3>3. relay' = [relay EXCEPT ![r] = x]
      BY <1>1, <2>9, <3>1 DEF CancelStream
    <3>4. QED
      BY <1>7, <3>2, <3>3
  <2>10. QED
    BY <2>1, <2>2, <2>3, <2>4, <2>5, <2>6, <2>7, <2>8, <2>9
<1>9. QED
  BY <1>3, <1>4, <1>5, <1>8, RuntimeStep

EntriesOf(k, named) ==
  {Entry(k.chat, i, k.log, k.model, named) : i \in DOMAIN k.log}

\* The entries of a copy are rows of their turns, with the ids those have in the log.
LEMMA EntriesOfCopy ==
  ASSUME UsageInv, NEW s \in Copier, NEW named \in BOOLEAN, NEW k, k = copy[s]
  PROVE  /\ EntriesOf(k, named) \subseteq Rows
         /\ \A a, b \in EntriesOf(k, named) : a.id = b.id => a = b
         /\ \A e \in EntriesOf(k, named) : \E i \in DOMAIN runtime[k.chat].log :
              e.turn = <<k.chat, i>> /\ e.id = IdAt(k.chat, i)
         /\ \A i \in DOMAIN k.log : \E e \in EntriesOf(k, named) : e.id = IdAt(k.chat, i)
<1>1. k = copy[s]
  OBVIOUS
<1>2. k \in Copies /\ k.chat \in Chat /\ k.log \in Seq(Turns) /\ k.model \in Model
  BY <1>1 DEF UsageInv, CopiesInv, Copies
<1>3. ASSUME NEW i \in DOMAIN k.log
      PROVE  LET e == Entry(k.chat, i, k.log, k.model, named)
             IN  /\ e \in Rows /\ i \in DOMAIN runtime[k.chat].log
                 /\ e.turn = <<k.chat, i>> /\ e.id = IdAt(k.chat, i)
  <2>1. i \in Nat /\ k.log[i] \in Turns
    BY <1>2
  <2>2. CostOf(k.log[i], k.model) \in Nat
    BY <1>2, RateAssumption DEF CostOf, ReportedCost
  <2>3. EventId(k.chat, i, k.log[i]) \in EventIds
    BY <1>2, <2>1 DEF EventId, EventIds
  <2>4. i \in DOMAIN runtime[k.chat].log /\ k.log[i] = runtime[k.chat].log[i]
    BY <1>1, <1>3 DEF UsageInv, CopiesInv
  <2>5. EventId(k.chat, i, k.log[i]) = IdAt(k.chat, i)
    BY <2>4 DEF IdAt
  <2>6. QED
    BY <1>2, <2>1, <2>2, <2>3, <2>4, <2>5 DEF Entry, Rows
<1>4. PICK E : E = [i \in DOMAIN k.log |-> Entry(k.chat, i, k.log, k.model, named)]
  OBVIOUS
<1>5. \A i \in DOMAIN k.log : /\ E[i] \in Rows /\ i \in DOMAIN runtime[k.chat].log
                              /\ E[i].turn = <<k.chat, i>> /\ E[i].id = IdAt(k.chat, i)
  BY <1>3, <1>4
<1>6. /\ \A e \in EntriesOf(k, named) : \E i \in DOMAIN k.log : e = E[i]
      /\ \A i \in DOMAIN k.log : E[i] \in EntriesOf(k, named)
  BY <1>4 DEF EntriesOf
<1>7. \A i, j \in DOMAIN k.log : E[i].id = E[j].id => i = j
  BY <1>5, IdsDiffer DEF IdAt
<1>8. QED
  BY <1>5, <1>6, <1>7

\* Every row keeps its model and its cost once it has one, none is lost, and a
\* copy that succeeds leaves a row for each of its entries.
LEMMA RecordCopyEffect ==
  ASSUME UsageInv, NEW s \in Copier, RecordCopy(s)
  PROVE  /\ LedgerInv'
         /\ \A row \in ledger : \E z \in ledger' :
              /\ z.id = row.id /\ z.turn = row.turn
              /\ z.model = row.model /\ row.cost \in {0, z.cost}
         /\ copy'[s].phase = "recorded" =>
              \A i \in DOMAIN copy[s].log : IdAt(copy[s].chat, i) \in Ids(ledger')
         /\ copy'[s].phase \in {"recorded", "failed"} /\ copy'[s].log = <<>>
         /\ copy' \in [Copier -> Copies]
         /\ \A x \in Copier \ {s} : copy'[x] = copy[x]
<1>1. PICK k : k = copy[s]
  OBVIOUS
<1>2. PICK named \in BOOLEAN : named = (s \notin ChatRequest)
  OBVIOUS
<1>3. PICK entries : entries = EntriesOf(k, named)
  OBVIOUS
<1>4. /\ entries \subseteq Rows
      /\ \A a, b \in entries : a.id = b.id => a = b
      /\ \A e \in entries : \E i \in DOMAIN runtime[k.chat].log :
           e.turn = <<k.chat, i>> /\ e.id = IdAt(k.chat, i)
      /\ \A i \in DOMAIN k.log : \E e \in entries : e.id = IdAt(k.chat, i)
  BY <1>1, <1>3, EntriesOfCopy
<1>5. PICK R : R = Recorded(ledger, entries)
  OBVIOUS
<1>6. /\ R \subseteq Rows
      /\ \A row \in ledger : \E z \in R :
           /\ z.id = row.id /\ z.turn = row.turn
           /\ z.model = row.model /\ row.cost \in {0, z.cost}
      /\ \A z \in R : z \in entries \/ \E row \in ledger : z.id = row.id /\ z.turn = row.turn
      /\ \A e \in entries : \E z \in R : z.id = e.id
      /\ \A a, b \in R : a.id = b.id => a = b
  BY <1>4, <1>5, RecordedEffect DEF UsageInv, LedgerInv
<1>7. k.chat \in Chat
  BY <1>1 DEF UsageInv, CopiesInv, Copies
<1>8. UNCHANGED <<runtime, workspace>>
  BY DEF RecordCopy
<1>9. \/ copy' = [copy EXCEPT ![s] = [NoCopy EXCEPT !.phase = "failed"]] /\ UNCHANGED ledger
      \/ /\ copy' = [copy EXCEPT ![s] = [NoCopy EXCEPT !.phase = "recorded"]] /\ ledger' = R
         /\ workspace = "gone" => entries = {}
  BY <1>1, <1>2, <1>3, <1>5 DEF RecordCopy, EntriesOf
<1>10. PICK phase \in {"failed", "recorded"} :
         /\ copy' = [copy EXCEPT ![s] = [NoCopy EXCEPT !.phase = phase]]
         /\ \/ phase = "failed" /\ UNCHANGED ledger
            \/ phase = "recorded" /\ ledger' = R /\ (workspace = "gone" => entries = {})
  BY <1>9
<1>11. PICK x \in Copies : /\ x = [NoCopy EXCEPT !.phase = phase]
                           /\ x.log = <<>> /\ x.phase = phase
  BY <1>7, <1>10, CopyShape DEF CopyPhases
<1>12. /\ copy'[s] = x /\ copy' \in [Copier -> Copies]
       /\ \A y \in Copier \ {s} : copy'[y] = copy[y]
  BY <1>10, <1>11 DEF UsageInv, CopiesInv
<1>13. CASE phase = "failed" /\ UNCHANGED ledger
  <2>1. LedgerInv'
    BY <1>8, <1>13 DEF UsageInv, LedgerInv, IdAt, EventId
  <2>2. QED
    BY <1>11, <1>12, <1>13, <2>1
<1>14. CASE phase = "recorded" /\ ledger' = R /\ (workspace = "gone" => entries = {})
  <2>1. \A c, i : IdAt(c, i)' = IdAt(c, i)
    BY <1>8 DEF IdAt, EventId
  <2>2. \A z \in R : \E c \in Chat : \E i \in DOMAIN runtime[c].log :
          z.turn = <<c, i>> /\ z.id = IdAt(c, i)
    BY <1>4, <1>6, <1>7 DEF UsageInv, LedgerInv
  <2>3. LedgerInv'
    <3>1. workspace = "gone" => R = {}
      BY <1>6, <1>14 DEF UsageInv, LedgerInv
    <3>2. QED
      BY <1>6, <1>8, <1>14, <2>1, <2>2, <3>1 DEF LedgerInv
  <2>4. \A i \in DOMAIN k.log : IdAt(k.chat, i) \in Ids(R)
    BY <1>4, <1>6 DEF Ids
  <2>5. QED
    BY <1>1, <1>6, <1>11, <1>12, <1>14, <2>3, <2>4
<1>15. QED
  BY <1>10, <1>13, <1>14

LEMMA CopyStepHolds ==
  ASSUME UsageInv, NEW s \in Copier, CopyStep(s)
  PROVE  UsageInv'
<1>1. UNCHANGED <<runtime, workspace, relay, visit>>
  BY DEF CopyStep, RuntimeAnswers, RecordCopy
<1>2. RuntimeInv' /\ RelaysInv'
  BY <1>1 DEF UsageInv, RuntimeInv, RelaysInv, Held
<1>3. \A c, i : IdAt(c, i)' = IdAt(c, i)
  BY <1>1 DEF IdAt, EventId
<1>4. PICK k : k = copy[s]
  OBVIOUS
<1>5. k \in Copies /\ k.chat \in Chat /\ runtime[k.chat] \in Sessions
  BY <1>4 DEF UsageInv, RuntimeInv, CopiesInv, Copies
<1>6. \A v \in Visit : \A c \in Chat : <<v, c>> \in Copier
  BY DEF Copier
<1>7. \A row \in ledger : row.id \in Ids(ledger)
  BY DEF Ids
<1>8. ASSUME LedgerInv', copy' \in [Copier -> Copies],
             Ids(ledger) \subseteq Ids(ledger'),
             \A x \in Copier \ {s} : copy'[x] = copy[x],
             copy'[s].phase \in {"asked", "carrying"} => copy'[s].chat = k.chat,
             copy'[s].phase \in {"carrying", "recorded", "failed"},
             \A i \in DOMAIN copy'[s].log : i \in DOMAIN runtime[copy'[s].chat].log
                                            /\ copy'[s].log[i] = runtime[copy'[s].chat].log[i],
             copy'[s].phase = "carrying" =>
               k.phase = "asked" /\ copy'[s].log = runtime[k.chat].log,
             copy'[s].phase = "recorded" =>
               k.phase = "carrying"
               /\ \A i \in DOMAIN k.log : IdAt(k.chat, i) \in Ids(ledger')
      PROVE  UsageInv'
  <2>1. CopiesInv'
    <3>1. \A x \in Copier \ {s} : \A i \in DOMAIN copy'[x].log :
            /\ i \in DOMAIN runtime[copy'[x].chat].log
            /\ copy'[x].log[i] = runtime[copy'[x].chat].log[i]
      BY <1>8 DEF UsageInv, CopiesInv
    <3>2. QED
      BY <1>1, <1>8, <3>1 DEF CopiesInv
  <2>2. ASSUME NEW v \in Visit, NEW c \in Chat, NEW i \in DOMAIN runtime[c].log,
               Brings(v, c, i)
        PROVE  Brings(v, c, i)'
    <3>1. CASE <<v, c>> # s
      BY <1>1, <1>3, <1>6, <1>8, <2>2, <3>1 DEF Brings
    <3>2. CASE <<v, c>> = s
      <4>1. c \in visit'[v].chats
        BY <1>1, <2>2 DEF Brings
      <4>2. k.phase \in {"asked", "carrying"} => k.chat = c
        BY <1>4, <2>2, <3>2 DEF Brings
      <4>3. copy'[s].phase \in {"asked", "carrying"} => copy'[s].chat = c
        BY <1>8, <4>2
      <4>4. copy'[s].phase = "carrying" => i \in DOMAIN copy'[s].log
        BY <1>8, <4>2
      <4>5. copy'[s].phase = "recorded" => IdAt(c, i) \in Ids(ledger')
        BY <1>4, <1>8, <2>2, <3>2, <4>2 DEF Brings
      <4>6. QED
        BY <1>1, <1>3, <3>2, <4>1, <4>3, <4>4, <4>5 DEF Brings
    <3>3. QED
      BY <3>1, <3>2
  <2>3. VisitsInv'
    BY <1>1, <1>3, <2>2 DEF UsageInv, VisitsInv
  <2>4. QED
    BY <1>2, <1>8, <2>1, <2>3 DEF UsageInv
<1>9. CASE RuntimeAnswers(s)
  <2>1. k.phase = "asked" /\ UNCHANGED ledger
    BY <1>4, <1>9 DEF RuntimeAnswers
  <2>2. LedgerInv'
    BY <1>1, <1>3, <2>1 DEF UsageInv, LedgerInv
  <2>3. PICK log \in Seq(Turns), model \in Model :
          log = runtime[k.chat].log /\ model = runtime[k.chat].model
    BY <1>5 DEF Sessions
  <2>4. PICK x : x = [k EXCEPT !.phase = "carrying", !.log = log, !.model = model]
    OBVIOUS
  <2>5. PICK y : y = [k EXCEPT !.phase = "failed"]
    OBVIOUS
  <2>6. /\ x \in Copies /\ x.phase = "carrying" /\ x.log = log /\ x.chat = k.chat
        /\ y \in Copies /\ y.phase = "failed" /\ y.log = k.log /\ y.chat = k.chat
    BY <1>5, <2>3, <2>4, <2>5 DEF Copies, CopyPhases
  <2>7. copy' = [copy EXCEPT ![s] = x] \/ copy' = [copy EXCEPT ![s] = y]
    BY <1>4, <1>9, <2>3, <2>4, <2>5 DEF RuntimeAnswers
  <2>8. \A i \in DOMAIN k.log : /\ i \in DOMAIN runtime[k.chat].log
                                /\ k.log[i] = runtime[k.chat].log[i]
    BY <1>4 DEF UsageInv, CopiesInv
  <2>9. copy' \in [Copier -> Copies] /\ \A z \in Copier \ {s} : copy'[z] = copy[z]
    BY <2>6, <2>7 DEF UsageInv, CopiesInv
  <2>10. copy'[s] = x \/ copy'[s] = y
    BY <2>7 DEF UsageInv, CopiesInv
  <2>11. QED
    BY <1>8, <2>1, <2>2, <2>3, <2>6, <2>8, <2>9, <2>10
<1>10. CASE RecordCopy(s)
  <2>1. k.phase = "carrying"
    BY <1>4, <1>10 DEF RecordCopy
  <2>2. Ids(ledger) \subseteq Ids(ledger')
    <3>1. \A row \in ledger : \E z \in ledger' : z.id = row.id
      BY <1>10, RecordCopyEffect
    <3>2. QED
      BY <3>1 DEF Ids
  <2>3. DOMAIN <<>> = {}
    OBVIOUS
  <2>4. /\ LedgerInv'
        /\ copy'[s].phase = "recorded" =>
             \A i \in DOMAIN k.log : IdAt(k.chat, i) \in Ids(ledger')
        /\ copy'[s].phase \in {"recorded", "failed"} /\ copy'[s].log = <<>>
        /\ copy' \in [Copier -> Copies]
        /\ \A x \in Copier \ {s} : copy'[x] = copy[x]
    BY <1>4, <1>10, RecordCopyEffect
  <2>5. QED
    BY <1>8, <2>1, <2>2, <2>3, <2>4
<1>11. QED
  BY <1>9, <1>10 DEF CopyStep

LEMMA DashboardStep ==
  ASSUME UsageInv, NEW v \in Visit, OpenDashboard(v) \/ ListChats(v) \/ AnswerDashboard(v)
  PROVE  UsageInv'
<1>1. UNCHANGED <<runtime, workspace, ledger, relay>>
  BY DEF OpenDashboard, ListChats, AnswerDashboard
<1>2. RuntimeInv' /\ RelaysInv'
  BY <1>1 DEF UsageInv, RuntimeInv, RelaysInv, Held
<1>3. \A c, i : IdAt(c, i)' = IdAt(c, i)
  BY <1>1 DEF IdAt, EventId
<1>4. LedgerInv'
  BY <1>1, <1>3 DEF UsageInv, LedgerInv
<1>5. PICK b : b = visit[v]
  OBVIOUS
<1>6. b \in Visits
  BY <1>5 DEF UsageInv, VisitsInv
<1>7. \A c \in Chat : \A w \in Visit : <<w, c>> \in Copier
  BY DEF Copier
<1>8. ASSUME NEW x \in Visits, visit' = [visit EXCEPT ![v] = x],
             copy' = copy \/ (x.phase = "syncing" /\ ListChats(v)),
             x.phase \in {"listing", "syncing"} => \A id \in x.due :
               \E c \in Chat : \E i \in DOMAIN runtime[c].log : id = IdAt(c, i),
             x.phase = "syncing" => \A c \in Chat : \A i \in DOMAIN runtime[c].log :
               c \in x.chats /\ copy'[<<v, c>>].phase = "asked" /\ copy'[<<v, c>>].chat = c,
             CopiesInv',
             \A w \in Visit \ {v} : \A c \in Chat : copy'[<<w, c>>] = copy[<<w, c>>]
      PROVE  UsageInv'
  <2>1. visit' \in [Visit -> Visits] /\ \A w \in Visit : visit'[w] = IF w = v THEN x ELSE visit[w]
    BY <1>8 DEF UsageInv, VisitsInv
  <2>2. ASSUME NEW w \in Visit, visit'[w].phase = "syncing",
               NEW c \in Chat, NEW i \in DOMAIN runtime[c].log, IdAt(c, i) \in visit'[w].due
        PROVE  Brings(w, c, i)'
    <3>1. CASE w = v
      BY <1>8, <2>1, <2>2, <3>1 DEF Brings
    <3>2. CASE w # v
      <4>1. Brings(w, c, i)
        BY <2>1, <2>2, <3>2 DEF UsageInv, VisitsInv
      <4>2. QED
        BY <1>1, <1>3, <1>8, <2>1, <3>2, <4>1 DEF Brings
    <3>3. QED
      BY <3>1, <3>2
  <2>3. \A w \in Visit : visit'[w].phase \in {"listing", "syncing"} =>
          \A id \in visit'[w].due : \E c \in Chat : \E i \in DOMAIN runtime[c].log : id = IdAt(c, i)
    BY <1>8, <2>1 DEF UsageInv, VisitsInv
  <2>4. VisitsInv'
    BY <1>1, <1>3, <2>1, <2>2, <2>3 DEF VisitsInv
  <2>5. QED
    BY <1>2, <1>4, <1>8, <2>4 DEF UsageInv
<1>9. copy' = copy => CopiesInv'
  BY <1>1 DEF UsageInv, CopiesInv
<1>10. ASSUME NEW clean \in BOOLEAN, Summarize(v, clean), copy' = copy
       PROVE  UsageInv'
  <2>1. PICK x : x = [b EXCEPT !.phase = "answered", !.clean = clean, !.chats = {}]
    OBVIOUS
  <2>2. x \in Visits /\ x.phase = "answered"
    BY <1>6, <2>1 DEF Visits
  <2>3. visit' = [visit EXCEPT ![v] = x]
    BY <1>5, <1>10, <2>1 DEF Summarize
  <2>4. QED
    BY <1>8, <1>9, <1>10, <2>2, <2>3
<1>11. CASE OpenDashboard(v)
  <2>1. ASSUME visit' = [visit EXCEPT ![v].phase = "listing", ![v].due = Due]
        PROVE  UsageInv'
    <3>1. PICK due : due = Due
      OBVIOUS
    <3>2. PICK x : x = [b EXCEPT !.phase = "listing", !.due = due]
      OBVIOUS
    <3>3. \A id \in due : \E c \in Chat : \E i \in DOMAIN runtime[c].log : id = IdAt(c, i)
      BY <3>1 DEF Due, IdsOf, IdAt
    <3>4. \A c \in Chat : \A i \in DOMAIN runtime[c].log : IdAt(c, i) \in EventIds
      BY DEF IdAt, EventId, EventIds, UsageInv, RuntimeInv, Sessions
    <3>5. due \in SUBSET EventIds
      BY <3>3, <3>4
    <3>6. x \in Visits /\ x.phase = "listing" /\ x.due = due
      BY <1>6, <3>2, <3>5 DEF Visits
    <3>7. visit' = [visit EXCEPT ![v] = x]
      BY <1>5, <2>1, <3>1, <3>2
    <3>8. copy' = copy
      BY <1>11 DEF OpenDashboard
    <3>9. QED
      BY <1>8, <1>9, <3>3, <3>6, <3>7, <3>8
  <2>2. QED
    BY <1>10, <1>11, <2>1 DEF OpenDashboard
<1>12. CASE ListChats(v)
  <2>1. PICK listed \in SUBSET Chat : listed = {c \in Chat : runtime[c].log # <<>>}
    OBVIOUS
  <2>2. ASSUME visit' = [visit EXCEPT ![v].phase = "syncing", ![v].chats = listed],
               copy' = [s \in Copier |-> IF s \in {v} \X listed THEN Asked(s[2]) ELSE copy[s]]
        PROVE  UsageInv'
    <3>1. PICK x : x = [b EXCEPT !.phase = "syncing", !.chats = listed]
      OBVIOUS
    <3>2. x \in Visits /\ x.phase = "syncing" /\ x.chats = listed /\ x.due = b.due
      BY <1>6, <2>1, <3>1 DEF Visits
    <3>3. visit' = [visit EXCEPT ![v] = x]
      BY <1>5, <2>2, <3>1
    <3>4. \A s \in Copier : s \in {v} \X listed => s[2] \in Chat
      BY <2>1
    <3>5. copy' \in [Copier -> Copies]
      BY <2>2, <3>4, CopyShape DEF UsageInv, CopiesInv
    <3>6. CopiesInv'
      <4>1. ASSUME NEW s \in Copier, NEW i \in DOMAIN copy'[s].log
            PROVE  /\ i \in DOMAIN runtime'[copy'[s].chat].log
                   /\ copy'[s].log[i] = runtime'[copy'[s].chat].log[i]
        <5>1. copy'[s] = copy[s]
          BY <2>2, <3>4, <4>1, CopyShape
        <5>2. QED
          BY <1>1, <4>1, <5>1 DEF UsageInv, CopiesInv
      <4>2. QED
        BY <3>5, <4>1 DEF CopiesInv
    <3>7. \A w \in Visit \ {v} : \A c \in Chat : copy'[<<w, c>>] = copy[<<w, c>>]
      BY <1>7, <2>2
    <3>8. ASSUME NEW c \in Chat, NEW i \in DOMAIN runtime[c].log
          PROVE  c \in x.chats /\ copy'[<<v, c>>].phase = "asked" /\ copy'[<<v, c>>].chat = c
      <4>1. c \in listed
        BY <2>1, <3>8
      <4>2. copy'[<<v, c>>] = Asked(c)
        BY <1>7, <2>2, <4>1
      <4>3. QED
        BY <3>2, <4>1, <4>2, CopyShape
    <3>9. \A id \in x.due : \E c \in Chat : \E i \in DOMAIN runtime[c].log : id = IdAt(c, i)
      BY <1>5, <1>12, <3>2 DEF ListChats, UsageInv, VisitsInv
    <3>10. QED
      BY <1>8, <1>12, <3>2, <3>3, <3>6, <3>7, <3>8, <3>9
  <2>3. QED
    BY <1>10, <1>12, <2>1, <2>2 DEF ListChats
<1>13. CASE AnswerDashboard(v)
  BY <1>10, <1>13 DEF AnswerDashboard
<1>14. QED
  BY <1>11, <1>12, <1>13

LEMMA UsageInitInv == UsageInit => UsageInv
<1> SUFFICES ASSUME UsageInit PROVE UsageInv
  OBVIOUS
<1>1. PICK log \in Seq(Turns) : runtime = [c \in Chat |-> [log |-> log, model |-> FirstModel]]
  <2>1. <<>> \in Seq(Turns) /\ \A turn \in Turns : <<turn>> \in Seq(Turns)
    OBVIOUS
  <2>2. QED
    BY <2>1 DEF UsageInit
<1>2. RuntimeInv
  BY <1>1, RateAssumption DEF UsageInit, RuntimeInv, Sessions
<1>3. RelaysInv
  BY DEF UsageInit, RelaysInv, Relays, RelayPhases, NoRelay
<1>4. CopiesInv
  <2>1. ASSUME NEW s \in Copier PROVE NoCopy \in Copies /\ DOMAIN NoCopy.log = {}
    BY CopyShape, ChatAssumption DEF Copier
  <2>2. QED
    BY <2>1 DEF UsageInit, CopiesInv
<1>5. LedgerInv
  BY DEF UsageInit, LedgerInv
<1>6. VisitsInv
  BY DEF UsageInit, VisitsInv, Visits, NoVisit
<1>7. QED
  BY <1>2, <1>3, <1>4, <1>5, <1>6 DEF UsageInv

LEMMA UsageStep == UsageInv /\ [UsageNext]_usageVars => UsageInv'
<1> SUFFICES ASSUME UsageInv, [UsageNext]_usageVars PROVE UsageInv'
  OBVIOUS
<1>1. CASE \E c \in Chat : SwitchModel(c)
  <2>1. PICK c \in Chat : SwitchModel(c)
    BY <1>1
  <2>2. PICK model \in Model : runtime' = [runtime EXCEPT ![c].model = model]
    BY <2>1 DEF SwitchModel
  <2>3. runtime[c] \in Sessions
    BY DEF UsageInv, RuntimeInv
  <2>4. PICK session : session = [runtime[c] EXCEPT !.model = model]
    OBVIOUS
  <2>5. session \in Sessions /\ session.log = runtime[c].log
    BY <2>3, <2>4 DEF Sessions
  <2>6. runtime' = [runtime EXCEPT ![c] = session]
    BY <2>2, <2>4
  <2>7. Grown
    BY <2>5, <2>6 DEF UsageInv, RuntimeInv, Grown
  <2>8. UNCHANGED <<workspace, ledger, relay, copy, visit>>
    BY <2>1 DEF SwitchModel
  <2>9. RelaysInv'
    BY <2>8 DEF UsageInv, RelaysInv, Held
  <2>10. QED
    BY <2>7, <2>8, <2>9, RuntimeStep
<1>2. CASE StopWorkspace
  <2>1. /\ UNCHANGED <<runtime, ledger, relay, copy, visit>> /\ workspace = "ready"
        /\ workspace' = "stopped"
    BY <1>2 DEF StopWorkspace
  <2>2. \A c, i : IdAt(c, i)' = IdAt(c, i)
    BY <2>1 DEF IdAt, EventId
  <2>3. \A v, c, i : Brings(v, c, i)' = Brings(v, c, i)
    BY <2>1, <2>2 DEF Brings
  <2>4. QED
    BY <2>1, <2>2, <2>3
       DEF UsageInv, RuntimeInv, RelaysInv, Held, CopiesInv, LedgerInv, VisitsInv
<1>3. CASE DeleteWorkspace
  <2>1. /\ UNCHANGED <<runtime, relay, copy, visit>>
        /\ workspace' = "gone" /\ ledger' = {}
    BY <1>3 DEF DeleteWorkspace
  <2>2. \A c, i : IdAt(c, i)' = IdAt(c, i)
    BY <2>1 DEF IdAt, EventId
  <2>3. \A v, c, i : Brings(v, c, i) => Brings(v, c, i)'
    BY <2>1, <2>2 DEF Brings
  <2>4. VisitsInv'
    BY <2>1, <2>2, <2>3 DEF UsageInv, VisitsInv
  <2>5. QED
    BY <2>1, <2>2, <2>4 DEF UsageInv, RuntimeInv, RelaysInv, Held, CopiesInv, LedgerInv
<1>4. CASE UNCHANGED usageVars
  <2>1. UNCHANGED <<runtime, workspace, ledger, relay, copy, visit>>
    BY <1>4 DEF usageVars
  <2>2. \A c, i : IdAt(c, i)' = IdAt(c, i)
    BY <2>1 DEF IdAt, EventId
  <2>3. \A v, c, i : Brings(v, c, i)' = Brings(v, c, i)
    BY <2>1, <2>2 DEF Brings
  <2>4. QED
    BY <2>1, <2>2, <2>3
       DEF UsageInv, RuntimeInv, RelaysInv, Held, CopiesInv, LedgerInv, VisitsInv
<1>5. QED
  BY <1>1, <1>2, <1>3, <1>4, RequestStep, CopyStepHolds, DashboardStep DEF UsageNext, CopyStep

LEMMA UsageInvariant == UsageSpec => []UsageInv
  BY UsageInitInv, UsageStep, PTL DEF UsageSpec

LEMMA UsageInvTypes == UsageInv => UsageTypeOK
  BY DEF UsageInv, RuntimeInv, RelaysInv, Held, RelayPhases, CopiesInv, Copies, CopyPhases,
         LedgerInv, Rows, Sessions, UsageTypeOK

LEMMA TurnsDiffer == LedgerInv => OneRowPerTurn
<1> SUFFICES ASSUME LedgerInv, NEW a \in ledger, NEW b \in ledger, a.turn = b.turn
             PROVE  a = b
  BY DEF OneRowPerTurn
<1>1. PICK c : \E i : a.turn = <<c, i>> /\ a.id = EventId(c, i, runtime[c].log[i])
  BY DEF LedgerInv, IdAt
<1>2. PICK i : a.turn = <<c, i>> /\ a.id = EventId(c, i, runtime[c].log[i])
  BY <1>1
<1>3. PICK d : \E j : b.turn = <<d, j>> /\ b.id = EventId(d, j, runtime[d].log[j])
  BY DEF LedgerInv, IdAt
<1>4. PICK j : b.turn = <<d, j>> /\ b.id = EventId(d, j, runtime[d].log[j])
  BY <1>3
<1>5. a.turn[1] = c /\ a.turn[2] = i
  BY <1>2
<1>6. b.turn[1] = d /\ b.turn[2] = j
  BY <1>4
<1>7. a.id = b.id
  BY <1>2, <1>4, <1>5, <1>6
<1>8. QED
  BY <1>7 DEF LedgerInv

\* With one row for each turn, its bill shows what the rows say.
LEMMA BillShows ==
  ASSUME NEW rows \in SUBSET Rows, \A a, b \in rows : a.turn = b.turn => a = b
  PROVE  /\ DOMAIN BillOf(rows) \subseteq Chat \X Nat
         /\ \A row \in rows : /\ row.turn \in DOMAIN BillOf(rows)
                              /\ BillOf(rows)[row.turn].model = row.model
                              /\ BillOf(rows)[row.turn].cost = row.cost
         /\ \A t \in DOMAIN BillOf(rows) : \E row \in rows : row.turn = t
<1>1. DOMAIN BillOf(rows) = {row.turn : row \in rows}
  BY DEF BillOf
<1>2. ASSUME NEW row \in rows
      PROVE  /\ row.turn \in DOMAIN BillOf(rows)
             /\ BillOf(rows)[row.turn].model = row.model
             /\ BillOf(rows)[row.turn].cost = row.cost
  <2>1. row = CHOOSE z \in rows : z.turn = row.turn
    OBVIOUS
  <2>2. BillOf(rows)[row.turn] = [model |-> row.model, cost |-> row.cost]
    BY <1>1, <2>1 DEF BillOf
  <2>3. QED
    BY <1>1, <2>2
<1>3. DOMAIN BillOf(rows) \subseteq Chat \X Nat
  BY <1>1 DEF Rows
<1>4. QED
  BY <1>1, <1>2, <1>3

LEMMA RowsPersist ==
  ASSUME UsageInv, [UsageNext]_usageVars, workspace # "gone" \/ workspace' = "gone"
  PROVE  \/ UNCHANGED ledger /\ (workspace' = "gone" <=> workspace = "gone")
         \/ workspace # "gone" /\ workspace' = "gone" /\ ledger' = {}
         \/ /\ UNCHANGED workspace
            /\ \A row \in ledger : \E z \in ledger' :
                 /\ z.id = row.id /\ z.turn = row.turn
                 /\ z.model = row.model /\ row.cost \in {0, z.cost}
            /\ workspace = "gone" => UNCHANGED ledger
<1>1. CASE DeleteWorkspace
  BY <1>1 DEF DeleteWorkspace
<1>2. CASE \E s \in Copier : RecordCopy(s)
  <2>1. PICK s \in Copier : RecordCopy(s)
    BY <1>2
  <2>2. UNCHANGED workspace
    BY <2>1 DEF RecordCopy
  <2>3. LedgerInv'
    BY <2>1, RecordCopyEffect
  <2>4. workspace = "gone" => UNCHANGED ledger
    BY <2>2, <2>3 DEF UsageInv, LedgerInv
  <2>5. QED
    BY <2>1, <2>2, <2>4, RecordCopyEffect
<1>3. CASE StopWorkspace
  BY <1>3 DEF StopWorkspace
<1>4. DeleteWorkspace \/ (\E s \in Copier : RecordCopy(s)) \/ StopWorkspace
        \/ UNCHANGED <<ledger, workspace>>
  BY DEF UsageNext, usageVars, ArriveRelay, GetRuntimeAccess, ReadUpload, FetchRuntime,
         ForwardMarker, ReadEnd, CloseStream, ReadError, Leave, CancelStream, RuntimeAnswers,
         OpenDashboard, ListChats, AnswerDashboard, SwitchModel
<1>5. QED
  BY <1>1, <1>2, <1>3, <1>4

\* A copy that is recorded charges turns, the end of the workspace closes the account,
\* and nothing else is seen.
LEMMA ContractStep ==
  UsageInv /\ [UsageNext]_usageVars => [Contract!Next]_(Contract!vars)
<1> SUFFICES ASSUME UsageInv, [UsageNext]_usageVars
             PROVE  Contract!Next \/ UNCHANGED Contract!vars
  OBVIOUS
<1>1. LedgerInv /\ LedgerInv' /\ workspace' \in {"ready", "stopped", "gone"}
  BY UsageStep DEF UsageInv, RuntimeInv
<1>2. OneRowPerTurn /\ OneRowPerTurn'
  <2>1. (LedgerInv => OneRowPerTurn) /\ (LedgerInv => OneRowPerTurn)'
    BY TurnsDiffer, PTL
  <2>2. QED
    BY <1>1, <2>1
<1>3. workspace # "gone" \/ workspace' = "gone"
  BY DEF UsageNext, usageVars, ArriveRelay, GetRuntimeAccess, ReadUpload, FetchRuntime,
         ForwardMarker, ReadEnd, CloseStream, ReadError, Leave, CancelStream, RuntimeAnswers,
         RecordCopy, OpenDashboard, ListChats, AnswerDashboard, SwitchModel, StopWorkspace,
         DeleteWorkspace
<1>4. PICK B, C : B = BillOf(ledger) /\ C = BillOf(ledger')
  OBVIOUS
<1>5. /\ DOMAIN B \subseteq Chat \X Nat
      /\ \A row \in ledger : /\ row.turn \in DOMAIN B
                             /\ B[row.turn].model = row.model /\ B[row.turn].cost = row.cost
      /\ \A t \in DOMAIN B : \E row \in ledger : row.turn = t
  BY <1>1, <1>2, <1>4, BillShows DEF LedgerInv, OneRowPerTurn
<1>6. /\ DOMAIN C \subseteq Chat \X Nat
      /\ \A row \in ledger' : /\ row.turn \in DOMAIN C
                              /\ C[row.turn].model = row.model /\ C[row.turn].cost = row.cost
      /\ \A t \in DOMAIN C : \E row \in ledger' : row.turn = t
  BY <1>1, <1>2, <1>4, BillShows DEF LedgerInv, OneRowPerTurn
<1>7. CASE UNCHANGED ledger /\ (workspace' = "gone" <=> workspace = "gone")
  BY <1>7 DEF Contract!vars
<1>8. CASE workspace # "gone" /\ workspace' = "gone" /\ ledger' = {}
  <2>1. DOMAIN C = {}
    BY <1>6, <1>8
  <2>2. QED
    BY <1>4, <1>8, <2>1 DEF Contract!Next, Contract!Close
<1>9. CASE /\ UNCHANGED workspace /\ workspace # "gone"
           /\ \A row \in ledger : \E z \in ledger' :
                /\ z.id = row.id /\ z.turn = row.turn
                /\ z.model = row.model /\ row.cost \in {0, z.cost}
  <2>1. ASSUME NEW t \in DOMAIN B
        PROVE  t \in DOMAIN C /\ C[t].model = B[t].model /\ B[t].cost \in {0, C[t].cost}
    <3>1. PICK row \in ledger : row.turn = t
      BY <1>5
    <3>2. PICK z \in ledger' : z.turn = t /\ z.model = row.model /\ row.cost \in {0, z.cost}
      BY <1>9, <3>1
    <3>3. QED
      BY <1>5, <1>6, <3>1, <3>2
  <2>2. \A t \in DOMAIN C : C[t].model \in Model /\ C[t].cost \in Nat
    <3>1. \A z \in ledger' : z.model \in Model /\ z.cost \in Nat
      BY <1>1 DEF LedgerInv, Rows
    <3>2. QED
      BY <1>6, <3>1
  <2>3. Contract!Charge
    BY <1>4, <1>6, <1>9, <2>1, <2>2 DEF Contract!Charge
  <2>4. QED
    BY <2>3 DEF Contract!Next
<1>10. QED
  BY <1>3, <1>7, <1>8, <1>9, RowsPersist DEF Contract!vars

\* A dashboard that is complete awaited every copy, and each brought what was due.
LEMMA CatchesUpStep ==
  ASSUME UsageInv, [UsageNext]_usageVars, NEW v \in Visit,
         visit'[v].phase = "answered", visit[v].phase # "answered",
         visit'[v].clean, workspace # "gone"
  PROVE  visit[v].due \subseteq Ids(ledger)
<1>1. visit' # visit
  OBVIOUS
<1>2. PICK w \in Visit : OpenDashboard(w) \/ ListChats(w) \/ AnswerDashboard(w)
  BY <1>1 DEF UsageNext, usageVars, ArriveRelay, GetRuntimeAccess, ReadUpload, FetchRuntime,
     ForwardMarker, ReadEnd, CloseStream, ReadError, Leave, CancelStream, RuntimeAnswers,
     RecordCopy, SwitchModel, StopWorkspace, DeleteWorkspace
<1>3. visit \in [Visit -> Visits] /\ visit[w] \in Visits
  BY DEF UsageInv, VisitsInv
<1>4. w = v
  BY <1>2, <1>3 DEF OpenDashboard, ListChats, AnswerDashboard, Summarize
<1>5. \A clean : Summarize(v, clean) => visit'[v].clean = clean
  BY <1>3, <1>4 DEF Summarize, Visits
<1>6. visit[v].phase = "syncing" /\ \A s \in AwaitedBy(v) : Over(s) /\ copy[s].phase # "failed"
  <2>1. CASE OpenDashboard(v)
    <3>1. visit' # [visit EXCEPT ![v].phase = "listing", ![v].due = Due]
      BY <1>3, <1>4 DEF Visits
    <3>2. QED
      BY <1>5, <2>1, <3>1 DEF OpenDashboard
  <2>2. CASE ListChats(v)
    <3>1. \A listed : visit' # [visit EXCEPT ![v].phase = "syncing", ![v].chats = listed]
      BY <1>3, <1>4 DEF Visits
    <3>2. QED
      BY <1>5, <2>2, <3>1 DEF ListChats
  <2>3. CASE AnswerDashboard(v)
    BY <1>5, <2>3 DEF AnswerDashboard, AllAwaited
  <2>4. QED
    BY <1>2, <1>4, <2>1, <2>2, <2>3
<1>7. ASSUME NEW id \in visit[v].due
      PROVE  id \in Ids(ledger)
  <2>1. PICK c \in Chat : \E i \in DOMAIN runtime[c].log : id = IdAt(c, i)
    BY <1>6, <1>7 DEF UsageInv, VisitsInv
  <2>2. PICK i \in DOMAIN runtime[c].log : id = IdAt(c, i)
    BY <2>1
  <2>3. Brings(v, c, i)
    BY <1>6, <1>7, <2>2 DEF UsageInv, VisitsInv
  <2>4. <<v, c>> \in AwaitedBy(v)
    BY <2>3 DEF AwaitedBy, Brings
  <2>5. copy[<<v, c>>].phase = "recorded"
    BY <1>6, <2>4 DEF Over
  <2>6. QED
    BY <2>2, <2>3, <2>5 DEF Brings
<1>8. QED
  BY <1>7

---------------------------------------------------------------------------
(* The four together *)

GatewaySafety == GatewayInit /\ [][GatewayNext]_gatewayVars

\* Each of the four moves in the whole as it does alone.
LEMMA ImplementsCalls == GatewaySafety => CallsSpec
<1>1. GatewayInit => CallsInit
  BY DEF GatewayInit
<1>2. [GatewayNext]_gatewayVars => [CallsNext]_callVars
  BY DEF GatewayNext, gatewayVars
<1>3. QED
  BY <1>1, <1>2, PTL DEF GatewaySafety, CallsSpec

LEMMA ImplementsTraffic == GatewaySafety => TrafficSpec
<1>1. GatewayInit => TrafficInit
  BY DEF GatewayInit
<1>2. [GatewayNext]_gatewayVars => [TrafficNext]_trafficVars
  BY DEF GatewayNext, gatewayVars
<1>3. QED
  BY <1>1, <1>2, PTL DEF GatewaySafety, TrafficSpec

LEMMA ImplementsConsole == GatewaySafety => ConsoleSpec
<1>1. GatewayInit => ConsoleInit
  BY DEF GatewayInit
<1>2. [GatewayNext]_gatewayVars => [ConsoleNext]_consoleVars
  BY DEF GatewayNext, gatewayVars
<1>3. QED
  BY <1>1, <1>2, PTL DEF GatewaySafety, ConsoleSpec

LEMMA ImplementsUsage == GatewaySafety => UsageSpec
<1>1. GatewayInit => UsageInit
  BY DEF GatewayInit
<1>2. [GatewayNext]_gatewayVars => [UsageNext]_usageVars
  BY DEF GatewayNext, gatewayVars
<1>3. QED
  BY <1>1, <1>2, PTL DEF GatewaySafety, UsageSpec

LEMMA SafetyPart == GatewaySpec => GatewaySafety
  BY PTL DEF GatewaySpec, GatewaySafety

\* Whatever the gateways do, all of them keep their types.
THEOREM GatewayTypes == GatewaySpec => []TypeOK
<1>1. CallsInv /\ TrafficInv /\ ConsoleInv /\ UsageInv => TypeOK
  BY CallsInvTypes, TrafficInvTypes, ConsoleInvTypes, UsageInvTypes DEF TypeOK
<1>2. GatewaySafety => [](CallsInv /\ TrafficInv /\ ConsoleInv /\ UsageInv)
  BY ImplementsCalls, ImplementsTraffic, ImplementsConsole, ImplementsUsage,
     CallsInvariant, TrafficInvariant, ConsoleInvariant, UsageInvariant, PTL
<1>3. QED
  BY <1>1, <1>2, SafetyPart, PTL

\* Both requests of a call go to the address, with the key, that the row of the host had when
\* the call began (WorkerClientFactory.client).
THEOREM CallsAreCurrentHolds == GatewaySpec => []CallsAreCurrent
  BY SafetyPart, ImplementsCalls, CallsInvariant, CallsInvTypes, PTL

\* The leases that are counted for a key are the responses that are open, never more than its limit;
\* its window passes no more bytes than its limit and no interval as long as a window more
\* than twice that, for all keys, limits, windows and numbers of downloads
\* (responseWithLease, tryConsume).
THEOREM LimitersAccountHolds == GatewaySpec => []LimitersAccount
  BY SafetyPart, ImplementsTraffic, TrafficInvariant, TrafficInvTypes, PTL

\* The browser sees the console's output from its beginning, in order and without a gap but
\* for what its own full socket refused, and the console gets the input likewise, for all
\* limits and numbers of messages (attachConsoleBrowser, forwardConsoleInput).
THEOREM ConsoleInOrderHolds == GatewaySpec => []ConsoleInOrder
  BY SafetyPart, ImplementsConsole, ConsoleInvariant, ConsoleInvTypes, PTL

\* A turn has one row, and the ledger implements its contract: what was charged stays, at a
\* price that stays, however many copies of a log overlap, and nothing is charged to a
\* workspace that is gone (recordUsageEvent, its ON CONFLICT clause and the guard trigger).
THEOREM UsageChargedOnceHolds == GatewaySpec => UsageChargedOnce
<1>1. UsageInv => OneRowPerTurn
  BY TurnsDiffer DEF UsageInv
<1>2. UsageInit => Contract!Init
  <2>1. UsageInit => DOMAIN BillOf(ledger) = {} /\ workspace # "gone"
    BY DEF UsageInit, BillOf
  <2>2. QED
    BY <2>1 DEF Contract!Init
<1>3. UsageSpec => []OneRowPerTurn /\ Contract!Spec
  BY <1>1, <1>2, ContractStep, UsageInvariant, PTL DEF UsageSpec, Contract!Spec
<1>4. QED
  BY <1>3, SafetyPart, ImplementsUsage, PTL DEF UsageChargedOnce

\* A dashboard whose copies all succeeded shows every turn that was in a log when it was
\* opened (reconcileWorkspaceUsage).
THEOREM UsageCatchesUpHolds == GatewaySpec => UsageCatchesUp
<1>1. UsageInv /\ [UsageNext]_usageVars =>
        [\A v \in Visit :
           visit'[v].phase = "answered" /\ visit[v].phase # "answered"
             /\ visit'[v].clean /\ workspace # "gone"
           => visit[v].due \subseteq Ids(ledger)]_usageVars
  BY CatchesUpStep
<1>2. UsageSpec => UsageCatchesUp
  BY <1>1, UsageInvariant, PTL DEF UsageSpec, UsageCatchesUp
<1>3. QED
  BY <1>2, SafetyPart, ImplementsUsage, PTL
===============================================================================

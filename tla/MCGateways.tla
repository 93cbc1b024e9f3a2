----------------------------- MODULE MCGateways -----------------------------
(***************************************************************************)
(* Instances of the four components through which requests reach a worker  *)
(* or a runtime. They share no state: a behaviour moves one of them, its   *)
(* subject, and the others rest.                                           *)
(***************************************************************************)
EXTENDS Usage, Traffic, Console, WorkerCalls, TLC

CONSTANTS
  c1, c2, r1, v1, m1, m2,                          \* of Usage
  d1, d2, d3, global, worker, organization, ra, rb,    \* of Traffic
  t1,                                              \* of Console
  k1, k2, a1, a2, key1, key2, key3                       \* of WorkerCalls

VARIABLE subject

gatewayVars == <<subject, usageVars, trafficVars, consoleVars, callVars>>

UsageChatOf == r1 :> c1
UsageRates  == m1 :> 0 @@ m2 :> 1
UsageTurns  == {[native |-> FALSE, reported |-> FALSE], [native |-> TRUE, reported |-> TRUE]}

TrafficScope == d1 :> {global, worker, organization, ra} 
             @@ d2 :> {global, worker, organization, ra}
             @@ d3 :> {global, worker, organization, rb}
TrafficLeases == global :> 3 @@ worker :> 2 @@ organization :> 2 @@ ra :> 1 @@ rb :> 1
TrafficBytes == global :> 3 @@ worker :> 2 @@ organization :> 2 @@ ra :> 2 @@ rb :> 1

GatewayInit ==
  /\ subject \in {"usage", "traffic", "console", "calls"}
  /\ UsageInit /\ TrafficInit /\ ConsoleInit /\ CallsInit
  /\ subject # "usage" => Due = {}
  /\ subject # "calls" => host = [address |-> a1, key |-> key1]

GatewayNext ==
  /\ UNCHANGED subject
  /\ \/ subject = "usage" /\ UsageNext /\ UNCHANGED <<trafficVars, consoleVars, callVars>>
     \/ subject = "traffic" /\ TrafficNext /\ UNCHANGED <<usageVars, consoleVars, callVars>>
     \/ subject = "console" /\ ConsoleNext /\ UNCHANGED <<usageVars, trafficVars, callVars>>
     \/ subject = "calls" /\ CallsNext /\ UNCHANGED <<usageVars, trafficVars, consoleVars>>

\* The runtime answers what it is asked, a request that can go on does, and a
\* socket that is closing gets closed. Users, models and limits do as they like.
GatewaySpec ==
  /\ GatewayInit /\ [][GatewayNext]_gatewayVars
  /\ \A s \in Copier : WF_usageVars(subject = "usage" /\ CopyStep(s))
  /\ \A r \in ChatRequest : WF_usageVars(subject = "usage" /\ RelayStep(r))
  /\ \A t \in Terminal : WF_consoleVars(subject = "console" /\ ConsoleStep(t))

\* One type invariant for the four of them.
TypeOK ==
  UsageTypeOK /\ TrafficTypeOK /\ ConsoleTypeOK /\ CallsTypeOK

\* What the limiters count is what is open and what went through.
LimitersAccount == LeasesBalance /\ BytesAreMetered

\* A turn whose end was seen is copied, and a dashboard that passes for complete
\* has all that was due when it was opened.
UsageReported == UsageCatchesUp /\ TurnReported

\* Nothing is kept when one side goes away: neither the request to a runtime
\* whose browser left, nor the other socket of a console.
EndsMeet == RelayLetsGo /\ ConsoleCloses
=============================================================================

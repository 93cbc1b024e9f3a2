------------------------------- MODULE Usage -------------------------------
(***************************************************************************)
(* The runtime gateway and the usage ledger: requests that are streamed    *)
(* between a browser and the runtime of a workspace, the copies of the     *)
(* runtime's request log that they and the dashboards take, and the        *)
(* usage_event table that those copies end up in.                          *)
(*                                                                         *)
(* A copy asks the runtime for the session of a chat and records every     *)
(* entry of the log in one go; copies of the same chat overlap freely.     *)
(***************************************************************************)
EXTENDS Integers, Sequences, FiniteSets

CONSTANTS
  Chat,          \* the chats of one workspace
  ChatRequest,   \* requests of browsers to its runtime
  ChatOf,        \* bound: the chat that each request may be a turn of
  Visit,         \* usage dashboards that are opened
  Model,         \* models
  FirstModel,    \* bound: the model every chat begins with, and leaves once
  RateOf,        \* micro-USD of a turn with each model; 0: no rule in the table
  Turns,         \* the entries that occur: which carry an event_id, which a cost
  MaxTurns       \* bound: turns of a chat

ASSUME ChatAssumption  == ChatOf \in [ChatRequest -> Chat]
ASSUME RateAssumption  == RateOf \in [Model -> Nat] /\ FirstModel \in Model
ASSUME TurnsAssumption ==
  Turns \subseteq [native : BOOLEAN, reported : BOOLEAN] /\ MaxTurns \in Nat
ASSUME CopierAssumption == ChatRequest \cap (Visit \X Chat) = {}

VARIABLES
  runtime,   \* what the runtime has: for each chat its log and its model
  workspace, \* "ready", "stopped", or "gone" with its rows
  ledger,    \* the usage_event table
  relay,     \* the proxied requests
  copy,      \* the copies of the log that are under way
  visit      \* the dashboard requests

usageVars == <<runtime, workspace, ledger, relay, copy, visit>>

---------------------------------------------------------------------------
(* The runtime's log and the ledger *)

Copier == ChatRequest \cup (Visit \X Chat)

\* A legacy id is made of workspace, chat and place in the log, next to values
\* of the entry that two turns may share (second, purpose, message count).
EventId(c, i, turn) == <<IF turn.native THEN "native" ELSE "legacy", c, i>>

IdsOf(c, log) == {EventId(c, i, log[i]) : i \in DOMAIN log}

\* What the provider reported, otherwise the estimate of the price table.
ReportedCost == 9
CostOf(turn, model) == IF turn.reported THEN ReportedCost ELSE RateOf[model]

\* The price table at the model the session has when it is read.
Entry(c, i, log, model, named) ==
  [id |-> EventId(c, i, log[i]), turn |-> <<c, i>>, model |-> model,
   cost |-> CostOf(log[i], model), named |-> named]

\* Mutant: the newer cost wins.
MergedAnew(old, new) == [old EXCEPT !.named = old.named \/ new.named, !.cost = new.cost]

\* ON CONFLICT(event_id): the name may be replaced, a cost only while it is 0.
Merged(old, new) ==
  [old EXCEPT !.named = old.named \/ new.named,
              !.cost = IF old.cost = 0 THEN new.cost ELSE old.cost]

Recorded(rows, entries) ==
  LET Same(row) == {e \in entries : e.id = row.id}
  IN  {IF Same(row) = {} THEN row ELSE Merged(row, CHOOSE e \in Same(row) : TRUE) : row \in rows}
        \cup {e \in entries : \A row \in rows : row.id # e.id}

Ids(rows) == {row.id : row \in rows}

Due == UNION {IdsOf(c, runtime[c].log) : c \in Chat}

---------------------------------------------------------------------------
(* Copying a chat's log: #syncChatUsage *)

NoCopy == [phase |-> "idle", chat |-> CHOOSE c \in Chat : TRUE, log |-> <<>>,
           model |-> FirstModel]

\* fetch of /chat/<name>/session, without signal or time-out
Asked(c) == [NoCopy EXCEPT !.phase = "asked", !.chat = c]

Over(s) == copy[s].phase \in {"recorded", "failed"}

\* The runtime answers with the log as it is and the model the chat has now;
\* with an error status the copy ends without one, and a broken connection throws.
RuntimeAnswers(s) ==
  /\ copy[s].phase = "asked"
  /\ \/ /\ workspace = "ready"
        /\ copy' = [copy EXCEPT ![s].phase = "carrying",
                                ![s].log   = runtime[copy[s].chat].log,
                                ![s].model = runtime[copy[s].chat].model]
     \/ workspace # "ready" /\ copy' = [copy EXCEPT ![s].phase = "failed"]
  /\ UNCHANGED <<runtime, workspace, ledger, relay, visit>>

\* Every entry is recorded; the guard trigger refuses the rows of a workspace
\* that is gone. Only the copies of a dashboard carry the chat's name.
RecordCopy(s) ==
  /\ copy[s].phase = "carrying"
  /\ LET k == copy[s]
         entries == {Entry(k.chat, i, k.log, k.model, s \notin ChatRequest) : i \in DOMAIN k.log}
     IN IF workspace = "gone" /\ entries # {}
          THEN copy' = [copy EXCEPT ![s] = [NoCopy EXCEPT !.phase = "failed"]] /\ UNCHANGED ledger
          ELSE /\ copy' = [copy EXCEPT ![s] = [NoCopy EXCEPT !.phase = "recorded"]]
               /\ ledger' = Recorded(ledger, entries)
  /\ UNCHANGED <<runtime, workspace, relay, visit>>

---------------------------------------------------------------------------
(* A proxied request *)

\* kind: "chat" until it turns out that no turn of ChatOf[r] succeeded.
\* held: the abort listener is registered. gone: the browser went away.
\* marker: the end marker of a chat turn was forwarded.
NoRelay == [phase |-> "idle", kind |-> "plain", held |-> FALSE, aborted |-> FALSE,
            gone |-> FALSE, marker |-> FALSE]

\* Mutant: without cleanup().
EndedHeld(r) == relay' = [relay EXCEPT ![r].phase = "ended", ![r].kind = "plain"]

\* Whatever the status: the abort listener is removed.
Ended(r) ==
  relay' = [relay EXCEPT ![r].phase = "ended", ![r].kind = "plain", ![r].held = FALSE]

\* 404 or 409 unless the workspace is ready
ArriveRelay(r) ==
  /\ relay[r].phase = "idle"
  /\ \/ /\ workspace = "ready"
        /\ \E kind \in {"chat", "upload", "plain"} :
             relay' = [relay EXCEPT ![r].phase = "access", ![r].kind = kind, ![r].held = TRUE]
     \/ workspace # "ready" /\ Ended(r)
  /\ UNCHANGED <<runtime, workspace, ledger, copy, visit>>

\* 499 when it was aborted, 503 when getRuntimeAccess throws, 502 when the
\* address it returns is none
GetRuntimeAccess(r) ==
  /\ relay[r].phase = "access"
  /\ \/ Ended(r)
     \/ relay' = [relay EXCEPT ![r].phase = IF relay[r].kind = "upload" THEN "upload" ELSE "fetch"]
  /\ UNCHANGED <<runtime, workspace, ledger, copy, visit>>

\* The attachment is read into memory before anything is sent on: 413 when it
\* is too large, 400 when it is interrupted.
ReadUpload(r) ==
  /\ relay[r].phase = "upload"
  /\ \/ Ended(r)
     \/ ~relay[r].gone /\ relay' = [relay EXCEPT ![r].phase = "fetch", ![r].kind = "plain"]
  /\ UNCHANGED <<runtime, workspace, ledger, copy, visit>>

\* A chat turn makes an entry of the log before the end marker of the stream,
\* also when the gateway never sees its answer.
TakeTurn(c) ==
  /\ Len(runtime[c].log) < MaxTurns
  /\ \E turn \in Turns : runtime' = [runtime EXCEPT ![c].log = Append(runtime[c].log, turn)]

\* 499 or 502 without an answer; the name of the chat is kept for an ok answer.
FetchRuntime(r) ==
  /\ relay[r].phase = "fetch"
  /\ \/ UNCHANGED runtime /\ Ended(r)
     \/ /\ UNCHANGED runtime /\ workspace = "ready" /\ ~relay[r].aborted
        /\ relay' = [relay EXCEPT ![r].phase = "streaming", ![r].kind = "plain"]
     \/ /\ relay[r].kind = "chat" /\ workspace = "ready" /\ ~relay[r].aborted
        /\ TakeTurn(ChatOf[r])
        /\ \/ relay' = [relay EXCEPT ![r].phase = "streaming"]
           \/ Ended(r)
  /\ UNCHANGED <<workspace, ledger, copy, visit>>

\* The request is that of a chat turn, and it succeeded.
Reports(r) == relay[r].kind = "chat"

\* complete(): the copy is started once and its failure is swallowed.
Complete(r) ==
  IF Reports(r) /\ copy[r].phase = "idle"
    THEN copy' = [copy EXCEPT ![r] = Asked(ChatOf[r])]
    ELSE UNCHANGED copy

\* The end marker is seen on its way: the copy starts before the browser gets it.
ForwardMarker(r) ==
  /\ relay[r].phase = "streaming" /\ ~relay[r].gone /\ ~relay[r].marker
  /\ Reports(r)
  /\ relay' = [relay EXCEPT ![r].marker = TRUE]
  /\ Complete(r)
  /\ UNCHANGED <<runtime, workspace, ledger, visit>>

\* The runtime closes the stream: pull waits for the copy before it ends.
ReadEnd(r) ==
  /\ relay[r].phase = "streaming" /\ ~relay[r].gone
  /\ relay' = [relay EXCEPT ![r].phase = "completing"]
  /\ Complete(r)
  /\ UNCHANGED <<runtime, workspace, ledger, visit>>

CloseStream(r) ==
  /\ relay[r].phase = "completing"
  /\ Reports(r) => Over(r)
  /\ Ended(r)
  /\ UNCHANGED <<runtime, workspace, ledger, copy, visit>>

\* The upstream breaks.
ReadError(r) ==
  /\ relay[r].phase = "streaming"
  /\ Ended(r)
  /\ UNCHANGED <<runtime, workspace, ledger, copy, visit>>

\* The browser goes away: the listener aborts the upstream while it is held.
Leave(r) ==
  /\ relay[r].phase \notin {"idle", "ended"} /\ ~relay[r].gone
  /\ relay' = [relay EXCEPT ![r].gone = TRUE, ![r].aborted = relay[r].held]
  /\ UNCHANGED <<runtime, workspace, ledger, copy, visit>>

\* cancel() of the response body
CancelStream(r) ==
  /\ relay[r].phase \in {"streaming", "completing"} /\ relay[r].gone
  /\ relay' = [relay EXCEPT ![r].phase = "ended", ![r].kind = "plain",
                            ![r].aborted = TRUE, ![r].held = FALSE]
  /\ UNCHANGED <<runtime, workspace, ledger, copy, visit>>

---------------------------------------------------------------------------
(* A dashboard: reconcileWorkspaceUsage, and the summary after it *)

NoVisit == [phase |-> "idle", due |-> {}, chats |-> {}, clean |-> FALSE]

\* A failure of the reconciliation is swallowed; the summary counts the rows.
Summarize(v, clean) ==
  visit' = [visit EXCEPT ![v].phase = "answered", ![v].clean = clean, ![v].chats = {}]

OpenDashboard(v) ==
  /\ visit[v].phase = "idle"
  /\ \/ workspace = "ready"
          /\ visit' = [visit EXCEPT ![v].phase = "listing", ![v].due = Due]
     \/ workspace # "ready" /\ Summarize(v, FALSE)
  /\ UNCHANGED <<runtime, workspace, ledger, relay, copy>>

\* Access to the runtime, then /chats: a failure of either ends the attempt.
ListChats(v) ==
  /\ visit[v].phase = "listing"
  /\ \/ /\ workspace = "ready"
        /\ LET listed == {c \in Chat : runtime[c].log # <<>>}
           IN /\ visit' = [visit EXCEPT ![v].phase = "syncing", ![v].chats = listed]
              /\ copy' = [s \in Copier |-> IF s \in {v} \X listed THEN Asked(s[2]) ELSE copy[s]]
     \/ Summarize(v, FALSE) /\ UNCHANGED copy
  /\ UNCHANGED <<runtime, workspace, ledger, relay>>

\* Promise.all: the first failure ends the wait, the other copies go on.
AwaitedBy(v) == {v} \X visit[v].chats

\* Mutant: Promise.race.
AnyAwaited(v) == AwaitedBy(v) = {} \/ \E s \in AwaitedBy(v) : Over(s)

AllAwaited(v) == \A s \in AwaitedBy(v) : Over(s)

AnswerDashboard(v) ==
  /\ visit[v].phase = "syncing"
  /\ \/ AllAwaited(v) /\ Summarize(v, \A s \in AwaitedBy(v) : copy[s].phase # "failed")
     \/ (\E s \in AwaitedBy(v) : copy[s].phase = "failed") /\ Summarize(v, FALSE)
  /\ UNCHANGED <<runtime, workspace, ledger, relay, copy>>

---------------------------------------------------------------------------
(* Around them *)

SwitchModel(c) ==
  /\ runtime[c].model = FirstModel
  /\ \E m \in Model \ {FirstModel} : runtime' = [runtime EXCEPT ![c].model = m]
  /\ UNCHANGED <<workspace, ledger, relay, copy, visit>>

StopWorkspace ==
  /\ workspace = "ready"
  /\ workspace' = "stopped"
  /\ UNCHANGED <<runtime, ledger, relay, copy, visit>>

\* The member is deleted: its workspace and its rows with it.
DeleteWorkspace ==
  /\ workspace # "gone"
  /\ workspace' = "gone" /\ ledger' = {}
  /\ UNCHANGED <<runtime, relay, copy, visit>>

\* A workspace that was in use before: its log may hold turns that no copy saw.
UsageInit ==
  /\ \E log \in {<<>>} \cup {<<turn>> : turn \in Turns} :
       runtime = [c \in Chat |-> [log |-> log, model |-> FirstModel]]
  /\ workspace = "ready"
  /\ ledger = {}
  /\ relay = [r \in ChatRequest |-> NoRelay]
  /\ copy = [s \in Copier |-> NoCopy]
  /\ visit = [v \in Visit |-> NoVisit]

CopyStep(s) == RuntimeAnswers(s) \/ RecordCopy(s)

RelayStep(r) ==
  GetRuntimeAccess(r) \/ ReadUpload(r) \/ FetchRuntime(r) \/ CloseStream(r) \/ CancelStream(r)

UsageNext ==
  \/ \E r \in ChatRequest :
       \/ ArriveRelay(r) \/ GetRuntimeAccess(r) \/ ReadUpload(r) \/ FetchRuntime(r)
       \/ ForwardMarker(r) \/ ReadEnd(r) \/ CloseStream(r) \/ ReadError(r) \/ Leave(r)
       \/ CancelStream(r)
  \/ \E s \in Copier : RuntimeAnswers(s) \/ RecordCopy(s)
  \/ \E v \in Visit : OpenDashboard(v) \/ ListChats(v) \/ AnswerDashboard(v)
  \/ \E c \in Chat : SwitchModel(c)
  \/ StopWorkspace
  \/ DeleteWorkspace

---------------------------------------------------------------------------
(* Properties *)

UsageTypeOK ==
  /\ runtime \in [Chat -> [log : Seq(Turns), model : Model]]
  /\ workspace \in {"ready", "stopped", "gone"}
  /\ \A row \in ledger : row.model \in Model /\ row.cost \in Nat /\ row.named \in BOOLEAN
  /\ \A s \in Copier : copy[s].phase \in {"idle", "asked", "carrying", "recorded", "failed"}
  /\ \A r \in ChatRequest : relay[r].held =>
       relay[r].phase \in {"access", "upload", "fetch", "streaming", "completing"}

OneRowPerTurn == \A a, b \in ledger : a.turn = b.turn => a = b

BillOf(rows) ==
  [t \in {row.turn : row \in rows} |->
     LET of == CHOOSE row \in rows : row.turn = t IN [model |-> of.model, cost |-> of.cost]]

Contract == INSTANCE UsageContract WITH
  Turn <- Chat \X Nat,
  Cost <- Nat,
  bill <- BillOf(ledger),
  open <- workspace # "gone"

\* A turn is charged once, however often and from however many overlapping
\* copies it is recorded, a price that was recorded is never changed, and a copy
\* that comes late charges nothing to a workspace that is gone: the event ids, the
\* ON CONFLICT clause of recordUsageEvent and the trigger that guards its table.
UsageChargedOnce == []OneRowPerTurn /\ Contract!Spec

\* A dashboard whose requests to the runtime were all answered shows every turn
\* that was in the logs when it was opened: reconcileWorkspaceUsage waits for
\* every copy, although other copies and the deletion of the workspace interfere.
UsageCatchesUp ==
  [][\A v \in Visit :
       visit'[v].phase = "answered" /\ visit[v].phase # "answered"
         /\ visit'[v].clean /\ workspace # "gone"
       => visit[v].due \subseteq Ids(ledger)]_usageVars

\* Once the browser was sent the end marker, the turn is recorded in the end
\* whether or not it stays for the rest of the stream, unless the runtime stops
\* answering. This is what forwardRuntimeBody looks for the marker for.
TurnReported ==
  \A r \in ChatRequest :
    relay[r].marker ~> (copy[r].phase = "recorded" \/ workspace # "ready")

\* A request whose browser went away ends and leaves nothing held at the runtime.
RelayLetsGo ==
  \A r \in ChatRequest : relay[r].gone ~> (relay[r].phase = "ended" /\ ~relay[r].held)
============================================================================

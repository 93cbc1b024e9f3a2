------------------------------ MODULE Console ------------------------------
(***************************************************************************)
(* The bridge between a browser's terminal and the console of its          *)
(* workspace: the worker's socket is opened first, the browser is upgraded *)
(* after that, and output that arrives in between is kept up to a limit.   *)
(***************************************************************************)
EXTENDS Integers, Sequences, SequencesExt

CONSTANTS
  Terminal,     \* terminals that are opened
  MaxPending,   \* maximumPendingBytes, in messages
  MaxOutput,    \* bound: messages that the console of a workspace sends
  MaxInput      \* bound: messages that a browser sends

ASSUME PendingAssumption == MaxPending \in Nat
ASSUME TrafficBound == MaxOutput \in Nat /\ MaxInput \in Nat

VARIABLES bridge   \* for each terminal its two sockets and what is between them

consoleVars == <<bridge>>

---------------------------------------------------------------------------
\* upstream and browser: "none", "connecting" (or upgrading), "open", "closing",
\* "closed". attached: the bridge has a browser. closed: upstreamClosed is set.
\* sent, taken and seen: messages of the console that were sent, that arrived at
\* the bridge, and that the browser got, by number. dropped: those that its full
\* socket refused. typed, input: of the browser, and those that were sent on.
NoBridge ==
  [phase |-> "idle", upstream |-> "none", browser |-> "none", attached |-> FALSE,
   closed |-> FALSE, pending |-> <<>>, bytes |-> 0, sent |-> 0, taken |-> 0, seen |-> <<>>,
   dropped |-> {}, typed |-> 0, input |-> <<>>]

\* Upgrade header, origin, session, organization, dimensions, terminal id and the
\* state of the workspace: 426, 403, 401, 503, 400, 404 or 409.
Prepare(t) ==
  /\ bridge[t].phase = "idle"
  /\ \/ bridge' = [bridge EXCEPT ![t].phase = "refused"]
     \/ bridge' = [bridge EXCEPT ![t].phase = "connecting", ![t].upstream = "connecting",
                                 ![t].browser = "connecting"]

\* connectUpstream waits for open, error or close: 502 unless it opened.
ConnectUpstream(t) ==
  /\ bridge[t].phase = "connecting"
  /\ \/ bridge' = [bridge EXCEPT ![t].phase = "prepared", ![t].upstream = "open"]
     \/ bridge' = [bridge EXCEPT ![t].phase = "refused", ![t].upstream = "closed",
                                 ![t].browser = "closed"]

\* Mutant: only the reference to the browser is dropped.
ShutHalf(b) == [b EXCEPT !.attached = FALSE]

\* closeConsoleBridge
Shut(b) ==
  [b EXCEPT !.attached = FALSE,
            !.upstream = IF b.upstream \in {"open", "connecting"} THEN "closing" ELSE b.upstream]

\* The upgrade of the browser; when it is gone by then, the bridge is closed.
Upgrade(t) ==
  /\ bridge[t].phase = "prepared"
  /\ \/ /\ bridge[t].browser = "connecting"
        /\ bridge' = [bridge EXCEPT ![t].phase = "upgraded", ![t].browser = "open"]
     \/ /\ bridge[t].browser = "closed"
        /\ bridge' = [bridge EXCEPT ![t] = [Shut(bridge[t]) EXCEPT !.phase = "refused"]]

\* browser.close() of an attached browser that is still open
Hangup(b) ==
  [b EXCEPT !.browser = IF b.attached /\ b.browser = "open" THEN "closing" ELSE b.browser]

\* Every kept message is passed to browser.send(). The socket refuses one while
\* more than its backpressure limit is unsent, which stays so until the loop is
\* over: the first n get through.
Flushed(b, n) ==
  [b EXCEPT !.phase = "attached", !.attached = TRUE, !.pending = <<>>, !.bytes = 0,
            !.seen = @ \o SubSeq(b.pending, 1, n),
            !.dropped = @ \cup ToSet(SubSeq(b.pending, n + 1, Len(b.pending)))]

\* attachConsoleBrowser: what was kept is sent, and the end of an upstream that
\* ended in the meantime.
Attached(b, n) == IF b.closed THEN Hangup(Flushed(b, n)) ELSE Flushed(b, n)

Attach(t) ==
  /\ bridge[t].phase = "upgraded" /\ bridge[t].browser # "closed"
  /\ \E n \in 0..Len(bridge[t].pending) : bridge' = [bridge EXCEPT ![t] = Attached(bridge[t], n)]

\* The console sends output while its socket is not closed at its end.
Emit(t) ==
  /\ bridge[t].upstream \in {"open", "closing"} /\ bridge[t].sent < MaxOutput
  /\ bridge' = [bridge EXCEPT ![t].sent = @ + 1]

\* Mutant: output beyond the limit is dropped and the upstream goes on.
KeptWithoutClosing(b, message) ==
  IF b.bytes + 1 > MaxPending
    THEN [b EXCEPT !.pending = <<>>, !.bytes = b.bytes + 1]
    ELSE [b EXCEPT !.pending = Append(b.pending, message), !.bytes = b.bytes + 1]

\* Output for which there is no browser yet. The count stays beyond the limit.
Kept(b, message) ==
  IF b.bytes + 1 > MaxPending
    THEN [b EXCEPT !.pending = <<>>, !.bytes = b.bytes + 1, !.upstream = "closing"]
    ELSE [b EXCEPT !.pending = Append(b.pending, message), !.bytes = b.bytes + 1]

\* browser.send(), whose result nobody reads: the socket takes the message, or
\* refuses it beyond its backpressure limit. One that is not open takes none.
Delivered(b, message) ==
  IF b.browser # "open" THEN {b}
  ELSE {[b EXCEPT !.seen = Append(@, message)], [b EXCEPT !.dropped = @ \cup {message}]}

\* The listener for messages. A socket that is not open delivers none.
TakeOutput(t) ==
  LET b == [bridge[t] EXCEPT !.taken = @ + 1]
  IN  /\ bridge[t].upstream = "open" /\ bridge[t].phase \in {"prepared", "upgraded", "attached"}
      /\ bridge[t].taken < bridge[t].sent
      /\ \E after \in IF b.attached THEN Delivered(b, b.taken) ELSE {Kept(b, b.taken)} :
           bridge' = [bridge EXCEPT ![t] = after]

\* The console exits or the worker breaks off, perhaps with output on its way;
\* or the handshake of a close() ends. The listener for close passes it on.
UpstreamCloses(t) ==
  /\ bridge[t].upstream \in {"open", "closing"}
  /\ bridge' = [bridge EXCEPT ![t] =
       Hangup([bridge[t] EXCEPT !.upstream = "closed", !.closed = TRUE])]

\* forwardConsoleInput: input that finds no open upstream closes the browser.
Type(t) ==
  /\ bridge[t].phase = "attached" /\ bridge[t].browser = "open" /\ bridge[t].typed < MaxInput
  /\ LET b == [bridge[t] EXCEPT !.typed = @ + 1]
     IN bridge' = [bridge EXCEPT ![t] =
          IF b.upstream = "open" THEN [b EXCEPT !.input = Append(b.input, b.typed)]
                                 ELSE Hangup(b)]

\* The browser goes away, or the handshake of close() ends. The close callback
\* of an upgraded socket closes the bridge; its open callback came before.
BrowserCloses(t) ==
  /\ bridge[t].browser \in {"connecting", "open", "closing"}
  /\ bridge[t].phase \in {"connecting", "prepared", "attached"}
  /\ LET b == [bridge[t] EXCEPT !.browser = "closed"]
     IN bridge' = [bridge EXCEPT ![t] =
          IF b.phase = "attached" THEN [Shut(b) EXCEPT !.phase = "over"] ELSE b]

ConsoleInit == bridge = [t \in Terminal |-> NoBridge]

\* What happens by itself; Emit, Type and the user's departure need not.
ConsoleStep(t) ==
  \/ ConnectUpstream(t) \/ Upgrade(t) \/ Attach(t) \/ TakeOutput(t)
  \/ bridge[t].upstream = "closing" /\ UpstreamCloses(t)
  \/ bridge[t].browser = "closing" /\ BrowserCloses(t)

ConsoleNext ==
  \E t \in Terminal :
    \/ Prepare(t) \/ ConnectUpstream(t) \/ Upgrade(t) \/ Attach(t) \/ Emit(t)
    \/ TakeOutput(t) \/ UpstreamCloses(t) \/ Type(t) \/ BrowserCloses(t)

---------------------------------------------------------------------------
(* Properties *)

ConsoleTypeOK ==
  \A t \in Terminal :
    /\ bridge[t].upstream \in {"none", "connecting", "open", "closing", "closed"}
    /\ bridge[t].browser \in {"none", "connecting", "open", "closing", "closed"}
    /\ Len(bridge[t].pending) <= MaxPending
    /\ bridge[t].attached => bridge[t].pending = <<>>

Numbers(n) == [i \in 1..n |-> i]

\* The terminal shows the console's output from its beginning, in order, each
\* message once and without a gap but for what its own full socket refused,
\* although it is attached in the middle of it: the listener, the kept output and
\* its limit. While both ends are open nothing that arrived is missing. The
\* console gets the input from its beginning likewise.
ConsoleInOrder ==
  \A t \in Terminal :
    LET b == bridge[t]
    IN /\ \A i, j \in DOMAIN b.seen : i < j => b.seen[i] < b.seen[j]
       /\ \E n \in 0..b.taken :
            /\ ToSet(b.seen) \cup b.dropped = 1..n /\ ToSet(b.seen) \cap b.dropped = {}
            /\ b.attached /\ b.browser = "open" /\ b.upstream = "open" => n = b.taken
       /\ IsPrefix(b.input, Numbers(b.typed))

\* When one end of a bridge is closed, the other is closed in the end, at
\* whatever point of the connection it happened.
ConsoleCloses ==
  \A t \in Terminal :
    /\ bridge[t].upstream = "closed" ~> bridge[t].browser \in {"none", "closed"}
    /\ bridge[t].browser = "closed" ~> bridge[t].upstream \in {"none", "closed"}
============================================================================

----------------------------- MODULE Terminals -----------------------------
(***************************************************************************)
(* The terminal page: up to eight tabs, each with a socket of its own that *)
(* is opened anew after a break, by itself a few times and else by the     *)
(* user. What goes through the socket is Console's business.               *)
(***************************************************************************)
EXTENDS Naturals, FiniteSets

CONSTANTS
  Tab,          \* terminals
  Socket,       \* sockets, bound: of those that are not closed yet
  NoSocket,
  MaxTabs,      \* eight
  MaxRetries    \* three

ASSUME TerminalsAssumption ==
  NoSocket \notin Socket /\ MaxTabs \in Nat \ {0} /\ MaxRetries \in Nat

VARIABLES
  tabs,       \* the tabs
  selected,   \* the active one
  socket,     \* what the browser knows of each socket, and whose it is
  mounted,    \* the socket of the effect of each tab
  status,     \* the status each tab reports to the page
  retries,    \* retryAttemptsRef
  waiting     \* tabs whose reconnectTimer runs

terminalVars == <<tabs, selected, socket, mounted, status, retries, waiting>>

Free == [state |-> "free", tab |-> NoSocket]

---------------------------------------------------------------------------
\* The clean-up of the effect closes the socket, which takes a while.
Disposed(t) ==
  IF mounted[t] # NoSocket /\ socket[mounted[t]].state \in {"connecting", "open"}
    THEN [socket EXCEPT ![mounted[t]].state = "closing"] ELSE socket

\* The effect runs anew for a tab: clean-up, then another socket.
Connect(t, sockets) ==
  \E s \in Socket :
    /\ sockets[s].state = "free"
    /\ socket' = [sockets EXCEPT ![s] = [state |-> "connecting", tab |-> t]]
    /\ mounted' = [mounted EXCEPT ![t] = s]
    /\ status' = [status EXCEPT ![t] = "connecting"]
    /\ waiting' = waiting \ {t}

SocketOpens(s) ==
  /\ socket[s].state = "connecting"
  /\ socket' = [socket EXCEPT ![s].state = "open"]
  /\ LET t == socket[s].tab
     IN /\ retries' = [retries EXCEPT ![t] = 0]
        /\ status' = [status EXCEPT ![t] = "connected"]
  /\ UNCHANGED <<tabs, selected, mounted, waiting>>

\* A close of the worker's own is final; after any other the timer is set.
SocketCloses(s) ==
  /\ socket[s].state \in {"connecting", "open"}
  /\ socket' = [socket EXCEPT ![s] = Free]
  /\ LET t == socket[s].tab
     IN /\ mounted' = [mounted EXCEPT ![t] = NoSocket]
        /\ \/ /\ socket[s].state = "open"
              /\ status' = [status EXCEPT ![t] = "closed"]
              /\ UNCHANGED <<retries, waiting>>
           \/ /\ status' = [status EXCEPT ![t] = "error"]
              /\ IF retries[t] < MaxRetries
                   THEN retries' = [retries EXCEPT ![t] = @ + 1] /\ waiting' = waiting \cup {t}
                   ELSE UNCHANGED <<retries, waiting>>
  /\ UNCHANGED <<tabs, selected>>

\* A socket that was disposed ends without a word.
SocketGone(s) ==
  /\ socket[s].state = "closing"
  /\ socket' = [socket EXCEPT ![s] = Free]
  /\ UNCHANGED <<tabs, selected, mounted, status, retries, waiting>>

RetryByItself(t) ==
  /\ t \in waiting
  /\ Connect(t, Disposed(t))
  /\ UNCHANGED <<tabs, selected, retries>>

\* reconnectActiveTerminal, offered when the tab is disconnected.
Reconnect ==
  /\ status[selected] \in {"closed", "error"}
  /\ Connect(selected, Disposed(selected))
  /\ UNCHANGED <<tabs, selected, retries>>

SelectTab(t) ==
  /\ t \in tabs \ {selected}
  /\ selected' = t
  /\ UNCHANGED <<tabs, socket, mounted, status, retries, waiting>>

AddTerminal(t) ==
  /\ t \notin tabs /\ Cardinality(tabs) < MaxTabs
  /\ tabs' = tabs \cup {t}
  /\ selected' = t
  /\ retries' = [retries EXCEPT ![t] = 0]
  /\ Connect(t, socket)

\* The last one stays.  The session of the tab is unmounted.
CloseTerminal(t) ==
  /\ t \in tabs /\ tabs # {t}
  /\ tabs' = tabs \ {t}
  /\ IF selected = t THEN selected' \in tabs' ELSE UNCHANGED selected
  /\ socket' = Disposed(t)
  /\ mounted' = [mounted EXCEPT ![t] = NoSocket]
  /\ status' = [status EXCEPT ![t] = "none"]
  /\ waiting' = waiting \ {t}
  /\ UNCHANGED retries

TerminalsInit ==
  \E t \in Tab, s \in Socket :
    /\ tabs = {t} /\ selected = t
    /\ socket = [x \in Socket |-> IF x = s THEN [state |-> "connecting", tab |-> t] ELSE Free]
    /\ mounted = [u \in Tab |-> IF u = t THEN s ELSE NoSocket]
    /\ status = [u \in Tab |-> IF u = t THEN "connecting" ELSE "none"]
    /\ retries = [u \in Tab |-> 0] /\ waiting = {}

TerminalsNext ==
  \/ \E s \in Socket : SocketOpens(s) \/ SocketCloses(s) \/ SocketGone(s)
  \/ \E t \in Tab : RetryByItself(t) \/ SelectTab(t) \/ AddTerminal(t) \/ CloseTerminal(t)
  \/ Reconnect

---------------------------------------------------------------------------
(* Properties *)

TerminalsTypeOK ==
  /\ tabs \subseteq Tab /\ selected \in tabs /\ Cardinality(tabs) <= MaxTabs
  /\ \A s \in Socket : socket[s].state \in {"free", "connecting", "open", "closing"}
  /\ mounted \in [Tab -> Socket \cup {NoSocket}]
  /\ status \in [Tab -> {"none", "connecting", "connected", "closed", "error"}]
  /\ retries \in [Tab -> 0..MaxRetries] /\ waiting \subseteq tabs

\* A tab says that it is connected when its own socket is, every socket that is
\* not being closed is the one of a tab on the page, and a timer waits only for
\* a tab that is broken (TerminalSession).
StatusIsOfSocket ==
  /\ \A t \in tabs :
       /\ status[t] = "connected" <=> mounted[t] # NoSocket /\ socket[mounted[t]].state = "open"
       /\ status[t] = "connecting" <=> mounted[t] # NoSocket /\ socket[mounted[t]].state = "connecting"
       /\ t \in waiting => status[t] = "error"
  /\ \A s \in Socket :
       socket[s].state \in {"connecting", "open"} => mounted[socket[s].tab] = s
=============================================================================

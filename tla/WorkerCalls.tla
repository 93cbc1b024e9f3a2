---------------------------- MODULE WorkerCalls ----------------------------
(***************************************************************************)
(* Calls of the control plane to a worker: the directory looks up the host *)
(* of the workspace, the client factory keeps one client per host, and the *)
(* client sends signed requests and classifies their answers.              *)
(***************************************************************************)
EXTENDS Integers

CONSTANTS
  Call,        \* calls under way
  Address,     \* base URLs
  KeyId,       \* ids of worker credentials
  Configured,  \* the credentials that the control plane holds
  NoClient     \* no cached client

ASSUME CredentialAssumption == Configured \subseteq KeyId
ASSUME NoClientAssumption == NoClient \notin [address : Address, key : KeyId]

VARIABLES
  host,    \* the worker_host row: where the worker is, and its credential
  client,  \* the cached client, by the connection it was made for
  call     \* the calls

callVars == <<host, client, call>>

---------------------------------------------------------------------------
(* Answers *)

\* What fetch comes to: it throws, it is aborted, or there is a response with an
\* error status or an ok one. An error says whether it is retryable or leaves
\* that to the status; an ok one has a payload that fits the question, or not.
WorkerAnswer ==
  {"unreachable", "aborted", "retryable", "final", "server_error", "client_error",
   "no_json", "unexpected", "good"}

\* A response of a published service is passed on as it is.
Proxied(answer) ==
  CASE answer = "aborted" -> "aborted"
    [] answer = "unreachable" -> "retryable"
    [] OTHER -> "good"

\* What the caller gets: WorkerClientError with its retryable flag, the AbortError
\* itself, or the payload.
Outcome(answer) ==
  CASE answer = "aborted" -> "aborted"
    [] answer = "unreachable" -> "retryable"
    [] answer \in {"retryable", "server_error", "no_json", "unexpected"} -> "retryable"
    [] answer \in {"final", "client_error"} -> "final"
    [] answer = "good" -> "good"

\* Status, runtime access, workspace, restart and the proxied service take one
\* request; ensureWorkspaceRunning creates the workspace before it starts it.
Kind == {"status", "access", "workspace", "restart", "proxy", "ensure"}

NoCall == [phase |-> "idle", kind |-> "status", row |-> NoClient, to |-> NoClient]

---------------------------------------------------------------------------
(* Clients *)

\* Mutant: a client is kept as long as its host keeps its address.
SameAddress == client # NoClient /\ client.address = host.address

\* The revision of a client is made of all that it depends on.
UpToDate == client = host

ClientOf == IF UpToDate THEN client ELSE host

\* The host and its secret are looked up at every call of a caller: a credential that is not
\* configured ends it. row remembers what the host's row said.
StartCall(c) ==
  /\ call[c].phase \notin {"create", "last"}
  /\ \E kind \in Kind :
       IF host.key \in Configured
         THEN /\ client' = ClientOf
              /\ call' = [call EXCEPT ![c] =
                   [phase |-> IF kind = "ensure" THEN "create" ELSE "last", kind |-> kind,
                    row |-> host, to |-> ClientOf]]
         ELSE call' = [call EXCEPT ![c] = [NoCall EXCEPT !.phase = "final"]] /\ UNCHANGED client
  /\ UNCHANGED host

\* Only a created workspace is started, by the same client. A workspace that is
\* not reported ready is "unexpected".
AnswerCall(c) ==
  /\ call[c].phase \in {"create", "last"}
  /\ \E answer \in WorkerAnswer :
       LET result == IF call[c].kind = "proxy" THEN Proxied(answer) ELSE Outcome(answer)
       IN call' = [call EXCEPT ![c].phase =
            IF call[c].phase = "create" /\ (result = "good" \/ answer = "unexpected")
              THEN "last" ELSE result]
  /\ UNCHANGED <<host, client>>

\* An administrator moves the worker or changes its credential.
PatchHost ==
  /\ host' \in [address : Address, key : KeyId]
  /\ UNCHANGED <<client, call>>

CallsInit ==
  /\ host \in [address : Address, key : KeyId]
  /\ client = NoClient
  /\ call = [c \in Call |-> NoCall]

CallsNext ==
  \/ \E c \in Call : StartCall(c) \/ AnswerCall(c)
  \/ PatchHost

---------------------------------------------------------------------------
(* Properties *)

CallsTypeOK ==
  /\ host \in [address : Address, key : KeyId]
  /\ client \in [address : Address, key : KeyId] \cup {NoClient}
  /\ \A c \in Call : call[c].kind \in Kind

\* A call, both requests of it, goes to the address and is signed with the secret
\* that the row of the host had when the call began, whatever was cached and
\* however often the host was changed since: WorkerClientFactory.client.
CallsAreCurrent ==
  \A c \in Call : call[c].phase \in {"create", "last"} => call[c].to = call[c].row
============================================================================

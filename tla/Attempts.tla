------------------------------ MODULE Attempts ------------------------------
(***************************************************************************)
(* The limiter in front of better-auth: each attempt counts in the bucket  *)
(* of its client's address and, unless that one is full, in the bucket of  *)
(* the mail address that its body names. Buckets are rows of the database  *)
(* and count in fixed windows.                                             *)
(*                                                                         *)
(* The buckets of the five actions are independent; one is modelled.       *)
(***************************************************************************)
EXTENDS Naturals, FiniteSets

CONSTANTS
  Ip, Mailbox,     \* the subjects
  NoMailbox,       \* the body names no address that can be read
  AttemptLimit,    \* the limit of each subject
  LimitWindow,     \* in ticks
  MaxAttempts,     \* bound: attempts that a bucket counts
  LastTick         \* bound: ticks of the clock

Subject == Ip \cup Mailbox

ASSUME AttemptAssumption ==
  /\ Ip \cap Mailbox = {} /\ NoMailbox \notin Subject
  /\ AttemptLimit \in [Subject -> Nat \ {0}]
  /\ LimitWindow \in Nat \ {0} /\ MaxAttempts \in Nat /\ LastTick \in Nat

VARIABLES
  bucket,      \* auth_rate_limit_bucket: start and count of each subject's window
  forwarded,   \* history: attempts let through in each tick, of each subject
  clock

attemptVars == <<bucket, forwarded, clock>>

\* Counts from the first attempt of a window on.
InBucket(s) == bucket[s].count > 0 /\ clock - bucket[s].start < LimitWindow

\* Mutant: a window starts anew at its limit.
CountedAnew(s) ==
  IF InBucket(s) /\ bucket[s].count < AttemptLimit[s] THEN [bucket[s] EXCEPT !.count = @ + 1]
  ELSE [start |-> clock, count |-> 1]

\* What is refused is counted too.
Counted(s) ==
  IF InBucket(s) THEN [bucket[s] EXCEPT !.count = @ + 1] ELSE [start |-> clock, count |-> 1]

Within(s) == Counted(s).count <= AttemptLimit[s]

\* The mail address is not charged for a client that is refused already.
Charged(i, a) == {i} \cup (IF a # NoMailbox /\ Within(i) THEN {a} ELSE {})

\* The body is read before; the buckets are consumed in one transaction.
Attempt(i, a) ==
  LET charged == Charged(i, a)
      allowed == \A s \in charged : Within(s)
  IN /\ \A s \in charged : Counted(s).count <= MaxAttempts
     /\ bucket' = [s \in Subject |-> IF s \in charged THEN Counted(s) ELSE bucket[s]]
     /\ forwarded' = IF ~allowed THEN forwarded
                     ELSE [s \in Subject |->
                            IF s \in charged THEN [forwarded[s] EXCEPT ![clock] = @ + 1]
                                             ELSE forwarded[s]]
     /\ UNCHANGED clock

Passes == clock < LastTick /\ clock' = clock + 1 /\ UNCHANGED <<bucket, forwarded>>

AttemptsInit ==
  /\ bucket = [s \in Subject |-> [start |-> 0, count |-> 0]]
  /\ forwarded = [s \in Subject |-> [t \in 0..LastTick |-> 0]]
  /\ clock = 0

AttemptsNext == Passes \/ \E i \in Ip, a \in Mailbox \cup {NoMailbox} : Attempt(i, a)

AttemptsTypeOK ==
  /\ bucket \in [Subject -> [start : 0..LastTick, count : 0..MaxAttempts]]
  /\ forwarded \in [Subject -> [0..LastTick -> 0..MaxAttempts]]
  /\ clock \in 0..LastTick

\* The attempts that f counts from tick a on and before b, each of them numbered.
Passed(f, a, b) ==
  UNION {{u} \X (1..f[u]) : u \in {v \in 0..LastTick : v >= a /\ v < b}}

ForwardedFrom(s, t) == Cardinality(Passed(forwarded[s], t, t + LimitWindow))

\* Windows are fixed: within any stretch of their length no subject gets more
\* than two limits through, and within the window of its bucket no more than one
\* (AuthRateLimiter.#consume).
AttemptsLimited ==
  \A s \in Subject :
    /\ \A t \in 0..LastTick : ForwardedFrom(s, t) <= 2 * AttemptLimit[s]
    /\ ForwardedFrom(s, bucket[s].start) <= AttemptLimit[s]
=============================================================================

---------------------------- MODULE RateLimiter ----------------------------
(***************************************************************************)
(* The token buckets of app/core/ratelimit.py, in front of the routes that *)
(* reach an LLM.  A caller's key is its bearer token, or else its host.    *)
(* With Redis every process shares one bucket of a key, written by a       *)
(* script; a process whose call fails answers from a bucket of its own.    *)
(*                                                                         *)
(* Time is in ticks, Minute of them in a minute, and tokens are counted in *)
(* units, Minute units to a token: a bucket gains PerMinute units a tick,  *)
(* which is the code's per_minute / 60 tokens a second without fractions.  *)
(*                                                                         *)
(* A process reads its own clock before the script runs, so what the       *)
(* script takes for the time may be up to MaxLag behind: a slow clock, or  *)
(* a call overtaken by another.                                            *)
(***************************************************************************)
EXTENDS Naturals, Integers

CONSTANTS
  Processes, Redis,
  Callers,       \* [token, host]: a bearer token, or NoToken, and an address
  NoToken,
  Capacity,      \* LLM_RATE_LIMIT_BURST, at least 1
  PerMinute,     \* LLM_RATE_LIMIT_REQUESTS_PER_MINUTE, at least 1
  Minute,        \* 60: ticks in a minute, units in a token
  MaxLag,        \* how far behind a reading of the clock may be
  Gone, Never,   \* no bucket; no answer yet
  MaxClock,      \* bound: ticks
  MaxCalls       \* bound: decisions

VARIABLES
  clock,
  bucket,        \* of a store and a key: [tokens, at], or Gone
  account,       \* history of a bucket: taken, born, back, last, written
  failed,        \* of a process: the keys whose call to Redis failed
  answer,        \* history: the last decision
  calls          \* history: counts the decisions

limiter == <<clock, bucket, account, failed, answer, calls>>

Stores == Processes \cup {Redis}
KeyOf(caller) == IF caller.token # NoToken THEN caller.token ELSE caller.host
BucketKeys == { KeyOf(caller) : caller \in Callers }
Buckets == Stores \X BucketKeys
Full == Capacity * Minute

\* Redis forgets a bucket this long after its last write.
Ttl == LET twice == (2 * Full) \div PerMinute IN IF twice > Minute THEN twice ELSE Minute

Bucket == [tokens : 0..Full, at : Int]
Account == [taken : Nat, born : Int, back : Nat, last : Int, written : Nat]
Answer == [bucket : Buckets, now : Int, allowed : BOOLEAN]

\* A reading of the clock is late by less than the time that Redis keeps a
\* bucket beyond the time it takes to fill.
ASSUME LimiterAssumption ==
  /\ Capacity \in Nat \ {0} /\ PerMinute \in Nat \ {0} /\ Minute \in Nat \ {0}
  /\ MaxLag \in Nat /\ Full <= PerMinute * (Ttl - MaxLag)
  /\ Redis \notin Processes
  /\ Gone \notin Bucket /\ Gone \notin Account /\ Never \notin Answer

BucketsOK ==
  /\ clock \in Nat
  /\ bucket \in [Buckets -> Bucket \cup {Gone}]
  /\ account \in [Buckets -> Account \cup {Gone}]
  /\ failed \in [Processes -> SUBSET BucketKeys]
  /\ answer \in Answer \cup {Never}
  /\ calls \in Nat

LimiterInit ==
  /\ clock = 0
  /\ bucket = [b \in Buckets |-> Gone]
  /\ account = [b \in Buckets |-> Gone]
  /\ failed = [p \in Processes |-> {}]
  /\ answer = Never
  /\ calls = 0

-----------------------------------------------------------------------------
AtMost(x, y) == IF x < y THEN x ELSE y
Since(t, now) == IF now > t THEN now - t ELSE 0

\* Variant: a bucket is filled without a limit
RefilledUncapped(b, now) ==
  IF bucket[b] = Gone THEN Full
  ELSE bucket[b].tokens + Since(bucket[b].at, now) * PerMinute

\* Variant: only whole tokens are added, and the rest is forgotten
RefilledWhole(b, now) ==
  IF bucket[b] = Gone THEN Full
  ELSE AtMost(Full, bucket[b].tokens
                      + ((Since(bucket[b].at, now) * PerMinute) \div Minute) * Minute)

\* What the bucket holds at a reading of the clock, before a token is taken.
Refilled(b, now) ==
  IF bucket[b] = Gone THEN Full
  ELSE AtMost(Full, bucket[b].tokens + Since(bucket[b].at, now) * PerMinute)

\* The account of the time since a decision.  It may start at any decision
\* after the first, so what holds of it holds of every stretch of time.
Opened(b, now, anew) ==
  CASE account[b] = Gone -> [taken |-> 0, born |-> now, back |-> 0, last |-> now, written |-> clock]
    [] account[b] # Gone /\ anew -> [account[b] EXCEPT !.taken = 0, !.born = now, !.back = 0]
    [] OTHER -> [account[b] EXCEPT
         !.back = @ + (IF bucket[b] = Gone THEN 0 ELSE Since(now, bucket[b].at))]

\* Variant: a refusal keeps what the bucket gained but not when it gained it
RemainingUndated(b, now) ==
  LET held == Refilled(b, now)
  IN IF held >= Minute THEN [tokens |-> held - Minute, at |-> now]
     ELSE [bucket[b] EXCEPT !.tokens = held]

\* What a decision leaves in the bucket, at the reading of the clock.
Remaining(b, now) ==
  LET held == Refilled(b, now)
  IN [tokens |-> IF held >= Minute THEN held - Minute ELSE held, at |-> now]

\* One run of the script, or of the in-memory code under its lock.
Decide(b, now) ==
  LET allowed == Refilled(b, now) >= Minute
  IN /\ calls < MaxCalls /\ calls' = calls + 1
     /\ bucket' = [bucket EXCEPT ![b] = Remaining(b, now)]
     /\ \E anew \in BOOLEAN :
          account' = [account EXCEPT ![b] =
            IF allowed
            THEN [Opened(b, now, anew) EXCEPT !.taken = @ + 1, !.last = now, !.written = clock]
            ELSE [Opened(b, now, anew) EXCEPT !.written = clock]]
     /\ answer' = [bucket |-> b, now |-> now, allowed |-> allowed]

\* Redis answers.
AllowShared(key, lag) ==
  /\ Decide(<<Redis, key>>, clock - lag)
  /\ UNCHANGED <<clock, failed>>

\* The call to Redis raises, or there is no client to call.
NotReached(p, key) ==
  /\ key \notin failed[p]
  /\ failed' = [failed EXCEPT ![p] = @ \cup {key}]
  /\ UNCHANGED <<clock, bucket, account, answer, calls>>

\* The script runs, and its reply is lost.
ReplyLost(p, key, lag) ==
  /\ key \notin failed[p]
  /\ failed' = [failed EXCEPT ![p] = @ \cup {key}]
  /\ Decide(<<Redis, key>>, clock - lag)
  /\ UNCHANGED clock

\* The process then answers from its own bucket.
AllowLocal(p, key) ==
  /\ key \in failed[p]
  /\ failed' = [failed EXCEPT ![p] = @ \ {key}]
  /\ Decide(<<p, key>>, clock)
  /\ UNCHANGED clock

Expire(key) ==
  LET b == <<Redis, key>>
  IN /\ bucket[b] # Gone
     /\ clock - account[b].written >= Ttl
     /\ bucket' = [bucket EXCEPT ![b] = Gone]
     /\ UNCHANGED <<clock, account, failed, answer, calls>>

\* A process, or Redis, starts again with nothing, and so does the account.
Restart(s) ==
  /\ bucket' = [b \in Buckets |-> IF b[1] = s THEN Gone ELSE bucket[b]]
  /\ account' = [b \in Buckets |-> IF b[1] = s THEN Gone ELSE account[b]]
  /\ failed' = [p \in Processes |-> IF p = s THEN {} ELSE failed[p]]
  /\ answer' = Never
  /\ UNCHANGED <<clock, calls>>

\* Redis removes a bucket when its time has come.
Tick ==
  /\ clock < MaxClock
  /\ \A key \in BucketKeys : bucket[<<Redis, key>>] # Gone =>
       clock - account[<<Redis, key>>].written < Ttl
  /\ clock' = clock + 1
  /\ UNCHANGED <<bucket, account, failed, answer, calls>>

LimiterNext ==
  \/ \E caller \in Callers :
       \/ \E lag \in 0..MaxLag :
            \/ AllowShared(KeyOf(caller), lag)
            \/ \E p \in Processes : ReplyLost(p, KeyOf(caller), lag)
       \/ \E p \in Processes : NotReached(p, KeyOf(caller)) \/ AllowLocal(p, KeyOf(caller))
  \/ \E key \in BucketKeys : Expire(key)
  \/ \E s \in Stores : Restart(s)
  \/ Tick

LimiterSpec == LimiterInit /\ [][LimiterNext]_limiter

-----------------------------------------------------------------------------
\* Over any stretch of time a caller gets from a bucket at most its capacity,
\* what the bucket gains in that time and what it gained twice because a
\* reading of the clock went back; a bucket in memory never does that.
Budget ==
  \A b \in Buckets : account[b] # Gone =>
    /\ account[b].taken * Minute <=
         Full + PerMinute * (clock - account[b].born + account[b].back)
    /\ b[1] # Redis => account[b].back = 0

\* A caller is refused only within the time of one token of what the bucket
\* last gave it, so one that waits as its Retry-After says, a minute, is
\* served if nobody else uses its key.
RefusedOnlyAfterUse ==
  answer # Never /\ ~answer.allowed =>
    (answer.now - account[answer.bucket].last) * PerMinute < Minute
=============================================================================

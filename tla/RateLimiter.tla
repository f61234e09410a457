---------------------------- MODULE RateLimiter ----------------------------
(***************************************************************************)
(* http.RateLimiter of last30days: the token bucket the threads of the         *)
(* keyless Reddit tiers share.  One clock tick refills one token.            *)
(***************************************************************************)
EXTENDS Integers, Sequences

CONSTANTS
    Thread,     \* the threads that ask, once each
    Capacity,   \* the burst
    MaxTime     \* bound of the clock
CapacityAssumption == Capacity \in Nat \ {0} /\ MaxTime \in Nat

VARIABLES
    now,        \* time.monotonic()
    bucket,     \* [tokens, last]: what the lock protects
    wakes,      \* for each thread that sleeps, when its sleep may end
    grants      \* history: the times at which calls were let through
vars == <<now, bucket, wakes, grants>>

Awake == MaxTime + 1        \* not asleep, and not served yet
Served == MaxTime + 2

Init ==
    /\ now = 0
    /\ bucket = [tokens |-> Capacity, last |-> 0]
    /\ wakes = [t \in Thread |-> Awake]
    /\ grants = <<>>

Least(a, b) == IF a < b THEN a ELSE b
(* Faulty variant: an idle bucket goes on filling.                            *)
RefilledForever == bucket.tokens + (now - bucket.last)

Refilled == Least(Capacity, bucket.tokens + (now - bucket.last))

Ready(t) == wakes[t] = Awake \/ wakes[t] <= now

(* The lock is held for one look at the bucket and released for the sleep.     *)
Acquire(t) ==
    /\ Ready(t)
    /\ IF Refilled >= 1
       THEN /\ bucket' = [tokens |-> Refilled - 1, last |-> now]
            /\ wakes' = [wakes EXCEPT ![t] = Served]
            /\ grants' = Append(grants, now)
       ELSE /\ now < MaxTime
            /\ bucket' = [tokens |-> Refilled, last |-> now]
            /\ wakes' = [wakes EXCEPT ![t] = now + 1]
            /\ UNCHANGED grants
    /\ UNCHANGED now

Tick == now < MaxTime /\ now' = now + 1 /\ UNCHANGED <<bucket, wakes, grants>>

Next == (\E t \in Thread : Acquire(t)) \/ Tick
Spec == Init /\ [][Next]_vars

TypeOK == /\ now \in Nat
          /\ bucket \in [tokens : Nat, last : Nat]
          /\ wakes \in [Thread -> Nat]
          /\ grants \in Seq(Nat)

(* "A token bucket bounds the sustained rate while still allowing a short       *)
(* burst": in no stretch of time do more calls get through than the burst and    *)
(* the refill of that stretch, in whatever order threads look, sleep and wake.  *)
NoStampede ==
    \A i, j \in 1..Len(grants) :
        i <= j => j - i + 1 <= Capacity + (grants[j] - grants[i])
=============================================================================

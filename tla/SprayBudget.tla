---------------------------- MODULE SprayBudget ----------------------------
(***************************************************************************)
(* The decisions of SprayGuard (server/app/targeting/spray_guard.py) as    *)
(* operators on its history.  A burst is [age, ms]: the time since it was  *)
(* recorded and its duration.  Ages stand for the timestamps, because only *)
(* now - timestamp is ever read.                                           *)
(***************************************************************************)
LOCAL INSTANCE Integers
LOCAL INSTANCE Sequences

CONSTANTS
    Floor,  \* the shortest burst, 20 ms
    MaxLen  \* maxlen of the deque, 512

\* SpraySettings: what the guard reads of it.
IsConfig(c) ==
    /\ c.enabled \in BOOLEAN
    /\ {c.default, c.max, c.window} \subseteq Nat \ {0}
    /\ {c.interval, c.budget} \subseteq Nat

\* popleft for as long as the oldest is too old.
Since(h, limit) ==
    LET first == CHOOSE k \in 1..Len(h) + 1 :
                   /\ \A i \in 1..k - 1 : h[i].age > limit
                   /\ k <= Len(h) => h[k].age <= limit
    IN  SubSeq(h, first, Len(h))

\* _prune: the entries the window has left behind, oldest first.
Prune(h, c) == Since(h, c.window)

\* What the amounts of a sequence sum up to.
Subtotals(amounts, len) ==
    LET upTo[n \in 0..len] == IF n = 0 THEN 0 ELSE upTo[n - 1] + amounts[n]
    IN  upTo
Total(amounts) == Subtotals(amounts, Len(amounts))[Len(amounts)]

UsedMs(h) == Total([i \in 1..Len(h) |-> h[i].ms])

\* check on a pruned history, refusals in the order of the code.
SlipTooSoonOldest(h, c) == h # <<>> /\ h[1].age < c.interval

TooSoon(h, c) == h # <<>> /\ h[Len(h)].age < c.interval

Exhausted(h, c) == c.budget > 0 /\ UsedMs(h) >= c.budget

Allowed(h, c) == c.enabled /\ ~TooSoon(h, c) /\ ~Exhausted(h, c)

Clamp(c, ms) == LET most == IF ms < c.max THEN ms ELSE c.max
                IN  IF most < Floor THEN Floor ELSE most

SlipGrantUncut(h, c, ms) == Clamp(c, ms)

\* The duration an allowed burst gets: clamped, and cut to what is left.
Grant(h, c, ms) ==
    LET left == c.budget - UsedMs(h)
    IN  IF c.budget > 0 /\ Clamp(c, ms) > left THEN left ELSE Clamp(c, ms)

\* record: the deque drops its oldest entry when it is full.
Recorded(h, c, ms) ==
    LET kept == IF Len(h) = MaxLen THEN Tail(h) ELSE h
    IN  Prune(Append(kept, [age |-> 0, ms |-> ms]), c)

\* d ticks pass; beyond the window an age has nothing left to tell.
Aged(h, c, d) ==
    [i \in DOMAIN h |->
        [h[i] EXCEPT !.age = IF @ + d > c.window THEN c.window + 1 ELSE @ + d]]
=============================================================================

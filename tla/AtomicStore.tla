---------------------------- MODULE AtomicStore ----------------------------
(***************************************************************************)
(* What a store of settings promises to those who update it: a request     *)
(* takes effect once and as a whole, on the value it finds, or not at all; *)
(* a crash drops requests and never what was stored.                       *)
(***************************************************************************)
CONSTANT Requests

VARIABLES
    value,   \* from sections to values
    asked,   \* each request's patch: some sections and their new values
    open     \* the requests that may still take effect

vars == <<value, asked, open>>

Init == open = Requests

Patched(r) ==
    value' = [s \in DOMAIN value |-> IF s \in DOMAIN asked[r] THEN asked[r][s] ELSE value[s]]

Apply(r) == r \in open /\ Patched(r) /\ open' = open \ {r}
Refuse(r) == r \in open /\ open' = open \ {r} /\ UNCHANGED value
Crash == /\ open' \subseteq open
         /\ UNCHANGED value \/ \E r \in open \ open' : Patched(r)

Next == /\ UNCHANGED asked
        /\ (\E r \in Requests : Apply(r) \/ Refuse(r)) \/ Crash

Spec == Init /\ [][Next]_vars
=============================================================================

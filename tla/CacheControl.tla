---------------------------- MODULE CacheControl ----------------------------
(***************************************************************************)
(* CacheControl of src/registry/cache_control.rs: the hints of types and    *)
(* fields, their merge, and the header an HTTP response gets from them.     *)
(***************************************************************************)
EXTENDS Integers

\* max_age = -1 is no-cache and 0 is "not given".
CacheControls == [public : BOOLEAN, max_age : {-1} \cup Nat]

\* impl Default for CacheControl
DefaultCacheControl == [public |-> TRUE, max_age |-> 0]

\* Mutant: the longer life wins.
LongerAge(a, b) == IF -1 \in {a, b} THEN -1 ELSE IF a >= b THEN a ELSE b

\* The max_age of CacheControl::merge.
MergeAge(a, b) ==
    CASE -1 \in {a, b} -> -1
      [] b = 0 /\ a # -1 -> a
      [] a = 0 /\ b \notin {-1, 0} -> b
      [] OTHER -> IF a <= b THEN a ELSE b

\* CacheControl::merge
Merge(a, b) ==
    [public |-> a.public /\ b.public, max_age |-> MergeAge(a.max_age, b.max_age)]

\* CacheControl::value is None: there is nothing to say.
NoHeader(c) == c.public /\ c.max_age = 0

\* A response with the hint c may be kept as the header h says: h is private if
\* c is, no-cache if c is, and lets nobody keep it longer than c does.
Allows(c, h) ==
    /\ h.public => c.public
    /\ c.max_age = -1 => h.max_age = -1
    /\ c.max_age > 0  => h.max_age = -1 \/ h.max_age \in 1..c.max_age
=============================================================================

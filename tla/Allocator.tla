----------------------------- MODULE Allocator -------------------------------
(***************************************************************************)
(* What malloc, free and realloc promise: an allocation is aligned and its *)
(* bytes belong to no other one, and it keeps its contents until it is     *)
(* freed, also when realloc moves it.  Any call may fail and change        *)
(* nothing.                                                                *)
(***************************************************************************)
EXTENDS Integers

CONSTANTS ALIGN, MaxBrk, Sizes, Counts, Words

VARIABLE live   \* the allocations: the size asked for and the contents

Requests == Sizes \union {n * s : n \in Counts, s \in Sizes}

\* The bytes of an allocation of n bytes at p; one of size 0 still has an address.
Bytes(p, n) == p .. (p + (IF n = 0 THEN 1 ELSE n) - 1)
Disjoint(p, n, others) == \A q \in others : Bytes(p, n) \intersect Bytes(q, live[q].size) = {}

Grant(p, n) == p % ALIGN = 0 /\ p + n <= MaxBrk

Init == live = [p \in {} |-> 0]

\* live' is named in the bounds: the request, the address and the contents are free.
Obtain ==
  \E p \in DOMAIN live' \ DOMAIN live :
    LET a == live'[p]
    IN  /\ a.size \in Requests /\ a.word \in Words
        /\ Grant(p, a.size) /\ Disjoint(p, a.size, DOMAIN live)
        /\ live' = [q \in DOMAIN live \union {p} |-> IF q = p THEN a ELSE live[q]]

Free == \E p \in DOMAIN live : live' = [q \in DOMAIN live \ {p} |-> live[q]]

\* Moves p to q, which may be p, and keeps what it holds.
Resize ==
  \E p \in DOMAIN live, q \in DOMAIN live' :
    LET others == DOMAIN live \ {p}
        a == [size |-> live'[q].size, word |-> live[p].word]
    IN  /\ q \notin others /\ a.size \in Sizes
        /\ Grant(q, a.size) /\ Disjoint(q, a.size, others)
        /\ live' = [r \in others \union {q} |-> IF r = q THEN a ELSE live[r]]

Next == Obtain \/ Free \/ Resize

Spec == Init /\ [][Next]_live

=============================================================================

---------------------------- MODULE NmallocProofs ----------------------------
(* Proofs about Nmalloc, for any sizes, breaks and number of allocations. *)
EXTENDS Nmalloc, Lemmas, FiniteSetTheorems

-----------------------------------------------------------------------------
(* Heaps, and what each step does to one, field by field. *)

Block == [prev : Int, next : Int, sz : Int, nextfree : Int, prevfree : Int]
Blocks == UNION {[S -> Block] : S \in SUBSET Int}
Lists == 0..(NFLISTS - 1)
Marks == {"", "fouled", "overlap"}
Heaps == [blk : Blocks, freehdrs : [Lists -> Int], brk : Int, bad : Marks]

\* The addresses of the headers.
At(h) == DOMAIN h.blk

\* The lists, the break and the mark of a fouled heap stay.
SameRest(j, h) == j.freehdrs = h.freehdrs /\ j.brk = h.brk /\ j.bad = h.bad

\* The chain of the areas stays.
SameChain(j, h) ==
  /\ At(j) = At(h) /\ j.brk = h.brk
  /\ \A a \in At(h) : /\ j.blk[a].prev = h.blk[a].prev /\ j.blk[a].next = h.blk[a].next
                      /\ j.blk[a].sz = h.blk[a].sz

LEMMA HeapFacts ==
  ASSUME NEW h \in Heaps
  PROVE  /\ h.blk \in [At(h) -> Block] /\ At(h) \subseteq Int
         /\ h.freehdrs \in [Lists -> Int] /\ h.brk \in Int /\ h.bad \in Marks
BY DEF Heaps, Blocks, At

LEMMA BlockFields ==
  ASSUME NEW h \in Heaps, NEW a \in At(h)
  PROVE  /\ a \in Int /\ h.blk[a] \in Block /\ h.blk[a].prev \in Int /\ h.blk[a].next \in Int
         /\ h.blk[a].sz \in Int /\ h.blk[a].nextfree \in Int /\ h.blk[a].prevfree \in Int
BY HeapFacts DEF Block

\* A heap with other blocks.
LEMMA NewBlocks ==
  ASSUME NEW h \in Heaps, NEW S \in SUBSET Int, NEW X \in [S -> Block]
  PROVE  /\ [h EXCEPT !.blk = X] \in Heaps /\ [h EXCEPT !.blk = X].blk = X
         /\ At([h EXCEPT !.blk = X]) = S /\ SameRest([h EXCEPT !.blk = X], h)
BY DEF Heaps, Blocks, SameRest, At

\* A heap with another head of a list.
LEMMA NewHead ==
  ASSUME NEW h \in Heaps, NEW b \in Lists, NEW v \in Int
  PROVE  /\ [h EXCEPT !.freehdrs[b] = v] \in Heaps
         /\ [h EXCEPT !.freehdrs[b] = v].blk = h.blk /\ At([h EXCEPT !.freehdrs[b] = v]) = At(h)
         /\ [h EXCEPT !.freehdrs[b] = v].brk = h.brk /\ [h EXCEPT !.freehdrs[b] = v].bad = h.bad
         /\ [h EXCEPT !.freehdrs[b] = v].freehdrs[b] = v
         /\ \A c \in Lists : c # b => [h EXCEPT !.freehdrs[b] = v].freehdrs[c] = h.freehdrs[c]
BY DEF Heaps, At

\* A header with these fields.
Header(e, prev, next, sz, nextfree, prevfree) ==
  e \in Block /\ e.prev = prev /\ e.next = next /\ e.sz = sz /\ e.nextfree = nextfree /\ e.prevfree = prevfree

\* Single fields of a header.
LEMMA SetPrev ==
  ASSUME NEW r \in Block, NEW v \in Int
  PROVE  Header([r EXCEPT !.prev = v], v, r.next, r.sz, r.nextfree, r.prevfree)
BY DEF Block, Header
LEMMA SetSize ==
  ASSUME NEW r \in Block, NEW v \in Int
  PROVE  Header([r EXCEPT !.sz = v], r.prev, r.next, v, r.nextfree, r.prevfree)
BY DEF Block, Header
LEMMA SetNextSize ==
  ASSUME NEW r \in Block, NEW n \in Int, NEW v \in Int
  PROVE  Header([r EXCEPT !.next = n, !.sz = v], r.prev, n, v, r.nextfree, r.prevfree)
BY DEF Block, Header
LEMMA SetNextfree ==
  ASSUME NEW r \in Block, NEW v \in Int
  PROVE  Header([r EXCEPT !.nextfree = v], r.prev, r.next, r.sz, v, r.prevfree)
BY DEF Block, Header
LEMMA SetPrevfree ==
  ASSUME NEW r \in Block, NEW v \in Int
  PROVE  Header([r EXCEPT !.prevfree = v], r.prev, r.next, r.sz, r.nextfree, v)
BY DEF Block, Header
LEMMA SetLinks ==
  ASSUME NEW r \in Block, NEW n \in Int, NEW v \in Int
  PROVE  Header([r EXCEPT !.nextfree = n, !.prevfree = v], r.prev, r.next, r.sz, n, v)
BY DEF Block, Header
LEMMA SetUpper ==
  ASSUME NEW r \in Block, NEW p \in Int, NEW v \in Int, NEW w \in Int
  PROVE  Header([r EXCEPT !.prev = p, !.sz = v, !.prevfree = w], p, r.next, v, r.nextfree, w)
BY DEF Block, Header
LEMMA SetLower ==
  ASSUME NEW r \in Block, NEW n \in Int, NEW v \in Int, NEW w \in Int
  PROVE  Header([r EXCEPT !.next = n, !.sz = v, !.nextfree = w], r.prev, n, v, w, r.prevfree)
BY DEF Block, Header

\* One header is replaced.
LEMMA SetBlock ==
  ASSUME NEW S, NEW X \in [S -> Block], NEW a \in S, NEW e \in Block, NEW Y, Y = [X EXCEPT ![a] = e]
  PROVE  Y \in [S -> Block] /\ Y[a] = e /\ \A b \in S : b # a => Y[b] = X[b]
OBVIOUS

\* m and hi, the block above it, become one; after is the block above them.
Joined(j, h, m, hi, after) ==
  /\ j \in Heaps /\ SameRest(j, h) /\ At(j) = At(h) \ {hi}
  /\ \A a \in At(j) :
       /\ j.blk[a].prev = (IF a = after THEN m ELSE h.blk[a].prev)
       /\ j.blk[a].next = (IF a = m THEN after ELSE h.blk[a].next)
       /\ j.blk[a].sz = (IF a = m THEN h.blk[m].sz + h.blk[hi].sz ELSE h.blk[a].sz)
       /\ j.blk[a].nextfree = h.blk[a].nextfree /\ j.blk[a].prevfree = h.blk[a].prevfree

LEMMA JoinFacts ==
  ASSUME NEW h \in Heaps, NEW m \in At(h), NEW hi \in At(h), NEW after \in (At(h) \ {hi}) \union {NULL},
         hi = h.blk[m].next, after = h.blk[hi].next, hi # m, NULL \notin At(h)
  PROVE  Joined(Join(h, m), h, m, hi, after)
<1> DEFINE S == At(h) \ {hi}
<1>0. h.blk \in [At(h) -> Block] /\ At(h) \subseteq Int /\ after \in Int /\ m \in Int
  BY HeapFacts, BlockFields DEF NULL
<1>1. PICK r : r = h.blk[m] /\ r \in Block /\ r.sz \in Int /\ h.blk[hi].sz \in Int
  BY BlockFields
<1>2. PICK v \in Int : v = r.sz + h.blk[hi].sz
  BY <1>1
<1>3. PICK e : e = [r EXCEPT !.next = after, !.sz = v]
  OBVIOUS
<1>4. Header(e, r.prev, after, v, r.nextfree, r.prevfree)
  BY <1>0, <1>1, <1>3, SetNextSize
<1>5. PICK X : X = [Forget(h.blk, hi) EXCEPT ![m] = e]
  OBVIOUS
<1>6. X \in [S -> Block] /\ X[m] = e /\ \A a \in S : a # m => X[a] = h.blk[a]
  BY <1>0, <1>4, <1>5 DEF Forget, At, Header
<1>7. Join(h, m) = [h EXCEPT !.blk = IF after # NULL THEN [X EXCEPT ![after].prev = m] ELSE X]
  BY <1>1, <1>2, <1>3, <1>5 DEF Join
<1>8. PICK Y : Y = IF after # NULL THEN [X EXCEPT ![after].prev = m] ELSE X
  OBVIOUS
<1>9. /\ Y \in [S -> Block] /\ \A a \in S : a # after => Y[a] = X[a]
      /\ after \in S => Header(Y[after], m, X[after].next, X[after].sz, X[after].nextfree, X[after].prevfree)
  <2>1. CASE after = NULL
    BY <2>1, <1>8, <1>6
  <2>2. CASE after # NULL
    <3>1. after \in S /\ X[after] \in Block
      BY <2>2, <1>6
    <3>2. PICK f : f = [X[after] EXCEPT !.prev = m]
      OBVIOUS
    <3>3. Header(f, m, X[after].next, X[after].sz, X[after].nextfree, X[after].prevfree)
      BY <3>1, <3>2, <1>0, SetPrev
    <3>4. Y = [X EXCEPT ![after] = f]
      BY <1>8, <2>2, <3>2
    <3>5. Y \in [S -> Block] /\ Y[after] = f /\ \A b \in S : b # after => Y[b] = X[b]
      BY <3>1, <3>3, <3>4, <1>6, SetBlock DEF Header
    <3> QED BY <3>3, <3>5
  <2> QED BY <2>1, <2>2
<1>10. Join(h, m) = [h EXCEPT !.blk = Y]
  BY <1>7, <1>8
<1>11. /\ Join(h, m) \in Heaps /\ SameRest(Join(h, m), h) /\ Join(h, m).blk = Y /\ At(Join(h, m)) = S
  <2>1. S \in SUBSET Int
    BY <1>0
  <2> HIDE DEF S
  <2> QED BY <1>9, <1>10, <2>1, NewBlocks
<1>12. ASSUME NEW a \in S
       PROVE  /\ Y[a].prev = (IF a = after THEN m ELSE h.blk[a].prev)
              /\ Y[a].next = (IF a = m THEN after ELSE h.blk[a].next)
              /\ Y[a].sz = (IF a = m THEN h.blk[m].sz + h.blk[hi].sz ELSE h.blk[a].sz)
              /\ Y[a].nextfree = h.blk[a].nextfree /\ Y[a].prevfree = h.blk[a].prevfree
  <2>1. /\ X[a].prev = h.blk[a].prev
        /\ X[a].next = (IF a = m THEN after ELSE h.blk[a].next)
        /\ X[a].sz = (IF a = m THEN h.blk[m].sz + h.blk[hi].sz ELSE h.blk[a].sz)
        /\ X[a].nextfree = h.blk[a].nextfree /\ X[a].prevfree = h.blk[a].prevfree
    BY <1>1, <1>2, <1>4, <1>6 DEF Header
  <2> QED BY <2>1, <1>9 DEF Header
<1> QED BY <1>11, <1>12 DEF Joined

\* A heap with other blocks and another head of a list.
Relinked(h, X, b, v) == [h EXCEPT !.blk = X, !.freehdrs[b] = v]

IsRelinked(j, h, S, X, b, v) ==
  /\ j \in Heaps /\ j.blk = X /\ At(j) = S /\ j.brk = h.brk /\ j.bad = h.bad
  /\ j.freehdrs[b] = v /\ \A c \in Lists : c # b => j.freehdrs[c] = h.freehdrs[c]

LEMMA NewBlocksHead ==
  ASSUME NEW h \in Heaps, NEW S \in SUBSET Int, NEW X \in [S -> Block], NEW b \in Lists, NEW v \in Int,
         NEW j, j = Relinked(h, X, b, v)
  PROVE  IsRelinked(j, h, S, X, b, v)
<1>1. /\ j \in Heaps /\ j.blk = X /\ At(j) = S /\ j.brk = h.brk /\ j.bad = h.bad
      /\ j.freehdrs[b] = v /\ \A c \in Lists : c # b => j.freehdrs[c] = h.freehdrs[c]
  BY DEF Heaps, Blocks, At, Relinked
<1> QED BY <1>1, Zenon DEF IsRelinked

LEMMA Codes == NULL \in Int /\ NONE \in Int /\ JUNK \in Int /\ NULL = 0 /\ NONE = -1 /\ JUNK = -2
BY DEF NULL, NONE, JUNK

\* m is off its list, between p and n.
Extracted(j, h, m, b, n, p) ==
  /\ j \in Heaps /\ SameChain(j, h) /\ j.bad = h.bad
  /\ \A a \in At(h) :
       /\ j.blk[a].nextfree = (IF a = m THEN NULL ELSE IF a = p /\ a # n THEN n ELSE h.blk[a].nextfree)
       /\ j.blk[a].prevfree = (IF a = m THEN NULL ELSE IF a = n THEN p ELSE h.blk[a].prevfree)
  /\ j.freehdrs[b] = (IF p # NONE THEN h.freehdrs[b] ELSE IF n # NONE THEN n ELSE NULL)
  /\ \A c \in Lists : c # b => j.freehdrs[c] = h.freehdrs[c]

Between(h, m, b, n, p) == b = size2bucket(h.blk[m].sz) /\ n = h.blk[m].nextfree /\ p = h.blk[m].prevfree

LEMMA ExtractFacts ==
  ASSUME NEW h \in Heaps, NEW m \in At(h), NEW b \in Lists, NEW n \in Int, NEW p \in Int, Between(h, m, b, n, p)
  PROVE  Extracted(extractfree(h, m), h, m, b, n, p)
<1>0. h.blk \in [At(h) -> Block] /\ At(h) \subseteq Int /\ n \in Int /\ p \in Int /\ h.freehdrs \in [Lists -> Int]
  BY HeapFacts, BlockFields
<1>1. NULL \in Int /\ NONE \in Int
  BY Codes
<1> DEFINE E(a) == IF a = m THEN [h.blk[a] EXCEPT !.nextfree = NULL, !.prevfree = NULL]
                   ELSE IF a = n THEN [h.blk[a] EXCEPT !.prevfree = p]
                   ELSE IF a = p THEN [h.blk[a] EXCEPT !.nextfree = n]
                   ELSE h.blk[a]
<1>2. PICK X : X = [a \in At(h) |-> E(a)]
  OBVIOUS
<1>3. ASSUME NEW a \in At(h)
      PROVE  Header(E(a), h.blk[a].prev, h.blk[a].next, h.blk[a].sz,
                    IF a = m THEN NULL ELSE IF a = p /\ a # n THEN n ELSE h.blk[a].nextfree,
                    IF a = m THEN NULL ELSE IF a = n THEN p ELSE h.blk[a].prevfree)
  <2>1. PICK r : r = h.blk[a] /\ r \in Block
    BY <1>0
  <2>2. CASE a = m
    <3>1. E(a) = [r EXCEPT !.nextfree = NULL, !.prevfree = NULL]
      BY <2>1, <2>2
    <3> QED BY <3>1, <2>1, <2>2, <1>1, SetLinks
  <2>3. CASE a # m /\ a = n
    <3>1. E(a) = [r EXCEPT !.prevfree = p]
      BY <2>1, <2>3
    <3> QED BY <3>1, <2>1, <2>3, <1>0, SetPrevfree
  <2>4. CASE a # m /\ a # n /\ a = p
    <3>1. E(a) = [r EXCEPT !.nextfree = n]
      BY <2>1, <2>4
    <3> QED BY <3>1, <2>1, <2>4, <1>0, SetNextfree
  <2>5. CASE a # m /\ a # n /\ a # p
    BY <2>1, <2>5 DEF Header
  <2> QED BY <2>2, <2>3, <2>4, <2>5
<1>4. PICK v \in Int : v = IF p # NONE THEN h.freehdrs[b] ELSE IF n # NONE THEN n ELSE NULL
  BY <1>0, <1>1
<1>5. extractfree(h, m) = Relinked(h, X, b, v)
  BY <1>2, <1>4, Zenon DEF extractfree, At, Relinked, Between
<1> HIDE DEF E
<1>6. X \in [At(h) -> Block] /\ \A a \in At(h) : X[a] = E(a)
  BY <1>2, <1>3 DEF Header
<1>7. PICK j : j = extractfree(h, m) /\ j = Relinked(h, X, b, v)
  BY <1>5
<1>8. At(h) \in SUBSET Int
  BY <1>0
<1>10. X \in [At(h) -> Block]
  BY <1>6
<1>9. IsRelinked(j, h, At(h), X, b, v)
  BY <1>10, <1>7, <1>8, NewBlocksHead
<1>11. ASSUME NEW a \in At(h)
       PROVE  Header(j.blk[a], h.blk[a].prev, h.blk[a].next, h.blk[a].sz,
                    IF a = m THEN NULL ELSE IF a = p /\ a # n THEN n ELSE h.blk[a].nextfree,
                    IF a = m THEN NULL ELSE IF a = n THEN p ELSE h.blk[a].prevfree)
  <2>1. j.blk[a] = E(a)
    BY <1>6, <1>9 DEF IsRelinked
  <2> QED BY <2>1, <1>3
<1>12. \A a \in At(h) :
         /\ j.blk[a].nextfree = (IF a = m THEN NULL ELSE IF a = p /\ a # n THEN n ELSE h.blk[a].nextfree)
         /\ j.blk[a].prevfree = (IF a = m THEN NULL ELSE IF a = n THEN p ELSE h.blk[a].prevfree)
  BY <1>11, Zenon DEF Header
<1>13. SameChain(j, h)
  BY <1>9, <1>11, Zenon DEF SameChain, Header, IsRelinked
<1>14. Extracted(j, h, m, b, n, p)
  BY <1>4, <1>9, <1>12, <1>13, Zenon DEF Extracted, IsRelinked
<1> QED BY <1>7, <1>14

\* m, the first block of its list, is off it; n was the second one.
Taken(j, h, m, b, n) ==
  /\ j \in Heaps /\ SameChain(j, h) /\ j.bad = h.bad
  /\ \A a \in At(h) :
       /\ j.blk[a].nextfree = (IF a = m THEN NULL ELSE h.blk[a].nextfree)
       /\ j.blk[a].prevfree = (IF a # m /\ a = n THEN NONE ELSE h.blk[a].prevfree)
  /\ j.freehdrs[b] = (IF n = NONE THEN NULL ELSE n)
  /\ \A c \in Lists : c # b => j.freehdrs[c] = h.freehdrs[c]

First(h, m, b, n) == b = size2bucket(h.blk[m].sz) /\ n = h.blk[m].nextfree /\ m = h.freehdrs[b]

LEMMA TakeFacts ==
  ASSUME NEW h \in Heaps, NEW m \in At(h), NEW b \in Lists, NEW n \in Int, First(h, m, b, n)
  PROVE  Taken(rmvfromfree(h, m), h, m, b, n)
<1>0. h.blk \in [At(h) -> Block] /\ At(h) \subseteq Int /\ n \in Int
  BY HeapFacts, BlockFields
<1>1. NULL \in Int /\ NONE \in Int
  BY Codes
<1> DEFINE E(a) == IF a = m THEN [h.blk[a] EXCEPT !.nextfree = NULL]
                   ELSE IF a = n THEN [h.blk[a] EXCEPT !.prevfree = NONE]
                   ELSE h.blk[a]
<1>2. PICK X : X = [a \in At(h) |-> E(a)]
  OBVIOUS
<1>3. ASSUME NEW a \in At(h)
      PROVE  Header(E(a), h.blk[a].prev, h.blk[a].next, h.blk[a].sz,
                    IF a = m THEN NULL ELSE h.blk[a].nextfree,
                    IF a # m /\ a = n THEN NONE ELSE h.blk[a].prevfree)
  <2>1. PICK r : r = h.blk[a] /\ r \in Block
    BY <1>0
  <2>2. CASE a = m
    <3>1. E(a) = [r EXCEPT !.nextfree = NULL]
      BY <2>1, <2>2
    <3> QED BY <3>1, <2>1, <2>2, <1>1, SetNextfree
  <2>3. CASE a # m /\ a = n
    <3>1. E(a) = [r EXCEPT !.prevfree = NONE]
      BY <2>1, <2>3
    <3> QED BY <3>1, <2>1, <2>3, <1>1, SetPrevfree
  <2>4. CASE a # m /\ a # n
    BY <2>1, <2>4 DEF Header
  <2> QED BY <2>2, <2>3, <2>4
<1>4. PICK v \in Int : v = IF n = NONE THEN NULL ELSE n
  BY <1>0, <1>1
<1>5. rmvfromfree(h, m) = [h EXCEPT !.freehdrs[b] = v, !.blk = X]
  BY <1>2, <1>4, Zenon DEF rmvfromfree, At, First
<1>6. rmvfromfree(h, m) = Relinked(h, X, b, v)
  BY <1>5 DEF Heaps, Relinked
<1> HIDE DEF E
<1>7. X \in [At(h) -> Block] /\ \A a \in At(h) : X[a] = E(a)
  BY <1>2, <1>3 DEF Header
<1>8. PICK j : j = rmvfromfree(h, m) /\ j = Relinked(h, X, b, v)
  BY <1>6
<1>9. At(h) \in SUBSET Int
  BY <1>0
<1>15. X \in [At(h) -> Block]
  BY <1>7
<1>10. IsRelinked(j, h, At(h), X, b, v)
  BY <1>15, <1>8, <1>9, NewBlocksHead
<1>11. ASSUME NEW a \in At(h)
       PROVE  Header(j.blk[a], h.blk[a].prev, h.blk[a].next, h.blk[a].sz,
                    IF a = m THEN NULL ELSE h.blk[a].nextfree,
                    IF a # m /\ a = n THEN NONE ELSE h.blk[a].prevfree)
  <2>1. j.blk[a] = E(a)
    BY <1>7, <1>10 DEF IsRelinked
  <2> QED BY <2>1, <1>3
<1>12. \A a \in At(h) : /\ j.blk[a].nextfree = (IF a = m THEN NULL ELSE h.blk[a].nextfree)
                        /\ j.blk[a].prevfree = (IF a # m /\ a = n THEN NONE ELSE h.blk[a].prevfree)
  BY <1>11, Zenon DEF Header
<1>13. SameChain(j, h)
  BY <1>10, <1>11, Zenon DEF SameChain, Header, IsRelinked
<1>14. Taken(j, h, m, b, n)
  BY <1>4, <1>10, <1>12, <1>13, Zenon DEF Taken, IsRelinked
<1> QED BY <1>8, <1>14

\* m is the first of its list, before head.
Listed(j, h, m, b, head) ==
  /\ j \in Heaps /\ SameChain(j, h) /\ j.bad = h.bad
  /\ \A a \in At(h) :
       /\ j.blk[a].nextfree = (IF a # m THEN h.blk[a].nextfree ELSE IF head # NULL THEN head ELSE NONE)
       /\ j.blk[a].prevfree = (IF a = m THEN NONE ELSE IF a = head THEN m ELSE h.blk[a].prevfree)
  /\ j.freehdrs[b] = m
  /\ \A c \in Lists : c # b => j.freehdrs[c] = h.freehdrs[c]

Before(h, m, b, head) == b = size2bucket(h.blk[m].sz) /\ head = h.freehdrs[b]

LEMMA ListFacts ==
  ASSUME NEW h \in Heaps, NEW m \in At(h), NEW b \in Lists, NEW head \in At(h) \union {NULL},
         NULL \notin At(h), head # m, Before(h, m, b, head)
  PROVE  Listed(PutOnList(h, m), h, m, b, head)
<1>0. h.blk \in [At(h) -> Block] /\ At(h) \subseteq Int /\ m \in Int
  BY HeapFacts, BlockFields
<1>1. NULL \in Int /\ NONE \in Int /\ head \in Int
  BY <1>0, Codes
<1>2. PICK v \in Int : v = IF head # NULL THEN head ELSE NONE
  BY <1>1
<1>3. PICK r : r = h.blk[m] /\ r \in Block
  BY <1>0
<1>4. PICK e1 : e1 = [r EXCEPT !.nextfree = v]
  OBVIOUS
<1>5. Header(e1, r.prev, r.next, r.sz, v, r.prevfree)
  BY <1>3, <1>4, SetNextfree
<1>6. PICK e2 : e2 = [e1 EXCEPT !.prevfree = NONE]
  OBVIOUS
<1>7. Header(e2, r.prev, r.next, r.sz, v, NONE)
  <2>1. e1 \in Block
    BY <1>5 DEF Header
  <2>2. Header(e2, e1.prev, e1.next, e1.sz, e1.nextfree, NONE)
    BY <2>1, <1>1, <1>6, SetPrevfree
  <2> QED BY <2>2, <1>5 DEF Header
<1>8. PICK L : L = [h.blk EXCEPT ![m] = e2]
  OBVIOUS
<1>9. L \in [At(h) -> Block] /\ L[m] = e2 /\ \A a \in At(h) : a # m => L[a] = h.blk[a]
  <2>1. e2 \in Block
    BY <1>7 DEF Header
  <2> QED BY <2>1, <1>0, <1>8, SetBlock
<1>10. L = [h.blk EXCEPT ![m].nextfree = v, ![m].prevfree = NONE]
  <2>1. [h.blk EXCEPT ![m].nextfree = v, ![m].prevfree = NONE]
          = [[h.blk EXCEPT ![m] = e1] EXCEPT ![m].prevfree = NONE]
    BY <1>3, <1>4
  <2>2. PICK K : K = [h.blk EXCEPT ![m] = e1]
    OBVIOUS
  <2>3. K \in [At(h) -> Block] /\ K[m] = e1 /\ \A a \in At(h) : a # m => K[a] = h.blk[a]
    <3>1. e1 \in Block
      BY <1>5 DEF Header
    <3> QED BY <3>1, <1>0, <2>2, SetBlock
  <2>4. [K EXCEPT ![m].prevfree = NONE] = [K EXCEPT ![m] = e2]
    BY <2>3, <1>6
  <2>5. [K EXCEPT ![m] = e2] = L
    BY <2>2, <1>8, <1>0
  <2> QED BY <2>1, <2>2, <2>4, <2>5
<1>11. PICK X : X = IF head # NULL THEN [L EXCEPT ![head].prevfree = m] ELSE L
  OBVIOUS
<1>12. /\ X \in [At(h) -> Block] /\ \A a \in At(h) : a # head => X[a] = L[a]
       /\ head # NULL => Header(X[head], L[head].prev, L[head].next, L[head].sz, L[head].nextfree, m)
  <2>1. CASE head = NULL
    BY <2>1, <1>9, <1>11
  <2>2. CASE head # NULL
    <3>1. head \in At(h) /\ L[head] \in Block
      BY <2>2, <1>9
    <3>2. PICK f : f = [L[head] EXCEPT !.prevfree = m]
      OBVIOUS
    <3>3. Header(f, L[head].prev, L[head].next, L[head].sz, L[head].nextfree, m)
      BY <3>1, <3>2, <1>0, SetPrevfree
    <3>4. X = [L EXCEPT ![head] = f]
      BY <1>11, <2>2, <3>2
    <3>5. X \in [At(h) -> Block] /\ X[head] = f /\ \A a \in At(h) : a # head => X[a] = L[a]
      BY <3>1, <3>3, <3>4, <1>9, SetBlock DEF Header
    <3> QED BY <3>3, <3>5
  <2> QED BY <2>1, <2>2
<1>13. PutOnList(h, m) = [h EXCEPT !.freehdrs[b] = m, !.blk = X]
  BY <1>2, <1>10, <1>11, Zenon DEF PutOnList, Before
<1>14. PutOnList(h, m) = Relinked(h, X, b, m)
  BY <1>13 DEF Heaps, Relinked
<1>15. PICK j : j = PutOnList(h, m) /\ j = Relinked(h, X, b, m)
  BY <1>14
<1>16. At(h) \in SUBSET Int /\ X \in [At(h) -> Block]
  BY <1>0, <1>12
<1>17. IsRelinked(j, h, At(h), X, b, m)
  BY <1>0, <1>15, <1>16, NewBlocksHead
<1>18. ASSUME NEW a \in At(h)
       PROVE  Header(j.blk[a], h.blk[a].prev, h.blk[a].next, h.blk[a].sz,
                     IF a # m THEN h.blk[a].nextfree ELSE IF head # NULL THEN head ELSE NONE,
                     IF a = m THEN NONE ELSE IF a = head THEN m ELSE h.blk[a].prevfree)
  <2>1. j.blk[a] = X[a]
    BY <1>17 DEF IsRelinked
  <2>2. CASE a = m
    BY <2>1, <2>2, <1>2, <1>3, <1>7, <1>9, <1>12, Zenon DEF Header
  <2>3. CASE a # m /\ a = head
    BY <2>1, <2>3, <1>9, <1>12, Zenon DEF Header
  <2>4. CASE a # m /\ a # head
    <3>1. j.blk[a] = h.blk[a] /\ h.blk[a] \in Block
      BY <2>1, <2>4, <1>0, <1>9, <1>12
    <3> QED BY <2>4, <3>1, Zenon DEF Header
  <2> QED BY <2>2, <2>3, <2>4
<1>19. \A a \in At(h) :
         /\ j.blk[a].nextfree = (IF a # m THEN h.blk[a].nextfree ELSE IF head # NULL THEN head ELSE NONE)
         /\ j.blk[a].prevfree = (IF a = m THEN NONE ELSE IF a = head THEN m ELSE h.blk[a].prevfree)
  BY <1>18, Zenon DEF Header
<1>20. SameChain(j, h)
  BY <1>17, <1>18, Zenon DEF SameChain, Header, IsRelinked
<1>21. Listed(j, h, m, b, head)
  BY <1>17, <1>19, <1>20, Zenon DEF Listed, IsRelinked
<1> QED BY <1>15, <1>21

\* Several fields of one header are those of one new header.
Lowered(X, m, n, v, w) == [X EXCEPT ![m].next = n, ![m].sz = v, ![m].nextfree = w]
Replaced(X, m, e) == [X EXCEPT ![m] = e]
LowerHeader(r, n, v, w) == [r EXCEPT !.next = n, !.sz = v, !.nextfree = w]

LEMMA LowerBlock ==
  ASSUME NEW S, NEW X \in [S -> Block], NEW m \in S, NEW n \in Int, NEW v \in Int, NEW w \in Int
  PROVE  Lowered(X, m, n, v, w) = Replaced(X, m, LowerHeader(X[m], n, v, w))
BY DEF Block, Lowered, Replaced, LowerHeader

\* m keeps sz bytes and m1 has the rest; after is the block above them.
Cut(j, h, m, sz, m1, after) ==
  /\ j \in Heaps /\ SameRest(j, h) /\ At(j) = At(h) \union {m1}
  /\ Header(j.blk[m1], m, after, h.blk[m].sz - sz, h.blk[m].nextfree, JUNK)
  /\ \A a \in At(h) :
       /\ j.blk[a].prev = (IF a = after THEN m1 ELSE h.blk[a].prev)
       /\ j.blk[a].next = (IF a = m THEN m1 ELSE h.blk[a].next)
       /\ j.blk[a].sz = (IF a = m THEN sz ELSE h.blk[a].sz)
       /\ j.blk[a].nextfree = (IF a = m THEN NULL ELSE h.blk[a].nextfree)
       /\ j.blk[a].prevfree = h.blk[a].prevfree

CanCut(h, m, sz, m1, after) ==
  /\ m1 = m + sz /\ after = h.blk[m].next /\ h.blk[m].sz >= sz + DATAOFFSET /\ sz >= DATAOFFSET
  /\ after # NULL => h.blk[after].prev = m

LEMMA SplitFacts ==
  ASSUME NEW h \in Heaps, NEW m \in At(h), NEW sz \in Int, NEW m1 \in Int, NEW after \in At(h) \union {NULL},
         NULL \notin At(h), m1 \notin At(h), m1 # NULL, after # m, CanCut(h, m, sz, m1, after)
  PROVE  Cut(__nmalloc_split(h, m, sz), h, m, sz, m1, after)
<1>0. h.blk \in [At(h) -> Block] /\ At(h) \subseteq Int /\ m \in Int /\ DATAOFFSET \in Int
  BY HeapFacts, BlockFields, LayoutAssumption
<1>1. NULL \in Int /\ NONE \in Int /\ JUNK \in Int /\ after \in Int
  BY <1>0, Codes
<1>2. PICK r : r = h.blk[m] /\ r \in Block /\ r.sz \in Int
  BY <1>0, BlockFields
<1>3. PICK e : e = [r EXCEPT !.next = m1, !.sz = sz, !.nextfree = NULL]
  OBVIOUS
<1>4. Header(e, r.prev, m1, sz, NULL, r.prevfree)
  BY <1>1, <1>2, <1>3, SetLower
<1>5. PICK v \in Int : v = r.sz - sz
  BY <1>2
<1>6. PICK u : u = [r EXCEPT !.prev = m, !.sz = v, !.prevfree = JUNK]
  OBVIOUS
<1>7. Header(u, m, r.next, v, r.nextfree, JUNK)
  BY <1>0, <1>1, <1>2, <1>6, SetUpper
<1>8. PICK L : L = [h.blk EXCEPT ![m] = e]
  OBVIOUS
<1>9. L \in [At(h) -> Block] /\ L[m] = e /\ \A a \in At(h) : a # m => L[a] = h.blk[a]
  <2>1. e \in Block
    BY <1>4 DEF Header
  <2> QED BY <2>1, <1>0, <1>8, SetBlock
<1>10. L = [h.blk EXCEPT ![m].next = m1, ![m].sz = sz, ![m].nextfree = NULL]
  <2>1. Lowered(h.blk, m, m1, sz, NULL) = Replaced(h.blk, m, LowerHeader(h.blk[m], m1, sz, NULL))
    BY <1>0, <1>1, LowerBlock
  <2> QED BY <2>1, <1>2, <1>3, <1>8, Zenon DEF Lowered, Replaced, LowerHeader
<1>11. PICK K : K = Put(L, m1, u)
  OBVIOUS
<1>12. K \in [At(h) \union {m1} -> Block] /\ K[m1] = u /\ \A a \in At(h) : K[a] = L[a]
  <2>1. u \in Block
    BY <1>7 DEF Header
  <2> QED BY <2>1, <1>9, <1>11 DEF Put
<1>13. PICK X : X = IF after # NULL THEN [K EXCEPT ![after].prev = m1] ELSE K
  OBVIOUS
<1>14. /\ X \in [At(h) \union {m1} -> Block] /\ \A a \in At(h) \union {m1} : a # after => X[a] = K[a]
       /\ after # NULL => Header(X[after], m1, K[after].next, K[after].sz, K[after].nextfree, K[after].prevfree)
  <2>1. CASE after = NULL
    BY <2>1, <1>12, <1>13
  <2>2. CASE after # NULL
    <3>1. after \in At(h) \union {m1} /\ K[after] \in Block
      BY <2>2, <1>12
    <3>2. PICK f : f = [K[after] EXCEPT !.prev = m1]
      OBVIOUS
    <3>3. Header(f, m1, K[after].next, K[after].sz, K[after].nextfree, K[after].prevfree)
      BY <3>1, <3>2, SetPrev
    <3>4. X = [K EXCEPT ![after] = f]
      BY <1>13, <2>2, <3>2
    <3>5. X \in [At(h) \union {m1} -> Block] /\ X[after] = f /\ \A a \in At(h) \union {m1} : a # after => X[a] = K[a]
      BY <3>1, <3>3, <3>4, <1>12, SetBlock DEF Header
    <3> QED BY <3>3, <3>5
  <2> QED BY <2>1, <2>2
<1>15. __nmalloc_split(h, m, sz) = [h EXCEPT !.blk = X]
  <2>1. ~ (r.sz < sz + DATAOFFSET) /\ ~ (sz < DATAOFFSET)
    BY <1>0, <1>2 DEF CanCut
  <2>2. ~ (after # NULL /\ h.blk[after].prev # m)
    BY DEF CanCut
  <2>3. after = r.next /\ m1 = m + sz /\ after = h.blk[m].next
    BY <1>2 DEF CanCut
  <2>4. [h.blk[m] EXCEPT !.prev = m, !.sz = h.blk[m].sz - sz, !.prevfree = JUNK] = u
    BY <1>2, <1>5, <1>6, Zenon
  <2>5. Put([h.blk EXCEPT ![m].next = m + sz, ![m].sz = sz, ![m].nextfree = NULL], m + sz,
            [h.blk[m] EXCEPT !.prev = m, !.sz = h.blk[m].sz - sz, !.prevfree = JUNK]) = K
    BY <2>3, <2>4, <1>10, <1>11, Zenon
  <2> DEFINE next == h.blk[m].next
             C == Put([h.blk EXCEPT ![m].next = m + sz, ![m].sz = sz, ![m].nextfree = NULL], m + sz,
                      [h.blk[m] EXCEPT !.prev = m, !.sz = h.blk[m].sz - sz, !.prevfree = JUNK])
             D == [h EXCEPT !.blk = IF next # NULL THEN [C EXCEPT ![next].prev = m + sz] ELSE C]
  <2>6. __nmalloc_split(h, m, sz)
          = IF h.blk[m].sz < sz + DATAOFFSET \/ (next # NULL /\ h.blk[next].prev # m)
            THEN badcallabort(D, "fouled")
            ELSE IF sz < DATAOFFSET THEN badcallabort(D, "overlap") ELSE D
    BY DEF __nmalloc_split
  <2>7. D = [h EXCEPT !.blk = X]
    <3>1. next = after /\ C = K
      BY <2>3, <2>5
    <3> HIDE DEF C, next
    <3> QED BY <3>1, <2>3, <1>13, Zenon
  <2> HIDE DEF D
  <2>8. ~ (h.blk[m].sz < sz + DATAOFFSET \/ (next # NULL /\ h.blk[next].prev # m))
    BY <2>1, <2>2, <2>3, <1>2
  <2> HIDE DEF next
  <2> QED BY <2>1, <2>6, <2>7, <2>8, Zenon
<1>16. PICK j : j = __nmalloc_split(h, m, sz) /\ j = [h EXCEPT !.blk = X]
  BY <1>15
<1>17. At(h) \union {m1} \in SUBSET Int /\ X \in [At(h) \union {m1} -> Block]
  BY <1>0, <1>14
<1>18. j \in Heaps /\ j.blk = X /\ At(j) = At(h) \union {m1} /\ SameRest(j, h)
  <2>1. PICK S : S = At(h) \union {m1}
    OBVIOUS
  <2>2. S \in SUBSET Int /\ X \in [S -> Block]
    BY <2>1, <1>17
  <2>3. j \in Heaps /\ j.blk = X /\ At(j) = S /\ SameRest(j, h)
    BY <2>2, <1>16, NewBlocks
  <2> QED BY <2>1, <2>3
<1>19. Header(j.blk[m1], m, after, h.blk[m].sz - sz, h.blk[m].nextfree, JUNK)
  <2>1. j.blk[m1] = u
    BY <1>12, <1>14, <1>18
  <2>2. after = r.next
    BY <1>2 DEF CanCut
  <2> QED BY <2>1, <2>2, <1>2, <1>5, <1>7
<1>20. ASSUME NEW a \in At(h)
       PROVE  /\ j.blk[a].prev = (IF a = after THEN m1 ELSE h.blk[a].prev)
              /\ j.blk[a].next = (IF a = m THEN m1 ELSE h.blk[a].next)
              /\ j.blk[a].sz = (IF a = m THEN sz ELSE h.blk[a].sz)
              /\ j.blk[a].nextfree = (IF a = m THEN NULL ELSE h.blk[a].nextfree)
              /\ j.blk[a].prevfree = h.blk[a].prevfree
  <2>1. j.blk[a] = X[a] /\ a # NULL
    BY <1>18
  <2>2. CASE a = m
    BY <2>1, <2>2, <1>2, <1>4, <1>9, <1>12, <1>14, Zenon DEF Header
  <2>3. CASE a # m /\ a = after
    <3>1. K[a] = h.blk[a]
      BY <2>3, <1>9, <1>12
    <3> QED BY <3>1, <2>1, <2>3, <1>14, Zenon DEF Header
  <2>4. CASE a # m /\ a # after
    <3>1. j.blk[a] = h.blk[a]
      BY <2>1, <2>4, <1>9, <1>12, <1>14
    <3> QED BY <2>4, <3>1, Zenon
  <2> QED BY <2>2, <2>3, <2>4
<1>21. Cut(j, h, m, sz, m1, after)
  BY <1>18, <1>19, <1>20, Zenon DEF Cut
<1> QED BY <1>16, <1>21

\* Only m's header changes, and not its place in the chain.
Changed(j, h, m, sz, nextfree, prevfree) ==
  /\ j \in Heaps /\ At(j) = At(h)
  /\ Header(j.blk[m], h.blk[m].prev, h.blk[m].next, sz, nextfree, prevfree)
  /\ \A a \in At(h) : a # m => j.blk[a] = h.blk[a]

LEMMA ChangeFacts ==
  ASSUME NEW h \in Heaps, NEW m \in At(h), NEW sz, NEW nextfree, NEW prevfree, NEW e,
         Header(e, h.blk[m].prev, h.blk[m].next, sz, nextfree, prevfree),
         NEW j, j = [h EXCEPT !.blk = Replaced(h.blk, m, e)]
  PROVE  Changed(j, h, m, sz, nextfree, prevfree) /\ SameRest(j, h)
<1>1. h.blk \in [At(h) -> Block] /\ At(h) \in SUBSET Int
  BY HeapFacts
<1>2. e \in Block
  BY DEF Header
<1>3. PICK X : X = Replaced(h.blk, m, e)
  OBVIOUS
<1>4. X \in [At(h) -> Block] /\ X[m] = e /\ \A a \in At(h) : a # m => X[a] = h.blk[a]
  <2>1. X = [h.blk EXCEPT ![m] = e]
    BY <1>3 DEF Replaced
  <2> QED BY <2>1, <1>1, <1>2, SetBlock
<1>5. j \in Heaps /\ j.blk = X /\ At(j) = At(h) /\ SameRest(j, h)
  <2>1. j = [h EXCEPT !.blk = X]
    BY <1>3
  <2>2. X \in [At(h) -> Block]
    BY <1>4
  <2>3. PICK S \in SUBSET Int : S = At(h) /\ X \in [S -> Block]
    BY <2>2, <1>1
  <2>4. [h EXCEPT !.blk = X] \in Heaps /\ [h EXCEPT !.blk = X].blk = X /\ At([h EXCEPT !.blk = X]) = S
        /\ SameRest([h EXCEPT !.blk = X], h)
    BY <2>3, NewBlocks
  <2> QED BY <2>1, <2>3, <2>4
<1> QED BY <1>4, <1>5, Zenon DEF Changed

\* prevfree is the first word of the data.
Written(h, m, v) == [h EXCEPT !.blk[m].prevfree = v]

LEMMA WriteFacts ==
  ASSUME NEW h \in Heaps, NEW m \in At(h), NEW v \in Int
  PROVE  /\ Changed(Written(h, m, v), h, m, h.blk[m].sz, h.blk[m].nextfree, v)
         /\ SameRest(Written(h, m, v), h)
<1>1. PICK e : e = [h.blk[m] EXCEPT !.prevfree = v]
  OBVIOUS
<1>2. Header(e, h.blk[m].prev, h.blk[m].next, h.blk[m].sz, h.blk[m].nextfree, v)
  BY <1>1, BlockFields, SetPrevfree
<1>3. Written(h, m, v) = [h EXCEPT !.blk = Replaced(h.blk, m, e)]
  BY <1>1, Zenon DEF Written, Replaced
<1> QED BY <1>2, <1>3, ChangeFacts

LEMMA MarkFacts ==
  ASSUME NEW h \in Heaps, NEW m \in At(h)
  PROVE  Changed(MarkFree(h, m), h, m, h.blk[m].sz, NONE, NONE) /\ SameRest(MarkFree(h, m), h)
<1>1. PICK e : e = [h.blk[m] EXCEPT !.nextfree = NONE, !.prevfree = NONE]
  OBVIOUS
<1>2. Header(e, h.blk[m].prev, h.blk[m].next, h.blk[m].sz, NONE, NONE)
  BY <1>1, BlockFields, SetLinks, Codes
<1>3. MarkFree(h, m) = [h EXCEPT !.blk = Replaced(h.blk, m, e)]
  <2>1. h \in [blk : Blocks, freehdrs : [Lists -> Int], brk : Int, bad : Marks] /\ h.blk \in [At(h) -> Block]
    BY HeapFacts DEF Heaps
  <2> QED BY <1>1, <2>1 DEF MarkFree, Replaced, Block
<1> QED BY <1>2, <1>3, ChangeFacts

\* m becomes lastsbrk.
AsLast(h, m) == [h EXCEPT !.freehdrs[0] = m, !.blk[m].nextfree = NULL, !.blk[m].prevfree = NULL]
SameHeads(j, h) == \A c \in Lists : c # 0 => j.freehdrs[c] = h.freehdrs[c]

LEMMA LastFacts ==
  ASSUME NEW h \in Heaps, NEW m \in At(h)
  PROVE  /\ Changed(AsLast(h, m), h, m, h.blk[m].sz, NULL, NULL)
         /\ AsLast(h, m).brk = h.brk /\ AsLast(h, m).bad = h.bad
         /\ lastsbrk(AsLast(h, m)) = m /\ SameHeads(AsLast(h, m), h)
<1>1. PICK e : e = [h.blk[m] EXCEPT !.nextfree = NULL, !.prevfree = NULL]
  OBVIOUS
<1>2. Header(e, h.blk[m].prev, h.blk[m].next, h.blk[m].sz, NULL, NULL)
  BY <1>1, BlockFields, SetLinks, Codes
<1>3. PICK g : g = [h EXCEPT !.blk = Replaced(h.blk, m, e)]
  OBVIOUS
<1>4. Changed(g, h, m, h.blk[m].sz, NULL, NULL) /\ SameRest(g, h)
  BY <1>2, <1>3, ChangeFacts
<1>5. AsLast(h, m) = [g EXCEPT !.freehdrs[0] = m]
  <2>1. h \in [blk : Blocks, freehdrs : [Lists -> Int], brk : Int, bad : Marks] /\ h.blk \in [At(h) -> Block]
    BY HeapFacts DEF Heaps
  <2> QED BY <1>1, <1>3, <2>1 DEF AsLast, Replaced, Block
<1>6. PICK j : j = AsLast(h, m) /\ j = [g EXCEPT !.freehdrs[0] = m]
  BY <1>5
<1>7. 0 \in Lists /\ m \in Int /\ g \in Heaps
  BY <1>4, BlockFields, WidthAssumption DEF Lists, NFLISTS, Changed
<1>8. /\ j \in Heaps /\ j.blk = g.blk /\ At(j) = At(g) /\ j.brk = g.brk /\ j.bad = g.bad
      /\ j.freehdrs[0] = m /\ \A c \in Lists : c # 0 => j.freehdrs[c] = g.freehdrs[c]
  BY <1>6, <1>7, NewHead
<1>9. Changed(j, h, m, h.blk[m].sz, NULL, NULL)
  BY <1>4, <1>8, Zenon DEF Changed
<1>10. SameHeads(j, h) /\ lastsbrk(j) = m /\ j.brk = h.brk /\ j.bad = h.bad
  BY <1>4, <1>8, Zenon DEF SameHeads, SameRest, lastsbrk
<1> QED BY <1>6, <1>9, <1>10


\* sbrk moves the break.
Moved(h, n) == [h EXCEPT !.brk = @ + n]

LEMMA MoveFacts ==
  ASSUME NEW h \in Heaps, NEW n \in Int
  PROVE  /\ Moved(h, n) \in Heaps /\ Moved(h, n).blk = h.blk /\ At(Moved(h, n)) = At(h)
         /\ Moved(h, n).freehdrs = h.freehdrs /\ Moved(h, n).bad = h.bad /\ Moved(h, n).brk = h.brk + n
BY DEF Heaps, Moved, At

\* The last area continues.
Continued(h, m, n) == [Moved(h, n) EXCEPT !.blk[m].sz = @ + n]

LEMMA ContinueFacts ==
  ASSUME NEW h \in Heaps, NEW m \in At(h), NEW n \in Int
  PROVE  /\ Changed(Continued(h, m, n), h, m, h.blk[m].sz + n, h.blk[m].nextfree, h.blk[m].prevfree)
         /\ Continued(h, m, n).brk = h.brk + n /\ Continued(h, m, n).freehdrs = h.freehdrs
         /\ Continued(h, m, n).bad = h.bad
<1>1. PICK g : g = Moved(h, n)
  OBVIOUS
<1>2. /\ g \in Heaps /\ g.blk = h.blk /\ At(g) = At(h) /\ g.freehdrs = h.freehdrs /\ g.bad = h.bad
      /\ g.brk = h.brk + n
  BY <1>1, MoveFacts
<1>3. PICK v \in Int : v = h.blk[m].sz + n
  BY BlockFields
<1>4. PICK e : e = [h.blk[m] EXCEPT !.sz = v]
  OBVIOUS
<1>5. Header(e, h.blk[m].prev, h.blk[m].next, v, h.blk[m].nextfree, h.blk[m].prevfree)
  BY <1>4, BlockFields, SetSize
<1>6. PICK j : j = [g EXCEPT !.blk = Replaced(g.blk, m, e)]
  OBVIOUS
<1>7. Continued(h, m, n) = j
  <2>1. Continued(h, m, n) = [g EXCEPT !.blk[m].sz = g.blk[m].sz + n]
    BY <1>1, Zenon DEF Continued
  <2>2. g.blk[m].sz + n = v
    BY <1>2, <1>3
  <2>3. Continued(h, m, n) = [g EXCEPT !.blk[m].sz = v]
    BY <2>1, <2>2, Zenon
  <2> QED BY <2>3, <1>2, <1>4, <1>6, Zenon DEF Replaced
<1>8. Header(e, g.blk[m].prev, g.blk[m].next, v, g.blk[m].nextfree, g.blk[m].prevfree) /\ m \in At(g)
  BY <1>2, <1>5
<1>9. Changed(j, g, m, v, g.blk[m].nextfree, g.blk[m].prevfree) /\ SameRest(j, g)
  BY <1>2, <1>6, <1>8, ChangeFacts
<1>10. Changed(j, h, m, v, h.blk[m].nextfree, h.blk[m].prevfree)
  BY <1>2, <1>9, Zenon DEF Changed
<1>11. j.brk = h.brk + n /\ j.freehdrs = h.freehdrs /\ j.bad = h.bad
  BY <1>2, <1>9 DEF SameRest
<1> QED BY <1>3, <1>7, <1>10, <1>11

\* A new area begins with a block m.
Begun(h, m, n, new) == [Moved(h, n) EXCEPT !.blk = Put(@, m, new)]

Added(j, h, m, n, new) ==
  /\ j \in Heaps /\ At(j) = At(h) \union {m} /\ j.blk[m] = new /\ \A a \in At(h) : j.blk[a] = h.blk[a]
  /\ j.freehdrs = h.freehdrs /\ j.bad = h.bad /\ j.brk = h.brk + n

LEMMA BeginFacts ==
  ASSUME NEW h \in Heaps, NEW m \in Int, m \notin At(h), NEW n \in Int, NEW new \in Block
  PROVE  Added(Begun(h, m, n, new), h, m, n, new)
<1>1. PICK g : g = Moved(h, n)
  OBVIOUS
<1>2. /\ g \in Heaps /\ g.blk = h.blk /\ At(g) = At(h) /\ g.freehdrs = h.freehdrs /\ g.bad = h.bad
      /\ g.brk = h.brk + n
  BY <1>1, MoveFacts
<1>3. h.blk \in [At(h) -> Block] /\ At(h) \subseteq Int
  BY HeapFacts
<1>4. PICK S \in SUBSET Int : S = At(h) \union {m}
  BY <1>3
<1>5. PICK X : X = Put(h.blk, m, new)
  OBVIOUS
<1>6. X \in [S -> Block] /\ X[m] = new /\ \A a \in At(h) : X[a] = h.blk[a]
  BY <1>3, <1>4, <1>5 DEF Put
<1>7. Begun(h, m, n, new) = [g EXCEPT !.blk = X]
  BY <1>1, <1>2, <1>5, Zenon DEF Begun
<1>8. [g EXCEPT !.blk = X] \in Heaps /\ [g EXCEPT !.blk = X].blk = X /\ At([g EXCEPT !.blk = X]) = S
      /\ SameRest([g EXCEPT !.blk = X], g)
  BY <1>2, <1>6, NewBlocks
<1>9. PICK j : j = Begun(h, m, n, new) /\ j \in Heaps /\ j.blk = X /\ At(j) = S /\ SameRest(j, g)
  BY <1>7, <1>8
<1> QED BY <1>2, <1>4, <1>6, <1>9, Zenon DEF Added, SameRest


-----------------------------------------------------------------------------
(* Alignment, powers of two and buckets. *)

LEMMA DivModFacts ==
  ASSUME NEW a \in Int, NEW n \in Nat \ {0}
  PROVE  \E q \in Int, r \in Int : q = a \div n /\ r = a % n /\ r >= 0 /\ r < n /\ a = q * n + r
<1>1. PICK q \in Int, r \in Int : q = a \div n /\ r = a % n /\ r >= 0 /\ r < n /\ a = n * q + r
  <2>1. a \div n \in Int
    OBVIOUS
  <2>2. a % n \in Int /\ a % n >= 0 /\ a % n < n
    OBVIOUS
  <2>3. a = n * (a \div n) + (a % n)
    OBVIOUS
  <2> QED BY <2>1, <2>2, <2>3
<1> QED BY <1>1

LEMMA ModSmall == ASSUME NEW a \in Nat, NEW n \in Nat \ {0}, a < n PROVE a % n = a
OBVIOUS

LEMMA ModMultiple == ASSUME NEW k \in Int, NEW n \in Nat \ {0} PROVE (k * n) % n = 0
OBVIOUS

\* An aligned address.
Al(a) == a % ALIGN = 0

LEMMA AlignedIsMultiple ==
  ASSUME NEW a \in Int
  PROVE  Al(a) <=> \E k \in Int : a = k * ALIGN
<1>1. ALIGN \in Nat \ {0}
  BY LayoutAssumption
<1>2. ASSUME Al(a) PROVE \E k \in Int : a = k * ALIGN
  <2>1. PICK q \in Int, r \in Int : r = a % ALIGN /\ a = q * ALIGN + r
    BY <1>1, DivModFacts
  <2>2. r = 0
    BY <1>2, <2>1 DEF Al
  <2>3. PICK x \in Int : x = q * ALIGN
    BY <1>1
  <2>4. a = x
    BY <2>1, <2>2, <2>3
  <2> QED BY <2>3, <2>4
<1>3. ASSUME NEW k \in Int, a = k * ALIGN PROVE Al(a)
  BY <1>1, <1>3, ModMultiple DEF Al
<1> QED BY <1>2, <1>3

LEMMA Distribute ==
  ASSUME NEW k \in Int, NEW l \in Int, NEW n \in Int
  PROVE  (k + l) * n = k * n + l * n /\ (k - l) * n = k * n - l * n
OBVIOUS

LEMMA AlignedSum ==
  ASSUME NEW a \in Int, NEW b \in Int, Al(a), Al(b)
  PROVE  Al(a + b) /\ Al(a - b)
<1>0. ALIGN \in Int
  BY LayoutAssumption
<1>1. PICK k \in Int : a = k * ALIGN
  BY AlignedIsMultiple
<1>2. PICK l \in Int : b = l * ALIGN
  BY AlignedIsMultiple
<1>3. a + b = (k + l) * ALIGN /\ a - b = (k - l) * ALIGN
  BY <1>0, <1>1, <1>2, Distribute
<1>4. k + l \in Int /\ k - l \in Int /\ a + b \in Int /\ a - b \in Int
  OBVIOUS
<1> QED BY <1>3, <1>4, AlignedIsMultiple

LEMMA OffsetAligned == Al(DATAOFFSET) /\ DATAOFFSET \in Nat /\ DATAOFFSET >= 2 /\ ALIGN \in Nat /\ ALIGN >= 1
BY LayoutAssumption DEF Al

LEMMA ToAlignedFacts ==
  ASSUME NEW a \in Int
  PROVE  ToAligned(a) \in 0..(ALIGN - 1) /\ Al(a + ToAligned(a))
<1>1. ALIGN \in Nat \ {0}
  BY LayoutAssumption
<1>2. PICK q \in Int, r \in Int : r = a % ALIGN /\ a = q * ALIGN + r /\ r >= 0 /\ r < ALIGN
  BY <1>1, DivModFacts
<1>3. PICK x \in Int : x = q * ALIGN
  BY <1>1
<1>4. CASE r = 0
  <2>1. ToAligned(a) = 0
    <3>1. 1 * ALIGN = ALIGN /\ (1 * ALIGN) % ALIGN = 0
      BY <1>1, ModMultiple
    <3>2. (ALIGN - r) % ALIGN = 0
      BY <1>1, <1>4, <3>1
    <3> QED BY <1>2, <3>2 DEF ToAligned
  <2>2. Al(a)
    BY <1>2, <1>4 DEF Al
  <2>3. a + 0 = a
    OBVIOUS
  <2> QED BY <1>1, <2>1, <2>2, <2>3
<1>5. CASE r # 0
  <2>1. ToAligned(a) = ALIGN - r
    <3>1. ALIGN - r \in Nat /\ ALIGN - r < ALIGN
      BY <1>1, <1>2, <1>5
    <3>2. (ALIGN - r) % ALIGN = ALIGN - r
      BY <1>1, <3>1, ModSmall
    <3> QED BY <1>2, <3>2 DEF ToAligned
  <2>2. a + (ALIGN - r) = x + ALIGN
    BY <1>1, <1>2, <1>3
  <2>3. Al(x) /\ Al(ALIGN)
    <3>1. ALIGN = 1 * ALIGN
      BY <1>1
    <3> QED BY <1>1, <1>3, <3>1, AlignedIsMultiple
  <2>4. Al(x + ALIGN)
    BY <1>1, <2>3, AlignedSum
  <2> QED BY <1>1, <1>2, <1>5, <2>1, <2>2, <2>4
<1> QED BY <1>4, <1>5


\* What the recursion for the powers says.
LEMMA PowFacts ==
  /\ pow2 \in [0..(W + 16) -> Nat] /\ pow2[0] = 1
  /\ \A n \in 1..(W + 16) : pow2[n] = 2 * pow2[n - 1]
<1> DEFINE Cell(f, i) == IF i = 0 THEN 1 ELSE 2 * f[i - 1]
           Solves(f) == f = [i \in 0..(W + 16) |-> Cell(f, i)]
<1>1. PICK n \in Nat : n = W + 16
  BY WidthAssumption
<1>2. PICK step : step = [i \in Nat |-> [s \in Nat |-> 2 * s]]
  OBVIOUS
<1>3. step \in Steps(Nat) /\ \A i \in Nat, s \in Nat : step[i][s] = 2 * s
  BY <1>2 DEF Steps
<1>4. PICK f : Follows(f, Nat, 1, n, step)
  BY <1>3, RecursionExists
<1>5. f \in [0..n -> Nat] /\ f[0] = 1 /\ \A i \in 1..n : f[i] = 2 * f[i - 1]
  <2>1. f \in [0..n -> Nat] /\ f[0] = 1 /\ \A i \in 1..n : f[i] = step[i][f[i - 1]]
    BY <1>4 DEF Follows
  <2>2. ASSUME NEW i \in 1..n PROVE f[i] = 2 * f[i - 1]
    <3>1. i \in Nat /\ f[i - 1] \in Nat
      BY <2>1
    <3> QED BY <3>1, <2>1, <1>3
  <2> QED BY <2>1, <2>2
<1>6. Solves(f)
  <2>1. ASSUME NEW i \in 0..n PROVE f[i] = Cell(f, i)
    BY <1>5
  <2> HIDE DEF Cell
  <2> QED BY <2>1, <1>1, <1>5
<1>7. pow2 = CHOOSE g : Solves(g)
  BY DEF pow2
<1>8. Solves(pow2)
  <2> HIDE DEF Solves
  <2> QED BY <1>6, <1>7
<1>9. PICK g : g = pow2
  OBVIOUS
<1>10. g = [i \in 0..n |-> Cell(g, i)]
  BY <1>1, <1>8, <1>9
<1>11. DOMAIN g = 0..n /\ \A i \in 0..n : g[i] = Cell(g, i)
  <2> HIDE DEF Cell
  <2> QED BY <1>10
<1>12. g[0] = 1 /\ \A i \in 1..n : g[i] = 2 * g[i - 1]
  BY <1>11
<1>13. \A i \in Nat : i \in 0..n => g[i] \in Nat
  <2> DEFINE T == {i \in Nat : i \in 0..n => g[i] \in Nat}
  <2>1. 0 \in T
    BY <1>12
  <2>2. ASSUME NEW i \in Nat, i \in T PROVE i + 1 \in T
    <3>1. CASE i + 1 \in 0..n
      <4>1. i + 1 \in 1..n /\ i \in 0..n /\ (i + 1) - 1 = i
        BY <3>1
      <4>2. g[i + 1] = 2 * g[i] /\ g[i] \in Nat
        BY <4>1, <1>12, <2>2
      <4> QED BY <4>2
    <3> QED BY <3>1
  <2> HIDE DEF T
  <2>3. Nat \subseteq T
    BY <2>1, <2>2, SetInduction
  <2> QED BY <2>3 DEF T
<1>14. g \in [0..n -> Nat]
  <2>1. g = [i \in 0..n |-> g[i]]
    <3> HIDE DEF Cell
    <3> QED BY <1>10, <1>11
  <2>2. \A i \in 0..n : g[i] \in Nat
    BY <1>13
  <2> QED BY <2>1, <2>2
<1> QED BY <1>1, <1>9, <1>12, <1>14

LEMMA PowMonotone ==
  ASSUME NEW i \in 0..(W + 16), NEW j \in 0..(W + 16), i <= j
  PROVE  pow2[i] <= pow2[j] /\ pow2[i] \in Nat /\ pow2[i] >= 1
<1>0. W \in Nat
  BY WidthAssumption
<1> DEFINE T == {d \in Nat : \A a \in 0..(W + 16) : a + d <= W + 16 => pow2[a] <= pow2[a + d]}
<1>1. 0 \in T
  BY PowFacts, <1>0
<1>2. ASSUME NEW d \in Nat, d \in T PROVE d + 1 \in T
  <2> SUFFICES ASSUME NEW a \in 0..(W + 16), a + (d + 1) <= W + 16 PROVE pow2[a] <= pow2[a + (d + 1)]
    OBVIOUS
  <2>1. pow2[a] <= pow2[a + d]
    BY <1>0, <1>2
  <2>2. a + (d + 1) \in 1..(W + 16) /\ (a + (d + 1)) - 1 = a + d /\ a + d \in 0..(W + 16)
    BY <1>0
  <2>3. pow2[a + (d + 1)] = 2 * pow2[a + d] /\ pow2[a + d] \in Nat /\ pow2[a] \in Nat
    BY <2>2, PowFacts
  <2>4. pow2[a + (d + 1)] \in Nat
    BY <2>3
  <2> QED BY <2>1, <2>3, <2>4
<1> HIDE DEF T
<1>3. Nat \subseteq T
  BY <1>1, <1>2, SetInduction
<1>4. ASSUME NEW a \in 0..(W + 16), NEW b \in 0..(W + 16), a <= b PROVE pow2[a] <= pow2[b]
  <2>1. b - a \in Nat /\ a + (b - a) = b /\ b <= W + 16
    BY <1>0, <1>4
  <2>2. b - a \in T
    BY <1>3, <2>1
  <2> QED BY <2>1, <2>2 DEF T
<1>5. pow2[i] \in Nat /\ pow2[0] <= pow2[i] /\ pow2[0] = 1
  <2>1. 0 \in 0..(W + 16) /\ 0 <= i
    BY <1>0
  <2>2. pow2[0] <= pow2[i]
    BY <2>1, <1>4
  <2> QED BY <2>2, PowFacts
<1> QED BY <1>4, <1>5

LEMMA BucketFacts ==
  ASSUME NEW sz \in Nat, sz < pow2[W - 1]
  PROVE  /\ size2bucket(sz) \in 0..(W - 1) /\ sz < pow2[size2bucket(sz)]
         /\ size2bucket(sz) > 0 => pow2[size2bucket(sz) - 1] <= sz
<1>0. W \in Nat /\ W >= 1 /\ W - 1 \in 0..(W + 16)
  BY WidthAssumption
<1> DEFINE IsB(b) == sz < pow2[b] /\ (b > 0 => pow2[b - 1] <= sz)
           T == {n \in Nat : n <= W - 1 /\ sz < pow2[n] => \E b \in 0..n : IsB(b)}
<1>1. 0 \in T
  OBVIOUS
<1>2. ASSUME NEW n \in Nat, n \in T PROVE n + 1 \in T
  <2> SUFFICES ASSUME n + 1 <= W - 1, sz < pow2[n + 1] PROVE \E b \in 0..(n + 1) : IsB(b)
    OBVIOUS
  <2>1. n \in 0..(W + 16) /\ n <= W - 1
    BY <1>0
  <2>2. pow2[n] \in Nat
    BY <2>1, PowFacts
  <2>3. CASE sz < pow2[n]
    <3>1. PICK b \in 0..n : IsB(b)
      BY <1>2, <2>1, <2>3
    <3>2. b \in 0..(n + 1)
      OBVIOUS
    <3> QED BY <3>1, <3>2
  <2>4. CASE ~(sz < pow2[n])
    <3>1. IsB(n + 1)
      <4>1. (n + 1) - 1 = n
        OBVIOUS
      <4> QED BY <2>2, <2>4, <4>1
    <3>2. n + 1 \in 0..(n + 1)
      OBVIOUS
    <3> QED BY <3>1, <3>2
  <2> QED BY <2>3, <2>4
<1> HIDE DEF T
<1>3. Nat \subseteq T
  BY <1>1, <1>2, SetInduction
<1>4. W - 1 \in T
  BY <1>0, <1>3
<1>5. PICK b \in 0..(W - 1) : IsB(b)
  BY <1>0, <1>4 DEF T
<1>6. b \in 0..W
  BY <1>0
<1> HIDE DEF IsB
<1>7. size2bucket(sz) = CHOOSE c \in 0..W : IsB(c)
  BY DEF size2bucket, IsB
<1>8. PICK c \in 0..W : c = size2bucket(sz) /\ IsB(c)
  BY <1>5, <1>6, <1>7
<1>9. c <= W - 1
  <2> SUFFICES ASSUME c = W PROVE FALSE
    BY <1>0
  <2>1. pow2[W - 1] <= sz
    BY <1>0, <1>8 DEF IsB
  <2>2. pow2[W - 1] \in Nat
    BY <1>0, PowFacts
  <2> QED BY <2>1, <2>2
<1> QED BY <1>0, <1>8, <1>9 DEF IsB

\* What is below half of the address space.
LEMMA Halves ==
  /\ W \in Nat /\ W >= 1 /\ pow2[W - 1] \in Nat /\ pow2[W] \in Nat /\ pow2[W] = 2 * pow2[W - 1]
  /\ MaxBrk \in Nat /\ MaxBrk < pow2[W - 1] /\ MaxRequest \in Nat /\ MaxRequest < pow2[W - 1]
  /\ Base \in Nat /\ Base >= 1 /\ Base <= MaxBrk
<1>1. W \in Nat /\ W >= 1
  BY WidthAssumption
<1>2. pow2[W - 1] \in Nat /\ pow2[W] \in Nat /\ pow2[W] = 2 * pow2[W - 1]
  <2>1. W - 1 \in 0..(W + 16) /\ W \in 0..(W + 16) /\ W \in 1..(W + 16)
    BY <1>1
  <2>2. pow2[W] = 2 * pow2[W - 1]
    BY <2>1, PowFacts
  <2>3. pow2[W - 1] \in Nat /\ pow2[W] \in Nat
    BY <2>1, PowFacts
  <2> QED BY <2>2, <2>3
<1> QED BY <1>1, <1>2, LayoutAssumption, BoundsAssumption

LEMMA BucketRange ==
  ASSUME NEW sz \in Nat, sz >= DATAOFFSET, sz < pow2[W - 1]
  PROVE  size2bucket(sz) \in 2..(NFLISTS - 1) /\ size2bucket(sz) \in Lists
<1>0. W \in Nat /\ W >= 1
  BY WidthAssumption
<1>2. PICK b \in 0..(W - 1) : b = size2bucket(sz) /\ sz < pow2[b]
  BY BucketFacts
<1>3. b >= 2
  <2>1. pow2[0] = 1 /\ pow2[1] = 2 * pow2[1 - 1]
    BY <1>0, PowFacts
  <2>2. pow2[1] = 2
    BY <2>1
  <2>3. sz >= 2
    BY OffsetAligned
  <2> QED BY <1>2, <2>1, <2>2, <2>3
<1> QED BY <1>0, <1>2, <1>3 DEF NFLISTS, Lists

\* A block of a higher bucket is larger.
LEMMA BucketOrder ==
  ASSUME NEW sz \in Nat, NEW need \in Nat, sz < pow2[W - 1], need < pow2[W - 1],
         size2bucket(need) < size2bucket(sz)
  PROVE  need < sz
<1>0. W \in Nat /\ W >= 1 /\ pow2[W - 1] \in Nat
  BY WidthAssumption, PowFacts
<1>1. PICK b \in 0..(W - 1) : b = size2bucket(need) /\ need < pow2[b]
  BY BucketFacts
<1>2. PICK c \in 0..(W - 1) : c = size2bucket(sz) /\ (c > 0 => pow2[c - 1] <= sz)
  BY BucketFacts
<1>3. b < c /\ c > 0 /\ b <= c - 1 /\ c - 1 \in 0..(W + 16) /\ b \in 0..(W + 16)
  BY <1>0, <1>1, <1>2
<1>4. pow2[b] <= pow2[c - 1] /\ pow2[b] \in Nat /\ pow2[c - 1] \in Nat
  BY <1>3, PowMonotone, PowFacts
<1> QED BY <1>1, <1>2, <1>3, <1>4


LEMMA ProductSign ==
  ASSUME NEW k \in Int, NEW n \in Nat
  PROVE  k * n \in Int /\ (k >= 0 => k * n >= 0) /\ (k <= 0 => k * n <= 0) /\ (k >= 1 => k * n >= n)
<1>1. ASSUME NEW a \in Nat, NEW b \in Nat PROVE a * b \in Nat
  OBVIOUS
<1>2. k >= 0 => k * n >= 0
  BY <1>1
<1>3. k <= 0 => k * n <= 0
  <2> SUFFICES ASSUME k <= 0 PROVE k * n <= 0
    OBVIOUS
  <2>1. PICK l \in Nat : k = -l
    <3>1. -k \in Nat /\ k = -(-k)
      OBVIOUS
    <3> QED BY <3>1
  <2>2. PICK x \in Nat : x = l * n
    BY <1>1
  <2>3. k * n = -x
    BY <2>1, <2>2
  <2> QED BY <2>3
<1>4. k >= 1 => k * n >= n
  <2> SUFFICES ASSUME k >= 1 PROVE k * n >= n
    OBVIOUS
  <2>1. PICK l \in Nat : k = l + 1
    <3>1. k - 1 \in Nat /\ k = (k - 1) + 1
      OBVIOUS
    <3> QED BY <3>1
  <2>2. PICK x \in Nat : x = l * n
    BY <1>1
  <2>3. k * n = x + n
    BY <2>1, <2>2
  <2> QED BY <2>3
<1> QED BY <1>2, <1>3, <1>4

\* A request that does not wrap gets a block that holds it.
Fits(size) == size + (ALIGN - 1) + DATAOFFSET < pow2[W]

LEMMA RoundupFacts ==
  ASSUME NEW size \in Nat, Fits(size)
  PROVE  /\ roundup(size) \in Nat /\ Al(roundup(size)) /\ roundup(size) >= size + DATAOFFSET
         /\ roundup(size) <= size + (ALIGN - 1) + DATAOFFSET
         /\ size >= 1 => roundup(size) >= MINSAVE
<1>0. ALIGN \in Nat \ {0} /\ DATAOFFSET \in Nat /\ Al(DATAOFFSET)
  BY LayoutAssumption DEF Al
<1>1. PICK a \in Nat : a = size + (ALIGN - 1)
  BY <1>0
<1>2. PICK p \in Nat \ {0} : p = pow2[W] /\ a + DATAOFFSET < p
  BY <1>0, <1>1, Halves DEF Fits
<1>3. a % p = a
  BY <1>0, <1>2, ModSmall
<1>4. PICK q \in Int, r \in Int : q = a \div ALIGN /\ r >= 0 /\ r < ALIGN /\ a = q * ALIGN + r
  BY <1>0, DivModFacts
<1>5. PICK x \in Int : x = q * ALIGN
  BY <1>0
<1>6. x >= 0 /\ x <= a /\ a < x + ALIGN /\ (size >= 1 => x >= ALIGN)
  <2>1. a = x + r
    BY <1>4, <1>5
  <2>2. (q >= 0 => x >= 0) /\ (q <= 0 => x <= 0) /\ (q >= 1 => x >= ALIGN)
    BY <1>0, <1>5, ProductSign
  <2>3. q >= 0
    <3> SUFFICES ASSUME q < 0 PROVE FALSE
      OBVIOUS
    <3>1. PICK l \in Int : l = q + 1 /\ l <= 0
      OBVIOUS
    <3>2. l * ALIGN <= 0
      BY <1>0, <3>1, ProductSign
    <3>3. l * ALIGN = x + ALIGN
      BY <1>0, <1>5, <3>1
    <3> QED BY <1>0, <1>1, <1>4, <2>1, <3>2, <3>3
  <2>4. size >= 1 => q >= 1
    BY <1>0, <1>1, <1>4, <2>1, <2>2
  <2>5. r >= 0 /\ r < ALIGN
    BY <1>4
  <2> QED BY <1>0, <2>1, <2>2, <2>3, <2>4, <2>5
<1>7. x + DATAOFFSET \in Nat /\ x + DATAOFFSET < p
  BY <1>0, <1>2, <1>6
<1>8. (x + DATAOFFSET) % p = x + DATAOFFSET
  BY <1>7, ModSmall
<1>9. roundup(size) = x + DATAOFFSET
  <2>1. (size + ALIGN - 1) = a
    BY <1>0, <1>1
  <2> QED BY <2>1, <1>2, <1>3, <1>4, <1>5, <1>8, Zenon DEF roundup
<1>10. Al(x + DATAOFFSET)
  <2>1. Al(x)
    BY <1>5, AlignedIsMultiple
  <2> QED BY <1>0, <2>1, AlignedSum
<1> QED BY <1>0, <1>1, <1>6, <1>7, <1>9, <1>10 DEF MINSAVE


-----------------------------------------------------------------------------
(* The chain of the blocks. *)

Placed(h, m) == m >= Base /\ Al(m) /\ h.blk[m].sz >= DATAOFFSET /\ m + h.blk[m].sz <= h.brk
NextOK(h, m) ==
  h.blk[m].next # NULL => /\ h.blk[m].next \in At(h) /\ h.blk[m].next = m + h.blk[m].sz
                          /\ h.blk[h.blk[m].next].prev = m
PrevOK(h, m) == h.blk[m].prev # NULL => h.blk[m].prev \in At(h) /\ h.blk[h.blk[m].prev].next = m
Apart(h, m) == \A n \in At(h) : n > m => n >= m + h.blk[m].sz
EndOK(h, m) == h.blk[m].next = NULL => m + h.blk[m].sz = h.brk

\* The blocks cover their areas; one: there is only one area.
Tile(h, one) ==
  /\ h.brk >= Base /\ h.brk <= MaxBrk
  /\ \A m \in At(h) : Placed(h, m) /\ NextOK(h, m) /\ PrevOK(h, m) /\ Apart(h, m) /\ (one => EndOK(h, m))

LEMMA TileFacts ==
  ASSUME NEW h \in Heaps, NEW one, Tile(h, one), NEW m \in At(h)
  PROVE  /\ m \in Int /\ m >= Base /\ m >= 1 /\ Al(m) /\ h.brk \in Int /\ h.brk <= MaxBrk
         /\ h.blk[m].sz \in Nat /\ h.blk[m].sz >= DATAOFFSET /\ m + h.blk[m].sz <= h.brk
         /\ h.blk[m].sz < pow2[W - 1]
<1>1. m \in Int /\ h.blk[m].sz \in Int /\ h.brk \in Int
  BY BlockFields, HeapFacts
<1>2. m >= Base /\ Al(m) /\ h.blk[m].sz >= DATAOFFSET /\ m + h.blk[m].sz <= h.brk /\ h.brk <= MaxBrk
  BY DEF Tile, Placed
<1> QED BY <1>1, <1>2, Halves, OffsetAligned

LEMMA NoBlockAtCode ==
  ASSUME NEW h \in Heaps, NEW one, Tile(h, one)
  PROVE  NULL \notin At(h) /\ NONE \notin At(h) /\ JUNK \notin At(h)
<1>1. ASSUME NEW m \in At(h) PROVE m # NULL /\ m # NONE /\ m # JUNK
  BY TileFacts, Codes
<1> QED BY <1>1

\* Neighbours.
LEMMA NextFacts ==
  ASSUME NEW h \in Heaps, NEW one, Tile(h, one), NEW m \in At(h), NEW n, n = h.blk[m].next, n # NULL
  PROVE  /\ n \in At(h) /\ n \in Int /\ n = m + h.blk[m].sz /\ h.blk[n].prev = m /\ n > m
         /\ h.blk[n].next # m /\ h.blk[n].next # n
<1>1. n \in At(h) /\ n = m + h.blk[m].sz /\ h.blk[n].prev = m
  BY DEF Tile, NextOK
<1>2. n \in Int /\ n > m
  BY <1>1, TileFacts, OffsetAligned
<1>3. h.blk[n].next # NULL => h.blk[n].next = n + h.blk[n].sz
  BY <1>1 DEF Tile, NextOK
<1>4. h.blk[n].sz \in Nat /\ h.blk[n].sz >= DATAOFFSET /\ m >= 1 /\ m \in Int
  BY <1>1, TileFacts
<1> QED BY <1>1, <1>2, <1>3, <1>4, OffsetAligned, Codes

LEMMA PrevFacts ==
  ASSUME NEW h \in Heaps, NEW one, Tile(h, one), NEW m \in At(h), NEW p, p = h.blk[m].prev, p # NULL
  PROVE  p \in At(h) /\ p \in Int /\ h.blk[p].next = m /\ p < m /\ m = p + h.blk[p].sz
<1>1. p \in At(h) /\ h.blk[p].next = m
  BY DEF Tile, PrevOK
<1>2. m # NULL
  BY NoBlockAtCode
<1>3. m > p /\ m = p + h.blk[p].sz
  BY <1>1, <1>2, NextFacts
<1> QED BY <1>1, <1>3, TileFacts

LEMMA TileKeep ==
  ASSUME NEW h \in Heaps, NEW j \in Heaps, NEW one, Tile(h, one), SameChain(j, h)
  PROVE  Tile(j, one)
<1>1. At(j) = At(h) /\ j.brk = h.brk
  BY DEF SameChain
<1>2. ASSUME NEW m \in At(h)
      PROVE  Placed(j, m) /\ NextOK(j, m) /\ PrevOK(j, m) /\ Apart(j, m) /\ (one => EndOK(j, m))
  <2>0. j.blk[m].prev = h.blk[m].prev /\ j.blk[m].next = h.blk[m].next /\ j.blk[m].sz = h.blk[m].sz
    BY DEF SameChain
  <2>1. Placed(h, m) /\ NextOK(h, m) /\ PrevOK(h, m) /\ Apart(h, m) /\ (one => EndOK(h, m))
    BY DEF Tile
  <2>2. Placed(j, m) /\ (one => EndOK(j, m))
    BY <1>1, <2>0, <2>1, Zenon DEF Placed, EndOK
  <2>3. Apart(j, m)
    BY <1>1, <2>0, <2>1, Zenon DEF Apart
  <2>4. NextOK(j, m)
    BY <1>1, <2>0, <2>1, Zenon DEF NextOK, SameChain
  <2>5. PrevOK(j, m)
    BY <1>1, <2>0, <2>1, Zenon DEF PrevOK, SameChain
  <2> QED BY <2>2, <2>3, <2>4, <2>5
<1> QED BY <1>1, <1>2, Zenon DEF Tile

LEMMA TileJoin ==
  ASSUME NEW h \in Heaps, NEW one, Tile(h, one), NEW m \in At(h), NEW hi, NEW after, NEW j,
         hi = h.blk[m].next, hi # NULL, after = h.blk[hi].next, Joined(j, h, m, hi, after)
  PROVE  Tile(j, one)
<1>1. At(j) = At(h) \ {hi} /\ j.brk = h.brk /\ j \in Heaps
  BY DEF Joined, SameRest
<1>2. hi \in At(h) /\ hi \in Int /\ hi = m + h.blk[m].sz /\ h.blk[hi].prev = m /\ hi > m
  BY NextFacts
<1>3. after # NULL => after \in At(h) /\ after \in Int /\ after = hi + h.blk[hi].sz /\ h.blk[after].prev = hi /\ after > hi
  BY <1>2, NextFacts
<1>4. m \in Int /\ h.blk[m].sz \in Int /\ h.blk[hi].sz \in Int /\ h.brk \in Int
  BY <1>2, BlockFields, HeapFacts
<1>5. m \in At(j)
  BY <1>1, <1>2, <1>4
<1>6. ASSUME NEW a \in At(j)
      PROVE  Placed(j, a) /\ NextOK(j, a) /\ PrevOK(j, a) /\ Apart(j, a) /\ (one => EndOK(j, a))
  <2>0. a \in At(h) /\ a # hi /\ a \in Int
    BY <1>1, TileFacts
  <2>1. Placed(h, a) /\ NextOK(h, a) /\ PrevOK(h, a) /\ Apart(h, a) /\ (one => EndOK(h, a)) /\ Placed(h, hi)
        /\ Apart(h, hi) /\ (one => EndOK(h, hi))
    BY <1>2, <2>0 DEF Tile
  <2>2. /\ j.blk[a].prev = (IF a = after THEN m ELSE h.blk[a].prev)
        /\ j.blk[a].next = (IF a = m THEN after ELSE h.blk[a].next)
        /\ j.blk[a].sz = (IF a = m THEN h.blk[m].sz + h.blk[hi].sz ELSE h.blk[a].sz)
    BY DEF Joined
  <2>3. Placed(j, a)
    <3>1. CASE a = m
      <4>1. m + (h.blk[m].sz + h.blk[hi].sz) = hi + h.blk[hi].sz
        BY <1>2, <1>4
      <4>2. h.blk[hi].sz >= DATAOFFSET /\ h.blk[m].sz >= DATAOFFSET /\ hi + h.blk[hi].sz <= h.brk /\ m >= Base /\ Al(m)
        BY <2>1, <3>1 DEF Placed
      <4> QED BY <4>1, <4>2, <3>1, <2>2, <1>1, <1>4, OffsetAligned DEF Placed
    <3>2. CASE a # m
      BY <3>2, <2>1, <2>2, <1>1, Zenon DEF Placed
    <3> QED BY <3>1, <3>2
  <2>4. NextOK(j, a)
    <3>1. CASE a = m
      <4> SUFFICES ASSUME after # NULL PROVE after \in At(j) /\ after = m + j.blk[m].sz /\ j.blk[after].prev = m
        BY <3>1, <2>2 DEF NextOK
      <4>1. after \in At(j)
        BY <1>1, <1>2, <1>3
      <4>2. j.blk[after].prev = m
        BY <4>1 DEF Joined
      <4>3. after = m + j.blk[m].sz
        BY <1>2, <1>3, <1>4, <2>2, <3>1
      <4> QED BY <4>1, <4>2, <4>3
    <3>2. CASE a # m
      <4> DEFINE n == h.blk[a].next
      <4> SUFFICES ASSUME n # NULL PROVE n \in At(j) /\ n = a + j.blk[a].sz /\ j.blk[n].prev = a
        BY <3>2, <2>2 DEF NextOK
      <4>1. n \in At(h) /\ n = a + h.blk[a].sz /\ h.blk[n].prev = a
        BY <2>1 DEF NextOK
      <4> HIDE DEF n
      <4>2. n # hi /\ n # after
        BY <4>1, <3>2, <1>2, <1>3, <2>0
      <4>3. n \in At(j)
        BY <4>1, <4>2, <1>1
      <4>4. j.blk[n].prev = a
        BY <4>1, <4>2, <4>3 DEF Joined
      <4> QED BY <4>1, <4>3, <4>4, <3>2, <2>2
    <3> QED BY <3>1, <3>2
  <2>5. PrevOK(j, a)
    <3>1. CASE a = after
      <4>1. j.blk[m].next = after
        BY <1>5 DEF Joined
      <4> QED BY <4>1, <3>1, <2>2, <1>5 DEF PrevOK
    <3>2. CASE a # after
      <4> DEFINE p == h.blk[a].prev
      <4> SUFFICES ASSUME p # NULL PROVE p \in At(j) /\ j.blk[p].next = a
        BY <3>2, <2>2 DEF PrevOK
      <4>1. p \in At(h) /\ h.blk[p].next = a
        BY <2>1 DEF PrevOK
      <4> HIDE DEF p
      <4>2. p # hi /\ p # m
        BY <4>1, <3>2, <2>0
      <4>3. p \in At(j)
        BY <4>1, <4>2, <1>1
      <4> QED BY <4>1, <4>2, <4>3 DEF Joined
    <3> QED BY <3>1, <3>2
  <2>6. Apart(j, a)
    <3> SUFFICES ASSUME NEW n \in At(j), n > a PROVE n >= a + j.blk[a].sz
      BY DEF Apart
    <3>0. n \in At(h) /\ n # hi /\ n \in Int
      BY <1>1, TileFacts
    <3>1. CASE a = m
      <4>1. n >= m + h.blk[m].sz
        BY <3>0, <3>1, <2>1 DEF Apart
      <4>2. n > hi
        BY <4>1, <3>0, <1>2
      <4>3. n >= hi + h.blk[hi].sz
        BY <4>2, <3>0, <2>1 DEF Apart
      <4> QED BY <4>3, <3>0, <3>1, <2>2, <1>2, <1>4
    <3>2. CASE a # m
      BY <3>0, <3>2, <2>1, <2>2 DEF Apart
    <3> QED BY <3>1, <3>2
  <2>7. ASSUME one PROVE EndOK(j, a)
    <3>1. CASE a = m
      <4> SUFFICES ASSUME after = NULL PROVE m + (h.blk[m].sz + h.blk[hi].sz) = h.brk
        BY <3>1, <2>2, <1>1 DEF EndOK
      <4>1. hi + h.blk[hi].sz = h.brk
        BY <2>1, <2>7 DEF EndOK
      <4> QED BY <4>1, <1>2, <1>4
    <3>2. CASE a # m
      BY <3>2, <2>1, <2>2, <2>7, <1>1, Zenon DEF EndOK
    <3> QED BY <3>1, <3>2
  <2> QED BY <2>3, <2>4, <2>5, <2>6, <2>7
<1>7. j.brk >= Base /\ j.brk <= MaxBrk
  BY <1>1 DEF Tile
<1> QED BY <1>6, <1>7 DEF Tile


\* A block can be cut where both parts hold a header.
LEMMA CutReady ==
  ASSUME NEW h \in Heaps, NEW one, Tile(h, one), NEW m \in At(h), NEW sz \in Int,
         sz >= DATAOFFSET, h.blk[m].sz >= sz + DATAOFFSET, NEW m1, m1 = m + sz, NEW after, after = h.blk[m].next
  PROVE  /\ m1 \in Int /\ m1 \notin At(h) /\ m1 # NULL /\ after \in At(h) \union {NULL} /\ after # m
         /\ CanCut(h, m, sz, m1, after)
<1>1. m \in Int /\ m >= 1 /\ h.blk[m].sz \in Nat /\ DATAOFFSET \in Nat /\ DATAOFFSET >= 2
  BY TileFacts, OffsetAligned
<1>2. m1 \in Int /\ m1 > m /\ m1 < m + h.blk[m].sz
  BY <1>1
<1>3. ASSUME m1 \in At(h) PROVE FALSE
  <2>1. m1 >= m + h.blk[m].sz
    BY <1>2, <1>3 DEF Tile, Apart
  <2> QED BY <2>1, <1>1, <1>2
<1>4. after # NULL => after \in At(h) /\ h.blk[after].prev = m /\ after > m /\ after \in Int
  BY NextFacts
<1>5. after # m
  BY <1>1, <1>4, Codes
<1> QED BY <1>1, <1>2, <1>3, <1>4, <1>5, Codes DEF CanCut

LEMMA TileCut ==
  ASSUME NEW h \in Heaps, NEW one, Tile(h, one), NEW m \in At(h), NEW sz \in Int, Al(sz),
         sz >= DATAOFFSET, h.blk[m].sz >= sz + DATAOFFSET, NEW m1, m1 = m + sz, NEW after, after = h.blk[m].next,
         NEW j, Cut(j, h, m, sz, m1, after)
  PROVE  Tile(j, one)
<1>1. At(j) = At(h) \union {m1} /\ j.brk = h.brk /\ j \in Heaps
  BY DEF Cut, SameRest
<1>2. m1 \in Int /\ m1 \notin At(h) /\ m1 # NULL /\ after # m
  BY CutReady
<1>3. after # NULL => after \in At(h) /\ after \in Int /\ after = m + h.blk[m].sz /\ h.blk[after].prev = m
  BY NextFacts
<1>4. m \in Int /\ h.blk[m].sz \in Int /\ h.brk \in Int /\ m + h.blk[m].sz <= h.brk /\ m >= Base /\ Al(m)
  BY TileFacts
<1>5. /\ j.blk[m1].prev = m /\ j.blk[m1].next = after /\ j.blk[m1].sz = h.blk[m].sz - sz
      /\ m \in At(j) /\ m1 \in At(j) /\ j.blk[m].next = m1 /\ j.blk[m].sz = sz
  BY <1>1 DEF Cut, Header
<1>6. ASSUME NEW a \in At(h)
      PROVE  Placed(j, a) /\ NextOK(j, a) /\ PrevOK(j, a) /\ Apart(j, a) /\ (one => EndOK(j, a))
  <2>1. Placed(h, a) /\ NextOK(h, a) /\ PrevOK(h, a) /\ Apart(h, a) /\ (one => EndOK(h, a)) /\ a \in Int
    BY TileFacts DEF Tile
  <2>2. /\ j.blk[a].prev = (IF a = after THEN m1 ELSE h.blk[a].prev)
        /\ j.blk[a].next = (IF a = m THEN m1 ELSE h.blk[a].next)
        /\ j.blk[a].sz = (IF a = m THEN sz ELSE h.blk[a].sz) /\ a \in At(j)
    BY <1>1 DEF Cut
  <2>3. Placed(j, a)
    <3>1. CASE a = m
      <4>1. j.blk[a].sz = sz
        BY <3>1, <2>2
      <4> QED BY <4>1, <3>1, <1>1, <1>4, OffsetAligned DEF Placed
    <3>2. CASE a # m
      BY <3>2, <2>1, <2>2, <1>1, Zenon DEF Placed
    <3> QED BY <3>1, <3>2
  <2>4. NextOK(j, a)
    <3>1. CASE a = m
      BY <3>1, <1>5 DEF NextOK
    <3>2. CASE a # m
      <4> DEFINE n == h.blk[a].next
      <4> SUFFICES ASSUME n # NULL PROVE n \in At(j) /\ n = a + j.blk[a].sz /\ j.blk[n].prev = a
        BY <3>2, <2>2 DEF NextOK
      <4>1. n \in At(h) /\ n = a + h.blk[a].sz /\ h.blk[n].prev = a
        BY <2>1 DEF NextOK
      <4> HIDE DEF n
      <4>2. n # after
        BY <4>1, <3>2, <1>3
      <4>3. j.blk[n].prev = a /\ n \in At(j)
        BY <4>1, <4>2, <1>1 DEF Cut
      <4> QED BY <4>1, <4>3, <3>2, <2>2
    <3> QED BY <3>1, <3>2
  <2>5. PrevOK(j, a)
    <3>1. CASE a = after
      BY <3>1, <2>2, <1>5 DEF PrevOK
    <3>2. CASE a # after
      <4> DEFINE p == h.blk[a].prev
      <4> SUFFICES ASSUME p # NULL PROVE p \in At(j) /\ j.blk[p].next = a
        BY <3>2, <2>2 DEF PrevOK
      <4>1. p \in At(h) /\ h.blk[p].next = a
        BY <2>1 DEF PrevOK
      <4> HIDE DEF p
      <4>2. p # m
        BY <4>1, <3>2
      <4> QED BY <4>1, <4>2, <1>1 DEF Cut
    <3> QED BY <3>1, <3>2
  <2>6. Apart(j, a)
    <3> SUFFICES ASSUME NEW n \in At(j), n > a PROVE n >= a + j.blk[a].sz
      BY DEF Apart
    <3>1. CASE n \in At(h)
      <4>1. n >= a + h.blk[a].sz /\ n \in Int
        BY <3>1, <2>1, TileFacts DEF Apart
      <4>2. CASE a = m
        BY <4>1, <4>2, <2>2, <1>4, OffsetAligned
      <4>3. CASE a # m
        BY <4>1, <4>3, <2>2
      <4> QED BY <4>2, <4>3
    <3>2. CASE n = m1
      <4>1. CASE a = m
        BY <3>2, <4>1, <2>2, <1>4
      <4>2. CASE a # m
        <5>1. a <= m
          <6> SUFFICES ASSUME a > m PROVE FALSE
            BY <2>1, <1>4
          <6>1. a >= m + h.blk[m].sz
            BY DEF Tile, Apart
          <6> QED BY <6>1, <3>2, <2>1, <1>4, OffsetAligned
        <5>2. m > a
          BY <5>1, <4>2, <2>1, <1>4
        <5>3. m >= a + h.blk[a].sz
          BY <5>2, <2>1 DEF Apart
        <5>4. h.blk[a].sz \in Int
          BY BlockFields
        <5> QED BY <5>3, <5>4, <3>2, <4>2, <2>1, <2>2, <1>4, OffsetAligned
      <4> QED BY <4>1, <4>2
    <3> QED BY <3>1, <3>2, <1>1
  <2>7. ASSUME one PROVE EndOK(j, a)
    <3>1. CASE a = m
      BY <3>1, <2>2, <1>2 DEF EndOK
    <3>2. CASE a # m
      BY <3>2, <2>1, <2>2, <2>7, <1>1, Zenon DEF EndOK
    <3> QED BY <3>1, <3>2
  <2> QED BY <2>3, <2>4, <2>5, <2>6, <2>7
<1>7. Placed(j, m1)
  <2>1. Al(m1)
    BY <1>4, AlignedSum
  <2> QED BY <2>1, <1>1, <1>2, <1>4, <1>5, OffsetAligned, Halves DEF Placed
<1>8. NextOK(j, m1)
  <2> SUFFICES ASSUME after # NULL PROVE after \in At(j) /\ after = m1 + j.blk[m1].sz /\ j.blk[after].prev = m1
    BY <1>5 DEF NextOK
  <2>1. after \in At(j) /\ j.blk[after].prev = m1
    BY <1>1, <1>3 DEF Cut
  <2> QED BY <2>1, <1>2, <1>3, <1>4, <1>5
<1>9. PrevOK(j, m1)
  BY <1>5 DEF PrevOK
<1>10. Apart(j, m1)
  <2> SUFFICES ASSUME NEW n \in At(j), n > m1 PROVE n >= m1 + j.blk[m1].sz
    BY DEF Apart
  <2>1. n \in At(h) /\ n \in Int
    BY <1>1, <1>2, TileFacts
  <2>2. n > m
    BY <2>1, <1>2, <1>4, OffsetAligned
  <2>3. n >= m + h.blk[m].sz
    BY <2>1, <2>2 DEF Tile, Apart
  <2> QED BY <2>1, <2>3, <1>2, <1>4, <1>5
<1>11. ASSUME one PROVE EndOK(j, m1)
  <2>1. EndOK(h, m)
    BY <1>11 DEF Tile
  <2> QED BY <2>1, <1>1, <1>2, <1>4, <1>5 DEF EndOK
<1>12. j.brk >= Base /\ j.brk <= MaxBrk
  BY <1>1 DEF Tile
<1>13. ASSUME NEW a \in At(j)
       PROVE  Placed(j, a) /\ NextOK(j, a) /\ PrevOK(j, a) /\ Apart(j, a) /\ (one => EndOK(j, a))
  <2>1. CASE a \in At(h)
    BY <2>1, <1>6
  <2>2. CASE a = m1
    BY <2>2, <1>7, <1>8, <1>9, <1>10, <1>11
  <2> QED BY <2>1, <2>2, <1>1
<1> QED BY <1>12, <1>13 DEF Tile


\* The block that ends at the break grows with it.
LEMMA TileGrow ==
  ASSUME NEW h \in Heaps, NEW one, Tile(h, one), NEW m \in At(h), h.blk[m].next = NULL,
         m + h.blk[m].sz = h.brk, NEW n \in Nat, h.brk + n <= MaxBrk, NEW nextfree, NEW prevfree, NEW j,
         Changed(j, h, m, h.blk[m].sz + n, nextfree, prevfree), j.brk = h.brk + n
  PROVE  Tile(j, one)
<1>1. At(j) = At(h) /\ h.brk \in Int /\ h.brk >= Base
  BY HeapFacts DEF Changed, Tile
<1>2. m \in Int /\ h.blk[m].sz \in Nat /\ h.blk[m].sz >= DATAOFFSET
  BY TileFacts
<1>3. j.blk[m].prev = h.blk[m].prev /\ j.blk[m].next = NULL /\ j.blk[m].sz = h.blk[m].sz + n
  BY DEF Changed, Header
<1>4. \A a \in At(h) : j.blk[a].prev = h.blk[a].prev /\ j.blk[a].next = h.blk[a].next
  BY <1>3 DEF Changed
<1>5. ASSUME NEW a \in At(h), a # m PROVE a < m /\ a + h.blk[a].sz <= m /\ a + h.blk[a].sz < h.brk
  <2>1. a \in Int /\ h.blk[a].sz \in Nat /\ h.blk[a].sz >= DATAOFFSET /\ a + h.blk[a].sz <= h.brk
    BY TileFacts
  <2>2. a < m
    <3> SUFFICES ASSUME a > m PROVE FALSE
      BY <1>2, <1>5, <2>1
    <3>1. a >= m + h.blk[m].sz
      BY DEF Tile, Apart
    <3> QED BY <3>1, <2>1, <1>1, OffsetAligned
  <2>3. m >= a + h.blk[a].sz
    BY <2>1, <2>2, <1>2 DEF Tile, Apart
  <2> QED BY <2>1, <2>2, <2>3, <1>1, <1>2, OffsetAligned
<1>6. ASSUME NEW a \in At(h)
      PROVE  Placed(j, a) /\ NextOK(j, a) /\ PrevOK(j, a) /\ Apart(j, a) /\ (one => EndOK(j, a))
  <2>1. Placed(h, a) /\ NextOK(h, a) /\ PrevOK(h, a) /\ Apart(h, a) /\ (one => EndOK(h, a)) /\ a \in Int
        /\ h.blk[a].sz \in Nat
    BY TileFacts DEF Tile
  <2>2. PrevOK(j, a)
    BY <2>1, <1>1, <1>4 DEF PrevOK
  <2>3. CASE a = m
    <3>1. Placed(j, m)
      <4>1. m >= Base /\ Al(m) /\ m + (h.blk[m].sz + n) = j.brk /\ h.blk[m].sz + n >= DATAOFFSET
        BY <2>1, <2>3, <1>1, <1>2, OffsetAligned DEF Placed
      <4>2. j.brk \in Int
        BY <1>1
      <4> QED BY <4>1, <4>2, <1>3 DEF Placed
    <3>2. NextOK(j, m)
      BY <1>3 DEF NextOK
    <3>3. Apart(j, m)
      <4> SUFFICES ASSUME NEW b \in At(h), b > m PROVE FALSE
        BY <1>1 DEF Apart
      <4>1. b \in Int
        BY BlockFields
      <4>2. b # m
        BY <4>1, <1>2
      <4>3. b < m
        BY <4>2, <1>5
      <4> QED BY <4>1, <4>3, <1>2
    <3>4. EndOK(j, m)
      BY <1>1, <1>2, <1>3 DEF EndOK
    <3> QED BY <2>2, <2>3, <3>1, <3>2, <3>3, <3>4
  <2>4. CASE a # m
    <3>1. j.blk[a] = h.blk[a]
      BY <2>4 DEF Changed
    <3>2. Placed(j, a)
      BY <3>1, <2>1, <1>1 DEF Placed
    <3>3. NextOK(j, a)
      BY <3>1, <2>1, <1>1, <1>4 DEF NextOK
    <3>4. Apart(j, a)
      BY <3>1, <2>1, <1>1 DEF Apart
    <3>5. ASSUME one PROVE EndOK(j, a)
      <4>1. h.blk[a].next # NULL
        BY <3>5, <2>1, <2>4, <1>5 DEF EndOK
      <4> QED BY <4>1, <3>1 DEF EndOK
    <3> QED BY <2>2, <3>2, <3>3, <3>4, <3>5
  <2> QED BY <2>3, <2>4
<1>7. j.brk >= Base /\ j.brk <= MaxBrk
  BY <1>1, Halves
<1> QED BY <1>1, <1>6, <1>7 DEF Tile

\* A new area begins at or above the break.
LEMMA TileBegin ==
  ASSUME NEW h \in Heaps, NEW one, Tile(h, one), NEW m \in Int, m >= h.brk, Al(m), NEW n \in Nat,
         h.brk + n <= MaxBrk, NEW new \in Block, new.prev = NULL, new.next = NULL, new.sz >= DATAOFFSET,
         m + new.sz <= h.brk + n, one => At(h) = {} /\ m + new.sz = h.brk + n, NEW j, Added(j, h, m, n, new)
  PROVE  Tile(j, one) /\ m \notin At(h)
<1>1. At(j) = At(h) \union {m} /\ j.brk = h.brk + n /\ j.blk[m] = new /\ h.brk \in Int /\ h.brk >= Base
  BY HeapFacts DEF Added, Tile
<1>2. ASSUME NEW a \in At(h) PROVE a \in Int /\ h.blk[a].sz \in Nat /\ a + h.blk[a].sz <= m /\ a < m
  BY <1>1, TileFacts, OffsetAligned
<1>3. m \notin At(h)
  <2>1. ~ (m < m)
    OBVIOUS
  <2> QED BY <2>1, <1>2
<1>4. \A a \in At(h) : j.blk[a] = h.blk[a]
  BY DEF Added
<1>5. ASSUME NEW a \in At(h)
      PROVE  Placed(j, a) /\ NextOK(j, a) /\ PrevOK(j, a) /\ Apart(j, a) /\ (one => EndOK(j, a))
  <2>1. Placed(h, a) /\ NextOK(h, a) /\ PrevOK(h, a) /\ Apart(h, a) /\ j.blk[a] = h.blk[a]
    BY <1>4 DEF Tile
  <2>2. Placed(j, a)
    BY <2>1, <1>1, <1>2 DEF Placed
  <2>3. NextOK(j, a)
    BY <2>1, <1>1, <1>4 DEF NextOK
  <2>4. PrevOK(j, a)
    BY <2>1, <1>1, <1>4 DEF PrevOK
  <2>5. Apart(j, a)
    <3> SUFFICES ASSUME NEW b \in At(j), b > a PROVE b >= a + h.blk[a].sz
      BY <2>1 DEF Apart
    <3>1. CASE b = m
      BY <3>1, <1>2
    <3>2. CASE b \in At(h)
      BY <3>2, <2>1 DEF Apart
    <3> QED BY <3>1, <3>2, <1>1
  <2> QED BY <2>2, <2>3, <2>4, <2>5
<1>6. Placed(j, m) /\ NextOK(j, m) /\ PrevOK(j, m) /\ Apart(j, m) /\ (one => EndOK(j, m))
  <2>1. Placed(j, m)
    BY <1>1, Halves DEF Placed
  <2>2. NextOK(j, m) /\ PrevOK(j, m)
    BY <1>1 DEF NextOK, PrevOK
  <2>3. Apart(j, m)
    <3> SUFFICES ASSUME NEW b \in At(j), b > m PROVE FALSE
      BY DEF Apart
    <3> QED BY <1>1, <1>2
  <2>4. one => EndOK(j, m)
    BY <1>1 DEF EndOK
  <2> QED BY <2>1, <2>2, <2>3, <2>4
<1>7. j.brk >= Base /\ j.brk <= MaxBrk
  BY <1>1, Halves
<1>8. \A a \in At(j) : Placed(j, a) /\ NextOK(j, a) /\ PrevOK(j, a) /\ Apart(j, a) /\ (one => EndOK(j, a))
  BY <1>1, <1>5, <1>6
<1> QED BY <1>3, <1>7, <1>8 DEF Tile

\* The program moves the break.
LEMMA TileMove ==
  ASSUME NEW h \in Heaps, Tile(h, FALSE), NEW n \in Nat, h.brk + n <= MaxBrk
  PROVE  Tile(Moved(h, n), FALSE)
<1>1. PICK j : j = Moved(h, n)
  OBVIOUS
<1>2. j.blk = h.blk /\ At(j) = At(h) /\ j.brk = h.brk + n /\ h.brk \in Int
  <2>1. n \in Int
    OBVIOUS
  <2>2. h.brk \in Int
    BY HeapFacts
  <2>3. Moved(h, n).blk = h.blk /\ At(Moved(h, n)) = At(h) /\ Moved(h, n).brk = h.brk + n
    BY <2>1, MoveFacts
  <2> QED BY <2>2, <2>3, <1>1
<1>3. ASSUME NEW a \in At(h) PROVE Placed(j, a) /\ NextOK(j, a) /\ PrevOK(j, a) /\ Apart(j, a)
  <2>1. Placed(h, a) /\ NextOK(h, a) /\ PrevOK(h, a) /\ Apart(h, a)
    BY DEF Tile
  <2>2. Placed(j, a)
    <3>1. a \in Int /\ h.blk[a].sz \in Nat
      BY TileFacts
    <3>2. a >= Base /\ Al(a) /\ h.blk[a].sz >= DATAOFFSET /\ a + h.blk[a].sz <= h.brk
      BY <2>1 DEF Placed
    <3>3. a + h.blk[a].sz <= h.brk + n
      BY <3>1, <3>2, <1>2
    <3> QED BY <3>2, <3>3, <1>2 DEF Placed
  <2>3. NextOK(j, a) /\ PrevOK(j, a) /\ Apart(j, a)
    BY <2>1, <1>2, Zenon DEF NextOK, PrevOK, Apart
  <2> QED BY <2>2, <2>3
<1>4. j.brk >= Base /\ j.brk <= MaxBrk
  BY <1>2, Halves DEF Tile
<1> QED BY <1>1, <1>2, <1>3, <1>4 DEF Tile


-----------------------------------------------------------------------------
(* The free lists. *)

B(h, m) == size2bucket(h.blk[m].sz)
NextfreeOK(h, F, m) ==
  \/ h.blk[m].nextfree = NONE
  \/ /\ h.blk[m].nextfree \in F /\ h.blk[h.blk[m].nextfree].prevfree = m
     /\ B(h, h.blk[m].nextfree) = B(h, m)
PrevfreeOK(h, F, m) ==
  \/ h.blk[m].prevfree = NONE /\ h.freehdrs[B(h, m)] = m
  \/ h.blk[m].prevfree \in F /\ h.blk[h.blk[m].prevfree].nextfree = m
HeadOK(h, F, b) ==
  \/ h.freehdrs[b] = NULL
  \/ h.freehdrs[b] \in F /\ B(h, h.freehdrs[b]) = b /\ h.blk[h.freehdrs[b]].prevfree = NONE

\* The lists have no cycle: a rank falls along them.
Ranks(h, F, r) == r \in [F -> Int] /\ \A m \in F : h.blk[m].nextfree \in F => r[h.blk[m].nextfree] < r[m]

Buckets == 1..(NFLISTS - 1)

\* The lists hold the blocks F.
ListsOK(h, F) ==
  /\ F \subseteq At(h) /\ NONE \notin F /\ NULL \notin F
  /\ \A m \in F : NextfreeOK(h, F, m) /\ PrevfreeOK(h, F, m) /\ B(h, m) \in Buckets
  /\ \A b \in Buckets : HeadOK(h, F, b)
  /\ \E r : Ranks(h, F, r)

\* m goes, between p and n; what its own links are afterwards does not matter.
Unlinked(j, h, m, b, n, p) ==
  /\ SameChain(j, h)
  /\ \A a \in At(h) : a # m =>
       /\ j.blk[a].nextfree = (IF a = p /\ a # n THEN n ELSE h.blk[a].nextfree)
       /\ j.blk[a].prevfree = (IF a = n THEN p ELSE h.blk[a].prevfree)
  /\ j.freehdrs[b] = (IF p # NONE THEN h.freehdrs[b] ELSE IF n # NONE THEN n ELSE NULL)
  /\ \A c \in Buckets : c # b => j.freehdrs[c] = h.freehdrs[c]

LEMMA ListsUnlink ==
  ASSUME NEW h, NEW j, NEW F, ListsOK(h, F), NEW m \in F, NEW n, NEW p,
         n = h.blk[m].nextfree, p = h.blk[m].prevfree, Unlinked(j, h, m, B(h, m), n, p)
  PROVE  ListsOK(j, F \ {m})
<1> DEFINE G == F \ {m}
<1>0. PICK b \in Buckets : b = B(h, m) /\ Unlinked(j, h, m, b, n, p)
  BY DEF ListsOK
<1>1. F \subseteq At(h) /\ NONE \notin F /\ NULL \notin F /\ At(j) = At(h)
  BY DEF ListsOK, Unlinked, SameChain
<1>2. PICK r : Ranks(h, F, r)
  BY DEF ListsOK
<1>3. r \in [F -> Int] /\ \A a \in F : h.blk[a].nextfree \in F => r[h.blk[a].nextfree] < r[a]
  BY <1>2 DEF Ranks
<1>4. n = NONE \/ (n \in F /\ h.blk[n].prevfree = m /\ B(h, n) = b)
  BY <1>0 DEF ListsOK, NextfreeOK
<1>5. (p = NONE /\ h.freehdrs[b] = m) \/ (p \in F /\ h.blk[p].nextfree = m /\ B(h, p) = b)
  <2>1. (p = NONE /\ h.freehdrs[b] = m) \/ (p \in F /\ h.blk[p].nextfree = m)
    BY <1>0 DEF ListsOK, PrevfreeOK
  <2>2. ASSUME p \in F, h.blk[p].nextfree = m PROVE B(h, p) = b
    <3>1. NextfreeOK(h, F, p)
      BY <2>2 DEF ListsOK
    <3>2. m # NONE
      BY <1>1
    <3> QED BY <3>1, <3>2, <2>2, <1>0, Zenon DEF NextfreeOK
  <2> QED BY <2>1, <2>2
<1>6. (n \in F => r[n] < r[m]) /\ (p \in F => r[m] < r[p])
  BY <1>3, <1>5, <1>1
<1>7. n # m /\ p # m /\ (n \in F => n # p)
  <2>1. r[m] \in Int /\ (n \in F => r[n] \in Int)
    BY <1>3
  <2> QED BY <1>6, <2>1
<1>8. /\ \A a \in G : /\ j.blk[a].nextfree = (IF a = p THEN n ELSE h.blk[a].nextfree)
                      /\ j.blk[a].prevfree = (IF a = n THEN p ELSE h.blk[a].prevfree)
                      /\ j.blk[a].sz = h.blk[a].sz
      /\ j.freehdrs[b] = (IF p # NONE THEN h.freehdrs[b] ELSE IF n # NONE THEN n ELSE NULL)
      /\ \A c \in Buckets : c # b => j.freehdrs[c] = h.freehdrs[c]
  <2>1. ASSUME NEW a \in G
        PROVE  /\ j.blk[a].nextfree = (IF a = p THEN n ELSE h.blk[a].nextfree)
               /\ j.blk[a].prevfree = (IF a = n THEN p ELSE h.blk[a].prevfree)
               /\ j.blk[a].sz = h.blk[a].sz
    <3>1. a \in At(h) /\ a # m /\ a \in F
      BY <1>1
    <3>2. j.blk[a].sz = h.blk[a].sz
      BY <3>1, <1>0 DEF Unlinked, SameChain
    <3>3. /\ j.blk[a].nextfree = (IF a = p /\ a # n THEN n ELSE h.blk[a].nextfree)
          /\ j.blk[a].prevfree = (IF a = n THEN p ELSE h.blk[a].prevfree)
      BY <3>1, <1>0, Zenon DEF Unlinked
    <3>4. a = p => a # n
      BY <3>1, <1>7
    <3> QED BY <3>2, <3>3, <3>4
  <2>2. j.freehdrs[b] = (IF p # NONE THEN h.freehdrs[b] ELSE IF n # NONE THEN n ELSE NULL)
    BY <1>0 DEF Unlinked
  <2>3. \A c \in Buckets : c # b => j.freehdrs[c] = h.freehdrs[c]
    BY <1>0 DEF Unlinked
  <2> QED BY <2>1, <2>2, <2>3
<1>9. \A a \in G : B(j, a) = B(h, a)
  BY <1>8 DEF B
<1>10. ASSUME NEW a \in G PROVE NextfreeOK(j, G, a)
  <2>1. CASE a = p
    <3>1. j.blk[a].nextfree = n
      BY <2>1, <1>8
    <3>2. CASE n = NONE
      BY <3>1, <3>2 DEF NextfreeOK
    <3>3. CASE n # NONE
      <4>1. n \in G /\ B(h, n) = b
        BY <3>3, <1>4, <1>7
      <4>2. j.blk[n].prevfree = p
        BY <4>1, <1>8
      <4>3. B(h, a) = b
        BY <2>1, <1>1, <1>5
      <4> QED BY <3>1, <4>1, <4>2, <4>3, <2>1, <1>9 DEF NextfreeOK
    <3> QED BY <3>2, <3>3
  <2>2. CASE a # p
    <3>1. PICK v : v = h.blk[a].nextfree
      OBVIOUS
    <3>2. j.blk[a].nextfree = v
      BY <3>1, <2>2, <1>8
    <3>3. NextfreeOK(h, F, a)
      BY DEF ListsOK
    <3>4. CASE v = NONE
      BY <3>2, <3>4 DEF NextfreeOK
    <3>5. CASE v # NONE
      <4>1. v \in F /\ h.blk[v].prevfree = a /\ B(h, v) = B(h, a)
        BY <3>1, <3>3, <3>5 DEF NextfreeOK
      <4>2. v # m /\ v # n
        BY <4>1, <3>5, <2>2, <1>4
      <4>3. v \in G /\ j.blk[v].prevfree = a
        BY <4>1, <4>2, <1>8
      <4> QED BY <3>2, <4>1, <4>3, <1>9 DEF NextfreeOK
    <3> QED BY <3>4, <3>5
  <2> QED BY <2>1, <2>2
<1>11. ASSUME NEW a \in G PROVE PrevfreeOK(j, G, a)
  <2>1. CASE a = n
    <3>0. j.blk[a].prevfree = p /\ B(j, a) = b
      BY <2>1, <1>1, <1>4, <1>8, <1>9
    <3>1. CASE p = NONE
      <4>1. j.freehdrs[b] = a
        BY <3>1, <2>1, <1>1, <1>8
      <4> QED BY <3>0, <3>1, <4>1 DEF PrevfreeOK
    <3>2. CASE p # NONE
      <4>1. p \in G /\ j.blk[p].nextfree = n
        BY <3>2, <1>5, <1>7, <1>8
      <4> QED BY <3>0, <4>1, <2>1 DEF PrevfreeOK
    <3> QED BY <3>1, <3>2
  <2>2. CASE a # n
    <3>0. PICK u : u = h.blk[a].prevfree /\ j.blk[a].prevfree = u
      BY <2>2, <1>8
    <3>1. PrevfreeOK(h, F, a)
      BY DEF ListsOK
    <3>2. CASE u = NONE /\ h.freehdrs[B(h, a)] = a
      <4>1. B(h, a) \in Buckets
        BY DEF ListsOK
      <4>2. j.freehdrs[B(h, a)] = a
        <5>1. CASE B(h, a) = b
          <6>1. p # NONE
            BY <5>1, <3>2, <1>5, <1>1
          <6> QED BY <6>1, <5>1, <3>2, <1>8
        <5>2. CASE B(h, a) # b
          BY <5>2, <4>1, <3>2, <1>8
        <5> QED BY <5>1, <5>2
      <4> QED BY <3>0, <3>2, <4>2, <1>9 DEF PrevfreeOK
    <3>3. CASE u \in F /\ h.blk[u].nextfree = a
      <4>1. u # m /\ u # p
        BY <3>3, <2>2, <1>1, <1>5
      <4>2. u \in G /\ j.blk[u].nextfree = a
        BY <3>3, <4>1, <1>8
      <4> QED BY <3>0, <4>2 DEF PrevfreeOK
    <3> QED BY <3>0, <3>1, <3>2, <3>3 DEF PrevfreeOK
  <2> QED BY <2>1, <2>2
<1>12. ASSUME NEW c \in Buckets PROVE HeadOK(j, G, c)
  <2>0. HeadOK(h, F, c)
    BY DEF ListsOK
  <2>1. CASE c = b /\ p = NONE
    <3>1. CASE n = NONE
      BY <2>1, <3>1, <1>8 DEF HeadOK
    <3>2. CASE n # NONE
      <4>1. n \in G /\ j.freehdrs[c] = n /\ B(h, n) = b
        BY <2>1, <3>2, <1>4, <1>7, <1>8
      <4>2. j.blk[n].prevfree = NONE
        BY <4>1, <2>1, <1>8
      <4> QED BY <4>1, <4>2, <2>1, <1>9 DEF HeadOK
    <3> QED BY <3>1, <3>2
  <2>2. CASE c # b \/ p # NONE
    <3>1. PICK v : v = h.freehdrs[c] /\ j.freehdrs[c] = v
      BY <2>2, <1>8
    <3>2. CASE v = NULL
      BY <3>1, <3>2 DEF HeadOK
    <3>3. CASE v # NULL
      <4>1. v \in F /\ B(h, v) = c /\ h.blk[v].prevfree = NONE
        BY <3>1, <3>3, <2>0 DEF HeadOK
      <4>2. v # m
        BY <4>1, <2>2, <1>0
      <4>3. v # n
        BY <4>1, <1>1, <1>4
      <4>4. v \in G /\ j.blk[v].prevfree = NONE
        BY <4>1, <4>2, <4>3, <1>8
      <4> QED BY <3>1, <4>1, <4>4, <1>9 DEF HeadOK
    <3> QED BY <3>2, <3>3
  <2> QED BY <2>1, <2>2
<1>13. PICK s : s = [a \in G |-> r[a]]
  OBVIOUS
<1>14. Ranks(j, G, s)
  <2>1. s \in [G -> Int] /\ \A a \in G : s[a] = r[a]
    BY <1>3, <1>13
  <2>2. ASSUME NEW a \in G, j.blk[a].nextfree \in G PROVE s[j.blk[a].nextfree] < s[a]
    <3>1. PICK v : v = j.blk[a].nextfree /\ v \in G
      BY <2>2
    <3>2. r[v] < r[a]
      <4>1. CASE a = p
        <5>1. v = n /\ n \in F /\ p \in F
          BY <4>1, <3>1, <1>8
        <5>2. r[n] \in Int /\ r[m] \in Int /\ r[p] \in Int /\ r[n] < r[m] /\ r[m] < r[p]
          BY <5>1, <1>3, <1>6
        <5> QED BY <5>1, <5>2, <4>1
      <4>2. CASE a # p
        <5>1. v = h.blk[a].nextfree /\ v \in F /\ a \in F
          BY <4>2, <3>1, <1>8
        <5> QED BY <5>1, <1>3
      <4> QED BY <4>1, <4>2
    <3> QED BY <3>1, <3>2, <2>1
  <2> QED BY <2>1, <2>2 DEF Ranks
<1>15. G \subseteq At(j) /\ NONE \notin G /\ NULL \notin G /\ \A a \in G : B(j, a) \in Buckets
  BY <1>1, <1>9 DEF ListsOK
<1> HIDE DEF G
<1>16. ListsOK(j, G)
  BY <1>10, <1>11, <1>12, <1>14, <1>15 DEF ListsOK
<1> QED BY <1>16 DEF G


LEMMA ExtractedUnlinks ==
  ASSUME NEW h, NEW j, NEW m, NEW b, NEW n, NEW p, Extracted(j, h, m, b, n, p)
  PROVE  Unlinked(j, h, m, b, n, p)
<1>1. Buckets \subseteq Lists
  BY WidthAssumption DEF Buckets, Lists, NFLISTS
<1> QED BY <1>1, Zenon DEF Extracted, Unlinked

LEMMA TakenUnlinks ==
  ASSUME NEW h, NEW j, NEW m, NEW b, NEW n, Taken(j, h, m, b, n), NONE \notin At(h)
  PROVE  Unlinked(j, h, m, b, n, NONE)
<1>1. Buckets \subseteq Lists
  BY WidthAssumption DEF Buckets, Lists, NFLISTS
<1>2. SameChain(j, h) /\ j.freehdrs[b] = (IF n = NONE THEN NULL ELSE n)
      /\ \A c \in Lists : c # b => j.freehdrs[c] = h.freehdrs[c]
  BY DEF Taken
<1>3. ASSUME NEW a \in At(h), a # m
      PROVE  /\ j.blk[a].nextfree = (IF a = NONE /\ a # n THEN n ELSE h.blk[a].nextfree)
             /\ j.blk[a].prevfree = (IF a = n THEN NONE ELSE h.blk[a].prevfree)
  BY <1>3, Zenon DEF Taken
<1> QED BY <1>1, <1>2, <1>3, Zenon DEF Unlinked

\* Nothing on the lists changes.
SameOn(j, h, F) ==
  /\ F \subseteq At(j) /\ \A c \in Buckets : j.freehdrs[c] = h.freehdrs[c]
  /\ \A a \in F : /\ j.blk[a].sz = h.blk[a].sz /\ j.blk[a].nextfree = h.blk[a].nextfree
                  /\ j.blk[a].prevfree = h.blk[a].prevfree

LEMMA ListsKeep ==
  ASSUME NEW h, NEW j, NEW F, ListsOK(h, F), SameOn(j, h, F)
  PROVE  ListsOK(j, F)
<1>1. \A a \in F : B(j, a) = B(h, a)
  BY DEF SameOn, B
<1>2. ASSUME NEW a \in F PROVE NextfreeOK(j, F, a)
  <2>1. NextfreeOK(h, F, a)
    BY DEF ListsOK
  <2>2. PICK v : v = h.blk[a].nextfree /\ j.blk[a].nextfree = v
    BY DEF SameOn
  <2>3. CASE v = NONE
    BY <2>2, <2>3 DEF NextfreeOK
  <2>4. CASE v \in F /\ h.blk[v].prevfree = a /\ B(h, v) = B(h, a)
    <3>1. j.blk[v].prevfree = a
      BY <2>4 DEF SameOn
    <3> QED BY <2>2, <2>4, <3>1, <1>1 DEF NextfreeOK
  <2> QED BY <2>1, <2>2, <2>3, <2>4 DEF NextfreeOK
<1>3. ASSUME NEW a \in F PROVE PrevfreeOK(j, F, a)
  <2>1. PrevfreeOK(h, F, a) /\ B(h, a) \in Buckets
    BY DEF ListsOK
  <2>2. PICK u : u = h.blk[a].prevfree /\ j.blk[a].prevfree = u
    BY DEF SameOn
  <2>3. CASE u = NONE /\ h.freehdrs[B(h, a)] = a
    <3>1. j.freehdrs[B(j, a)] = a
      BY <2>1, <2>3, <1>1 DEF SameOn
    <3> QED BY <2>2, <2>3, <3>1 DEF PrevfreeOK
  <2>4. CASE u \in F /\ h.blk[u].nextfree = a
    <3>1. j.blk[u].nextfree = a
      BY <2>4 DEF SameOn
    <3> QED BY <2>2, <2>4, <3>1 DEF PrevfreeOK
  <2> QED BY <2>1, <2>2, <2>3, <2>4 DEF PrevfreeOK
<1>4. ASSUME NEW c \in Buckets PROVE HeadOK(j, F, c)
  <2>1. HeadOK(h, F, c)
    BY DEF ListsOK
  <2>2. PICK v : v = h.freehdrs[c] /\ j.freehdrs[c] = v
    BY DEF SameOn
  <2>3. CASE v = NULL
    BY <2>2, <2>3 DEF HeadOK
  <2>4. CASE v \in F /\ B(h, v) = c /\ h.blk[v].prevfree = NONE
    <3>1. j.blk[v].prevfree = NONE
      BY <2>4 DEF SameOn
    <3> QED BY <2>2, <2>4, <3>1, <1>1 DEF HeadOK
  <2> QED BY <2>1, <2>2, <2>3, <2>4 DEF HeadOK
<1>5. PICK r : Ranks(h, F, r)
  BY DEF ListsOK
<1>6. Ranks(j, F, r)
  <2>1. ASSUME NEW a \in F, j.blk[a].nextfree \in F PROVE r[j.blk[a].nextfree] < r[a]
    <3>1. j.blk[a].nextfree = h.blk[a].nextfree
      BY DEF SameOn
    <3> QED BY <3>1, <2>1, <1>5 DEF Ranks
  <2> QED BY <2>1, <1>5 DEF Ranks
<1>7. F \subseteq At(j) /\ NONE \notin F /\ NULL \notin F /\ \A a \in F : B(j, a) \in Buckets
  BY <1>1 DEF ListsOK, SameOn
<1> QED BY <1>2, <1>3, <1>4, <1>6, <1>7 DEF ListsOK

LEMMA ListsPut ==
  ASSUME NEW h, NEW j, NEW F, ListsOK(h, F), NEW m \in At(h), m \notin F, m # NULL, m # NONE, NEW b \in Buckets,
         b = B(h, m), NEW head, head = h.freehdrs[b], Listed(j, h, m, b, head)
  PROVE  ListsOK(j, F \union {m})
<1> DEFINE G == F \union {m}
<1>1. F \subseteq At(h) /\ NONE \notin F /\ NULL \notin F /\ At(j) = At(h)
  BY DEF ListsOK, Listed, SameChain
<1>2. head = NULL \/ (head \in F /\ B(h, head) = b /\ h.blk[head].prevfree = NONE)
  BY DEF ListsOK, HeadOK
<1>3. /\ \A a \in At(h) :
         /\ j.blk[a].nextfree = (IF a # m THEN h.blk[a].nextfree ELSE IF head # NULL THEN head ELSE NONE)
         /\ j.blk[a].prevfree = (IF a = m THEN NONE ELSE IF a = head THEN m ELSE h.blk[a].prevfree)
         /\ j.blk[a].sz = h.blk[a].sz
      /\ j.freehdrs[b] = m
      /\ \A c \in Buckets : c # b => j.freehdrs[c] = h.freehdrs[c]
  <2>1. Buckets \subseteq Lists
    BY WidthAssumption DEF Buckets, Lists, NFLISTS
  <2> QED BY <2>1, Zenon DEF Listed, SameChain
<1>4. \A a \in At(h) : B(j, a) = B(h, a)
  BY <1>3 DEF B
<1>5. ASSUME NEW a \in G PROVE NextfreeOK(j, G, a)
  <2>1. CASE a = m
    <3>1. CASE head = NULL
      BY <2>1, <3>1, <1>3 DEF NextfreeOK
    <3>2. CASE head # NULL
      <4>1. head \in F /\ head \in At(h) /\ head # m /\ B(h, head) = b
        BY <3>2, <1>1, <1>2
      <4>2. j.blk[m].nextfree = head /\ j.blk[head].prevfree = m
        BY <4>1, <3>2, <1>3
      <4>3. B(j, head) = B(j, m)
        BY <4>1, <1>4
      <4> QED BY <4>1, <4>2, <4>3, <2>1 DEF NextfreeOK
    <3> QED BY <3>1, <3>2
  <2>2. CASE a \in F
    <3>0. a # m /\ a \in At(h)
      BY <2>2, <1>1
    <3>1. NextfreeOK(h, F, a)
      BY <2>2 DEF ListsOK
    <3>2. PICK v : v = h.blk[a].nextfree /\ j.blk[a].nextfree = v
      BY <3>0, <1>3
    <3>3. CASE v = NONE
      BY <3>2, <3>3 DEF NextfreeOK
    <3>4. CASE v \in F /\ h.blk[v].prevfree = a /\ B(h, v) = B(h, a)
      <4>1. v # m /\ v # head /\ v \in At(h)
        BY <3>4, <2>2, <1>1, <1>2
      <4>2. j.blk[v].prevfree = a
        BY <3>4, <4>1, <1>3
      <4>3. B(j, v) = B(j, a)
        BY <3>0, <3>4, <4>1, <1>4
      <4> QED BY <3>2, <3>4, <4>2, <4>3 DEF NextfreeOK
    <3> QED BY <3>1, <3>2, <3>3, <3>4 DEF NextfreeOK
  <2> QED BY <2>1, <2>2
<1>6. ASSUME NEW a \in G PROVE PrevfreeOK(j, G, a)
  <2>1. CASE a = m
    <3>1. j.blk[m].prevfree = NONE /\ j.freehdrs[B(j, m)] = m
      BY <1>3, <1>4
    <3> QED BY <3>1, <2>1 DEF PrevfreeOK
  <2>2. CASE a \in F /\ a = head
    <3>1. a # m /\ a \in At(h) /\ a # NULL
      BY <2>2, <1>1
    <3>2. j.blk[a].prevfree = m /\ j.blk[m].nextfree = a
      BY <3>1, <2>2, <1>3
    <3> QED BY <3>2 DEF PrevfreeOK
  <2>3. CASE a \in F /\ a # head
    <3>0. a # m /\ a \in At(h)
      BY <2>3, <1>1
    <3>1. PrevfreeOK(h, F, a) /\ B(h, a) \in Buckets
      BY <2>3 DEF ListsOK
    <3>2. PICK u : u = h.blk[a].prevfree /\ j.blk[a].prevfree = u
      BY <3>0, <2>3, <1>3
    <3>3. CASE u = NONE /\ h.freehdrs[B(h, a)] = a
      <4>1. B(h, a) # b
        BY <3>3, <2>3
      <4>2. j.freehdrs[B(j, a)] = a
        BY <4>1, <3>0, <3>1, <3>3, <1>3, <1>4
      <4> QED BY <3>2, <3>3, <4>2 DEF PrevfreeOK
    <3>4. CASE u \in F /\ h.blk[u].nextfree = a
      <4>1. u # m /\ u \in At(h)
        BY <3>4, <1>1
      <4>2. j.blk[u].nextfree = a
        BY <4>1, <3>4, <1>3
      <4> QED BY <3>2, <3>4, <4>2 DEF PrevfreeOK
    <3> QED BY <3>1, <3>2, <3>3, <3>4 DEF PrevfreeOK
  <2> QED BY <2>1, <2>2, <2>3
<1>7. ASSUME NEW c \in Buckets PROVE HeadOK(j, G, c)
  <2>1. CASE c = b
    <3>1. j.freehdrs[c] = m /\ j.blk[m].prevfree = NONE /\ B(j, m) = c
      BY <2>1, <1>3, <1>4
    <3> QED BY <3>1 DEF HeadOK
  <2>2. CASE c # b
    <3>1. HeadOK(h, F, c)
      BY DEF ListsOK
    <3>2. PICK v : v = h.freehdrs[c] /\ j.freehdrs[c] = v
      BY <2>2, <1>3
    <3>3. CASE v = NULL
      BY <3>2, <3>3 DEF HeadOK
    <3>4. CASE v \in F /\ B(h, v) = c /\ h.blk[v].prevfree = NONE
      <4>1. v # m /\ v # head /\ v \in At(h)
        BY <3>4, <2>2, <1>1, <1>2
      <4>2. j.blk[v].prevfree = NONE /\ B(j, v) = c
        BY <4>1, <3>4, <1>3, <1>4
      <4> QED BY <3>2, <3>4, <4>2 DEF HeadOK
    <3> QED BY <3>1, <3>2, <3>3, <3>4 DEF HeadOK
  <2> QED BY <2>1, <2>2
<1>8. PICK r : Ranks(h, F, r)
  BY DEF ListsOK
<1>9. PICK k \in Int : head \in F => k > r[head]
  <2>1. CASE head \in F
    <3>1. r[head] \in Int
      BY <2>1, <1>8 DEF Ranks
    <3>2. r[head] + 1 \in Int /\ r[head] + 1 > r[head]
      BY <3>1
    <3> QED BY <3>2
  <2>2. CASE head \notin F
    BY <2>2
  <2> QED BY <2>1, <2>2
<1>10. PICK s : s = [a \in G |-> IF a = m THEN k ELSE r[a]]
  OBVIOUS
<1>11. Ranks(j, G, s)
  <2>1. s \in [G -> Int] /\ s[m] = k /\ \A a \in F : s[a] = r[a]
    BY <1>8, <1>10 DEF Ranks
  <2>2. ASSUME NEW a \in G, j.blk[a].nextfree \in G PROVE s[j.blk[a].nextfree] < s[a]
    <3>1. PICK v : v = j.blk[a].nextfree /\ v \in G
      BY <2>2
    <3>2. CASE a = m
      <4>1. v = head /\ head \in F
        <5>1. v = (IF head # NULL THEN head ELSE NONE)
          BY <3>1, <3>2, <1>3
        <5> QED BY <5>1, <3>1, <1>1, <1>2
      <4>2. r[head] \in Int
        BY <4>1, <1>8 DEF Ranks
      <4> QED BY <3>1, <3>2, <4>1, <4>2, <2>1, <1>9
    <3>3. CASE a \in F
      <4>1. a # m /\ a \in At(h)
        BY <3>3, <1>1
      <4>2. v = h.blk[a].nextfree
        BY <4>1, <3>1, <1>3
      <4>3. v \in F
        <5>1. NextfreeOK(h, F, a)
          BY <3>3 DEF ListsOK
        <5> QED BY <5>1, <4>2, <3>1, <1>1 DEF NextfreeOK
      <4>4. r[v] < r[a]
        BY <4>2, <4>3, <3>3, <1>8 DEF Ranks
      <4> QED BY <4>3, <4>4, <3>1, <3>3, <2>1
    <3> QED BY <3>2, <3>3
  <2> QED BY <2>1, <2>2 DEF Ranks
<1>12. G \subseteq At(j) /\ NONE \notin G /\ NULL \notin G /\ \A a \in G : B(j, a) \in Buckets
  BY <1>1, <1>4 DEF ListsOK
<1> HIDE DEF G
<1>13. ListsOK(j, G)
  BY <1>5, <1>6, <1>7, <1>11, <1>12 DEF ListsOK
<1> QED BY <1>13 DEF G


-----------------------------------------------------------------------------
(* A heap in the middle of a call: A are the allocated blocks, F the free ones, L is what
   is left of the last area, and x is a block that is none of these for the moment. *)

Lim(one) == IF one THEN MINSAVE ELSE DATAOFFSET

Parts(h, A, F, x, L) ==
  /\ At(h) = A \union F \union ({x, L} \ {NULL}) /\ A \intersect F = {}
  /\ x \notin A \union F /\ L \notin A \union F /\ (x # NULL => x # L)
Off(h, F, x) == \A m \in At(h) : m \notin F /\ m # x => h.blk[m].nextfree = NULL
Apart2(h, F, L) == \A m \in F : h.blk[m].next \notin F /\ (L # NULL => h.blk[m].next # L)
Sized(h, S, lim) == \A m \in S : h.blk[m].sz >= lim

State(h, A, F, x, L, one) ==
  /\ h \in Heaps /\ one \in BOOLEAN /\ Tile(h, one) /\ ListsOK(h, F) /\ Parts(h, A, F, x, L) /\ Off(h, F, x)
  /\ Apart2(h, F, L) /\ Sized(h, A, Lim(one)) /\ Sized(h, F, Lim(one))
  /\ L # NULL => h.blk[L].next = NULL

\* The allocations keep their sizes and what they hold.
Frame(j, h, A) == \A a \in A : j.blk[a].sz = h.blk[a].sz /\ j.blk[a].prevfree = h.blk[a].prevfree
SameTop(j, h) == lastsbrk(j) = lastsbrk(h) /\ j.bad = h.bad

LEMMA LimFacts ==
  ASSUME NEW one \in BOOLEAN
  PROVE  Lim(one) \in Nat /\ Lim(one) >= DATAOFFSET /\ Lim(one) <= MINSAVE /\ MINSAVE \in Nat /\ MINSAVE = ALIGN + DATAOFFSET
BY OffsetAligned DEF Lim, MINSAVE

LEMMA StateFacts ==
  ASSUME NEW h, NEW A, NEW F, NEW x, NEW L, NEW one, State(h, A, F, x, L, one)
  PROVE  /\ h \in Heaps /\ one \in BOOLEAN /\ Tile(h, one) /\ ListsOK(h, F)
         /\ A \subseteq At(h) /\ F \subseteq At(h) /\ (x # NULL => x \in At(h)) /\ (L # NULL => L \in At(h))
         /\ x \notin A /\ x \notin F /\ L \notin A /\ L \notin F /\ (x # NULL => x # L) /\ A \intersect F = {}
         /\ NULL \notin At(h) /\ NONE \notin At(h) /\ JUNK \notin At(h)
         /\ NULL \notin F /\ NONE \notin F /\ NULL \notin A
         /\ (L # NULL => h.blk[L].next = NULL)
<1>1. h \in Heaps /\ one \in BOOLEAN /\ Tile(h, one) /\ ListsOK(h, F) /\ (L # NULL => h.blk[L].next = NULL)
  BY DEF State
<1>2. NULL \notin At(h) /\ NONE \notin At(h) /\ JUNK \notin At(h)
  BY <1>1, NoBlockAtCode
<1>3. Parts(h, A, F, x, L)
  BY DEF State
<1>4. A \subseteq At(h) /\ F \subseteq At(h) /\ (x # NULL => x \in At(h)) /\ (L # NULL => L \in At(h))
  BY <1>3 DEF Parts
<1>5. x \notin A /\ x \notin F /\ L \notin A /\ L \notin F /\ (x # NULL => x # L) /\ A \intersect F = {}
  BY <1>3 DEF Parts
<1> QED BY <1>1, <1>2, <1>4, <1>5

\* A block changes its role.
LEMMA AtoX ==
  ASSUME NEW h, NEW A, NEW F, NEW L, NEW one, State(h, A, F, NULL, L, one), NEW m \in A
  PROVE  State(h, A \ {m}, F, m, L, one)
<1>1. m \in At(h) /\ m # NULL
  BY StateFacts
<1>2. Parts(h, A \ {m}, F, m, L)
  BY <1>1 DEF State, Parts
<1>3. Off(h, F, m) /\ Sized(h, A \ {m}, Lim(one))
  <2>1. NULL \notin At(h)
    BY StateFacts
  <2>2. Off(h, F, NULL) /\ Sized(h, A, Lim(one))
    BY DEF State
  <2>3. Off(h, F, m)
    BY <2>1, <2>2 DEF Off
  <2>4. Sized(h, A \ {m}, Lim(one))
    BY <2>2 DEF Sized
  <2> QED BY <2>3, <2>4
<1> QED BY <1>2, <1>3 DEF State

LEMMA XtoA ==
  ASSUME NEW h, NEW A, NEW F, NEW x, NEW L, NEW one, State(h, A, F, x, L, one), x # NULL,
         h.blk[x].nextfree = NULL, h.blk[x].sz >= Lim(one)
  PROVE  State(h, A \union {x}, F, NULL, L, one)
<1>1. Parts(h, A \union {x}, F, NULL, L)
  BY StateFacts DEF State, Parts
<1>2. Off(h, F, NULL) /\ Sized(h, A \union {x}, Lim(one))
  BY DEF State, Off, Sized
<1> QED BY <1>1, <1>2 DEF State

LEMMA LtoX ==
  ASSUME NEW h, NEW A, NEW F, NEW L, NEW one, State(h, A, F, NULL, L, one), L # NULL
  PROVE  State(h, A, F, L, NULL, one)
<1>1. Parts(h, A, F, L, NULL)
  <2>1. NULL \notin A /\ NULL \notin F
    BY StateFacts
  <2> QED BY <2>1 DEF State, Parts
<1>2. Off(h, F, L) /\ Apart2(h, F, NULL)
  <2>1. NULL \notin At(h)
    BY StateFacts
  <2>2. Off(h, F, NULL) /\ Apart2(h, F, L)
    BY DEF State
  <2>3. Off(h, F, L)
    BY <2>1, <2>2 DEF Off
  <2>4. Apart2(h, F, NULL)
    BY <2>2 DEF Apart2
  <2> QED BY <2>3, <2>4
<1> QED BY <1>1, <1>2 DEF State

LEMMA XtoL ==
  ASSUME NEW h, NEW A, NEW F, NEW x, NEW one, State(h, A, F, x, NULL, one), x # NULL,
         h.blk[x].nextfree = NULL, h.blk[x].next = NULL, h.blk[x].prev \notin F
  PROVE  State(h, A, F, NULL, x, one)
<1>0. x \in At(h) /\ h \in Heaps /\ Tile(h, one) /\ F \subseteq At(h) /\ NULL \notin A /\ NULL \notin F
  BY StateFacts
<1>1. Parts(h, A, F, NULL, x)
  BY <1>0 DEF State, Parts
<1>2. Off(h, F, NULL)
  BY DEF State, Off
<1>3. Apart2(h, F, x)
  <2> SUFFICES ASSUME NEW m \in F PROVE h.blk[m].next \notin F /\ h.blk[m].next # x
    BY DEF Apart2
  <2>1. h.blk[m].next \notin F /\ m \in At(h)
    BY <1>0 DEF State, Apart2
  <2>2. h.blk[m].next = x => h.blk[x].prev = m
    BY <2>1, <1>0, NextFacts
  <2> QED BY <2>1, <2>2
<1> QED BY <1>1, <1>2, <1>3 DEF State

\* The chain, the lists and the marks of A and L stay.
LEMMA StateKeep ==
  ASSUME NEW h, NEW A, NEW F, NEW x, NEW L, NEW one, State(h, A, F, x, L, one), NEW j \in Heaps,
         SameChain(j, h), SameOn(j, h, F),
         \A m \in At(h) : m \notin F /\ m # x => j.blk[m].nextfree = h.blk[m].nextfree
  PROVE  State(j, A, F, x, L, one)
<1>1. h \in Heaps /\ Tile(h, one) /\ ListsOK(h, F) /\ A \subseteq At(h) /\ F \subseteq At(h)
      /\ (L # NULL => L \in At(h) /\ h.blk[L].next = NULL)
  BY StateFacts
<1>2. Tile(j, one) /\ ListsOK(j, F)
  BY <1>1, TileKeep, ListsKeep
<1>3. At(j) = At(h) /\ \A a \in At(h) : j.blk[a].next = h.blk[a].next /\ j.blk[a].sz = h.blk[a].sz
  BY DEF SameChain
<1>4. Parts(j, A, F, x, L)
  BY <1>3 DEF State, Parts
<1>5. Off(j, F, x)
  BY <1>3 DEF State, Off
<1>6. Apart2(j, F, L) /\ Sized(j, A, Lim(one)) /\ Sized(j, F, Lim(one))
  <2>1. Apart2(h, F, L) /\ Sized(h, A, Lim(one)) /\ Sized(h, F, Lim(one))
    BY DEF State
  <2>2. Apart2(j, F, L)
    <3> SUFFICES ASSUME NEW m \in F PROVE j.blk[m].next \notin F /\ (L # NULL => j.blk[m].next # L)
      BY DEF Apart2
    <3>1. j.blk[m].next = h.blk[m].next
      BY <1>1, <1>3
    <3> QED BY <3>1, <2>1 DEF Apart2
  <2>3. Sized(j, A, Lim(one))
    BY <2>1, <1>1, <1>3 DEF Sized
  <2>4. Sized(j, F, Lim(one))
    BY <2>1, <1>1, <1>3 DEF Sized
  <2> QED BY <2>2, <2>3, <2>4
<1>7. L # NULL => j.blk[L].next = NULL
  BY <1>1, <1>3
<1>8. one \in BOOLEAN
  BY StateFacts
<1> QED BY <1>2, <1>4, <1>5, <1>6, <1>7, <1>8 DEF State


LEMMA BucketsAreLists == Buckets \subseteq Lists /\ 0 \in Lists /\ 0 \notin Buckets /\ \A c \in Lists : c # 0 => c \in Buckets
BY WidthAssumption DEF Buckets, Lists, NFLISTS

\* m is off the lists, and nothing else but the links of other free blocks changes.
OffTheLists(g, h, F, m) ==
  /\ g \in Heaps /\ SameChain(g, h) /\ SameTop(g, h) /\ ListsOK(g, F \ {m})
  /\ \A a \in At(h) : a \notin F => /\ g.blk[a].nextfree = h.blk[a].nextfree
                                    /\ g.blk[a].prevfree = h.blk[a].prevfree

LEMMA ExtractOK ==
  ASSUME NEW h, NEW A, NEW F, NEW x, NEW L, NEW one, State(h, A, F, x, L, one), NEW m \in F
  PROVE  /\ OffTheLists(extractfree(h, m), h, F, m)
         /\ extractfree(h, m).blk[m].nextfree = NULL /\ extractfree(h, m).blk[m].prevfree = NULL
<1>0. h \in Heaps /\ ListsOK(h, F) /\ m \in At(h) /\ NONE \notin At(h)
  BY StateFacts
<1>1. PICK n \in Int, p \in Int, b \in Buckets : n = h.blk[m].nextfree /\ p = h.blk[m].prevfree /\ b = B(h, m)
  <2>1. B(h, m) \in Buckets
    BY <1>0 DEF ListsOK
  <2> QED BY <2>1, <1>0, BlockFields
<1>2. b \in Lists /\ b # 0
  BY BucketsAreLists
<1>3. Between(h, m, b, n, p)
  BY <1>1 DEF Between, B
<1>4. PICK g : g = extractfree(h, m) /\ Extracted(g, h, m, b, n, p)
  BY <1>0, <1>2, <1>3, ExtractFacts
<1>5. ListsOK(g, F \ {m})
  <2>1. Unlinked(g, h, m, B(h, m), n, p)
    BY <1>1, <1>4, ExtractedUnlinks
  <2> QED BY <2>1, <1>0, <1>1, ListsUnlink
<1>6. (n \in F \/ n = NONE) /\ (p \in F \/ p = NONE)
  BY <1>0, <1>1 DEF ListsOK, NextfreeOK, PrevfreeOK
<1>7. ASSUME NEW a \in At(h), a \notin F
      PROVE  g.blk[a].nextfree = h.blk[a].nextfree /\ g.blk[a].prevfree = h.blk[a].prevfree
  <2>1. a # m /\ a # n /\ a # p
    BY <1>0, <1>6, <1>7
  <2> QED BY <2>1, <1>4, Zenon DEF Extracted
<1>8. g \in Heaps /\ SameChain(g, h) /\ g.bad = h.bad /\ g.blk[m].nextfree = NULL /\ g.blk[m].prevfree = NULL
  BY <1>0, <1>4 DEF Extracted
<1>9. SameTop(g, h)
  BY <1>2, <1>4, BucketsAreLists, Zenon DEF Extracted, SameTop, lastsbrk
<1>10. OffTheLists(g, h, F, m)
  BY <1>5, <1>7, <1>8, <1>9 DEF OffTheLists
<1> QED BY <1>4, <1>8, <1>10

\* Joining a block with the one above it, whatever that one was.
LEMMA JoinState ==
  ASSUME NEW h \in Heaps, NEW F, NEW one, Tile(h, one), ListsOK(h, F), NEW m \in At(h), NEW hi,
         hi = h.blk[m].next, hi # NULL, hi \notin F, m \notin F
  PROVE  /\ Joined(Join(h, m), h, m, hi, h.blk[hi].next) /\ Tile(Join(h, m), one) /\ ListsOK(Join(h, m), F)
         /\ Join(h, m).blk[m].prev = h.blk[m].prev /\ SameTop(Join(h, m), h)
<1>1. NULL \notin At(h)
  BY NoBlockAtCode
<1>2. hi \in At(h) /\ hi # m /\ hi > m /\ h.blk[hi].next # hi /\ h.blk[hi].next # m
  <2>1. hi \in At(h) /\ hi > m /\ h.blk[hi].next # hi /\ h.blk[hi].next # m
    BY NextFacts
  <2>2. m \in Int
    BY BlockFields
  <2> QED BY <2>1, <2>2
<1>3. PICK after : after = h.blk[hi].next
  OBVIOUS
<1>4. after \in (At(h) \ {hi}) \union {NULL}
  <2>1. after # NULL => after \in At(h)
    BY <1>2, <1>3 DEF Tile, NextOK
  <2> QED BY <2>1, <1>2, <1>3
<1>5. PICK j : j = Join(h, m) /\ Joined(j, h, m, hi, after)
  BY <1>1, <1>2, <1>3, <1>4, JoinFacts
<1>6. Tile(j, one)
  BY <1>3, <1>5, TileJoin
<1>7. F \subseteq At(h)
  BY DEF ListsOK
<1>8. SameOn(j, h, F)
  <2>1. F \subseteq At(j)
    BY <1>5, <1>7 DEF Joined
  <2>2. j.freehdrs = h.freehdrs
    BY <1>5 DEF Joined, SameRest
  <2>3. ASSUME NEW a \in F
        PROVE  /\ j.blk[a].sz = h.blk[a].sz /\ j.blk[a].nextfree = h.blk[a].nextfree
               /\ j.blk[a].prevfree = h.blk[a].prevfree
    <3>1. a \in At(j) /\ a # m
      BY <2>1
    <3> QED BY <3>1, <1>5, Zenon DEF Joined
  <2> QED BY <2>1, <2>2, <2>3, Zenon DEF SameOn
<1>9. ListsOK(j, F)
  BY <1>8, ListsKeep
<1>10. j.blk[m].prev = h.blk[m].prev
  <2>1. m \in At(j) /\ m # after
    BY <1>2, <1>3, <1>5 DEF Joined
  <2> QED BY <2>1, <1>5, Zenon DEF Joined
<1>11. SameTop(j, h)
  BY <1>5, Zenon DEF Joined, SameRest, SameTop, lastsbrk
<1> QED BY <1>3, <1>5, <1>6, <1>9, <1>10, <1>11


\* m has grown by hi, the block above it; other allocated blocks stay as they are.
Merged(j, h, F, m, hi) ==
  /\ j \in Heaps /\ At(j) = At(h) \ {hi} /\ SameTop(j, h) /\ m \in At(j)
  /\ j.blk[m].prev = h.blk[m].prev /\ j.blk[m].next = h.blk[hi].next
  /\ j.blk[m].sz = h.blk[m].sz + h.blk[hi].sz
  /\ \A a \in At(j) : a # m => j.blk[a].next = h.blk[a].next /\ j.blk[a].sz = h.blk[a].sz
  /\ \A a \in At(j) : a \notin F => /\ j.blk[a].nextfree = h.blk[a].nextfree
                                    /\ j.blk[a].prevfree = h.blk[a].prevfree

LEMMA MergedState ==
  ASSUME NEW h, NEW A, NEW F, NEW x, NEW L, NEW one, State(h, A, F, x, L, one),
         NEW j, NEW G, NEW m, NEW hi, NEW K,
         Merged(j, h, F, m, hi), Tile(j, one), ListsOK(j, G), G \subseteq F, F \subseteq G \union {m, hi},
         x \in {m, hi}, K \in {L, NULL}, Parts(j, A, G, m, K)
  PROVE  State(j, A, G, m, K, one) /\ Frame(j, h, A)
<1>1. m # NULL /\ m \in At(j) /\ A \subseteq At(j) /\ G \subseteq At(j) /\ m \notin A /\ m \notin G
      /\ (K # NULL => K \in At(j) /\ K # m)
  <2>1. NULL \notin At(h)
    BY StateFacts
  <2> QED BY <2>1 DEF Merged, Parts
<1>2. \A a \in At(j) : a # m => j.blk[a].next = h.blk[a].next /\ j.blk[a].sz = h.blk[a].sz
  BY DEF Merged
<1>3. Off(j, G, m)
  <2> SUFFICES ASSUME NEW a \in At(j), a \notin G, a # m PROVE j.blk[a].nextfree = NULL
    BY DEF Off
  <2>1. a \in At(h) /\ a # hi
    BY DEF Merged
  <2>2. a \notin F /\ a # x
    BY <2>1
  <2>3. h.blk[a].nextfree = NULL
    BY <2>1, <2>2 DEF State, Off
  <2> QED BY <2>2, <2>3 DEF Merged
<1>4. Apart2(j, G, K)
  <2> SUFFICES ASSUME NEW a \in G PROVE j.blk[a].next \notin G /\ (K # NULL => j.blk[a].next # K)
    BY DEF Apart2
  <2>1. j.blk[a].next = h.blk[a].next
    BY <1>1, <1>2
  <2>2. h.blk[a].next \notin F /\ (L # NULL => h.blk[a].next # L)
    BY DEF State, Apart2
  <2> QED BY <2>1, <2>2
<1>5. Sized(j, A, Lim(one)) /\ Sized(j, G, Lim(one))
  <2>1. Sized(h, A, Lim(one)) /\ Sized(h, F, Lim(one))
    BY DEF State
  <2>2. ASSUME NEW a \in A PROVE j.blk[a].sz >= Lim(one)
    <3>1. j.blk[a].sz = h.blk[a].sz
      BY <1>1, <1>2
    <3> QED BY <3>1, <2>1 DEF Sized
  <2>3. ASSUME NEW a \in G PROVE j.blk[a].sz >= Lim(one)
    <3>1. j.blk[a].sz = h.blk[a].sz /\ a \in F
      BY <1>1, <1>2
    <3> QED BY <3>1, <2>1 DEF Sized
  <2> QED BY <2>2, <2>3 DEF Sized
<1>6. K # NULL => j.blk[K].next = NULL
  <2> SUFFICES ASSUME K # NULL PROVE j.blk[K].next = NULL
    OBVIOUS
  <2>1. h.blk[K].next = NULL
    BY StateFacts
  <2> QED BY <2>1, <1>1, <1>2
<1>7. j \in Heaps /\ one \in BOOLEAN
  BY StateFacts DEF Merged
<1>8. Frame(j, h, A)
  <2> SUFFICES ASSUME NEW a \in A PROVE j.blk[a].sz = h.blk[a].sz /\ j.blk[a].prevfree = h.blk[a].prevfree
    BY DEF Frame
  <2>1. a \in At(j) /\ a # m /\ a \notin F
    BY <1>1, StateFacts
  <2> QED BY <2>1, <1>2 DEF Merged
<1> QED BY <1>3, <1>4, <1>5, <1>6, <1>7, <1>8 DEF State

\* Joins x with the free block above it.
LEMMA JoinFree ==
  ASSUME NEW h, NEW A, NEW F, NEW x, NEW L, NEW one, State(h, A, F, x, L, one), x # NULL,
         NEW hi \in F, hi = h.blk[x].next, NEW j, j = Join(extractfree(h, hi), x)
  PROVE  /\ State(j, A, F \ {hi}, x, L, one) /\ Frame(j, h, A) /\ Merged(j, h, F, x, hi)
         /\ h.blk[hi].next \notin F /\ (L # NULL => h.blk[hi].next # L)
<1>0. h \in Heaps /\ x \in At(h) /\ hi \in At(h) /\ x \notin F /\ hi # NULL /\ Tile(h, one) /\ one \in BOOLEAN /\ x # hi
  BY StateFacts
<1>1. PICK g : g = extractfree(h, hi) /\ OffTheLists(g, h, F, hi)
  BY ExtractOK
<1>2. g \in Heaps /\ SameChain(g, h) /\ ListsOK(g, F \ {hi}) /\ SameTop(g, h)
  BY <1>1 DEF OffTheLists
<1>3. Tile(g, one)
  BY <1>0, <1>2, TileKeep
<1>4. At(g) = At(h) /\ \A a \in At(h) : g.blk[a].prev = h.blk[a].prev /\ g.blk[a].next = h.blk[a].next /\ g.blk[a].sz = h.blk[a].sz
  BY <1>2 DEF SameChain
<1>5. hi = g.blk[x].next /\ x \in At(g) /\ hi \notin F \ {hi} /\ x \notin F \ {hi}
  BY <1>0, <1>4
<1>6. /\ Joined(j, g, x, hi, g.blk[hi].next) /\ Tile(j, one) /\ ListsOK(j, F \ {hi})
      /\ j.blk[x].prev = g.blk[x].prev /\ SameTop(j, g)
  <2>1. PICK G : G = F \ {hi}
    OBVIOUS
  <2>2. ListsOK(g, G) /\ x \notin G /\ hi \notin G /\ j = Join(g, x) /\ hi # NULL
    BY <2>1, <1>0, <1>1, <1>2, <1>5
  <2>3. /\ Joined(Join(g, x), g, x, hi, g.blk[hi].next) /\ Tile(Join(g, x), one) /\ ListsOK(Join(g, x), G)
        /\ Join(g, x).blk[x].prev = g.blk[x].prev /\ SameTop(Join(g, x), g)
    BY <2>2, <1>2, <1>3, <1>5, JoinState
  <2> QED BY <2>1, <2>2, <2>3
<1>7. Merged(j, h, F, x, hi)
  <2>1. j \in Heaps /\ At(j) = At(h) \ {hi} /\ x \in At(j)
    BY <1>0, <1>4, <1>6 DEF Joined
  <2>2. SameTop(j, h)
    BY <1>2, <1>6, Zenon DEF SameTop
  <2>3. j.blk[x].prev = h.blk[x].prev /\ j.blk[x].next = h.blk[hi].next /\ j.blk[x].sz = h.blk[x].sz + h.blk[hi].sz
    <3>1. j.blk[x].next = g.blk[hi].next /\ j.blk[x].sz = g.blk[x].sz + g.blk[hi].sz
      BY <2>1, <1>6 DEF Joined
    <3> QED BY <3>1, <1>0, <1>4, <1>6
  <2>4. ASSUME NEW a \in At(j), a # x PROVE j.blk[a].next = h.blk[a].next /\ j.blk[a].sz = h.blk[a].sz
    <3>1. j.blk[a].next = g.blk[a].next /\ j.blk[a].sz = g.blk[a].sz
      BY <2>4, <1>6 DEF Joined
    <3> QED BY <3>1, <2>1, <1>4
  <2>5. ASSUME NEW a \in At(j), a \notin F
        PROVE  j.blk[a].nextfree = h.blk[a].nextfree /\ j.blk[a].prevfree = h.blk[a].prevfree
    <3>1. j.blk[a].nextfree = g.blk[a].nextfree /\ j.blk[a].prevfree = g.blk[a].prevfree
      BY <1>6 DEF Joined
    <3>2. g.blk[a].nextfree = h.blk[a].nextfree /\ g.blk[a].prevfree = h.blk[a].prevfree
      BY <2>1, <2>5, <1>1 DEF OffTheLists
    <3> QED BY <3>1, <3>2
  <2> QED BY <2>1, <2>2, <2>3, <2>4, <2>5 DEF Merged
<1>8. Parts(j, A, F \ {hi}, x, L)
  <2>1. At(j) = At(h) \ {hi}
    BY <1>7 DEF Merged
  <2>2. Parts(h, A, F, x, L) /\ hi \notin A /\ hi # L
    BY StateFacts DEF State
  <2> QED BY <2>1, <2>2, <1>0 DEF Parts
<1>9. State(j, A, F \ {hi}, x, L, one) /\ Frame(j, h, A)
  <2>1. F \ {hi} \subseteq F /\ F \subseteq (F \ {hi}) \union {x, hi} /\ x \in {x, hi} /\ L \in {L, NULL}
    OBVIOUS
  <2> QED BY <2>1, <1>6, <1>7, <1>8, MergedState
<1>10. h.blk[hi].next \notin F /\ (L # NULL => h.blk[hi].next # L)
  BY DEF State, Apart2
<1> QED BY <1>7, <1>9, <1>10

\* Joins x with the free block below it.
LEMMA JoinDown ==
  ASSUME NEW h, NEW A, NEW F, NEW x, NEW L, NEW one, State(h, A, F, x, L, one), x # NULL,
         NEW lo \in F, lo = h.blk[x].prev, NEW j, j = Join(extractfree(h, lo), lo)
  PROVE  /\ State(j, A, F \ {lo}, lo, L, one) /\ Frame(j, h, A) /\ Merged(j, h, F, lo, x)
         /\ h.blk[lo].prev \notin F /\ j.blk[lo].nextfree = NULL /\ lo \in At(j)
<1>0. h \in Heaps /\ x \in At(h) /\ lo \in At(h) /\ x \notin F /\ lo # NULL /\ Tile(h, one) /\ one \in BOOLEAN /\ x # lo
      /\ F \subseteq At(h) /\ NULL \notin F
  BY StateFacts
<1>1. PICK g : g = extractfree(h, lo) /\ OffTheLists(g, h, F, lo) /\ g.blk[lo].nextfree = NULL
  BY ExtractOK
<1>2. g \in Heaps /\ SameChain(g, h) /\ ListsOK(g, F \ {lo}) /\ SameTop(g, h)
  BY <1>1 DEF OffTheLists
<1>3. Tile(g, one)
  BY <1>0, <1>2, TileKeep
<1>4. At(g) = At(h) /\ \A a \in At(h) : g.blk[a].prev = h.blk[a].prev /\ g.blk[a].next = h.blk[a].next /\ g.blk[a].sz = h.blk[a].sz
  BY <1>2 DEF SameChain
<1>5. x = g.blk[lo].next /\ lo \in At(g) /\ x \notin F \ {lo} /\ lo \notin F \ {lo}
  <2>1. h.blk[lo].next = x
    BY <1>0, PrevFacts
  <2> QED BY <2>1, <1>0, <1>4
<1>6. /\ Joined(j, g, lo, x, g.blk[x].next) /\ Tile(j, one) /\ ListsOK(j, F \ {lo})
      /\ j.blk[lo].prev = g.blk[lo].prev /\ SameTop(j, g)
  <2>1. PICK G : G = F \ {lo}
    OBVIOUS
  <2>2. ListsOK(g, G) /\ lo \notin G /\ x \notin G /\ j = Join(g, lo) /\ x # NULL
    BY <2>1, <1>0, <1>1, <1>2, <1>5
  <2>3. /\ Joined(Join(g, lo), g, lo, x, g.blk[x].next) /\ Tile(Join(g, lo), one) /\ ListsOK(Join(g, lo), G)
        /\ Join(g, lo).blk[lo].prev = g.blk[lo].prev /\ SameTop(Join(g, lo), g)
    BY <2>2, <1>2, <1>3, <1>5, JoinState
  <2> QED BY <2>1, <2>2, <2>3
<1>7. Merged(j, h, F, lo, x)
  <2>1. j \in Heaps /\ At(j) = At(h) \ {x} /\ lo \in At(j)
    BY <1>0, <1>4, <1>6 DEF Joined
  <2>2. SameTop(j, h)
    BY <1>2, <1>6, Zenon DEF SameTop
  <2>3. j.blk[lo].prev = h.blk[lo].prev /\ j.blk[lo].next = h.blk[x].next /\ j.blk[lo].sz = h.blk[lo].sz + h.blk[x].sz
    <3>1. j.blk[lo].next = g.blk[x].next /\ j.blk[lo].sz = g.blk[lo].sz + g.blk[x].sz
      BY <2>1, <1>6 DEF Joined
    <3> QED BY <3>1, <1>0, <1>4, <1>6
  <2>4. ASSUME NEW a \in At(j), a # lo PROVE j.blk[a].next = h.blk[a].next /\ j.blk[a].sz = h.blk[a].sz
    <3>1. j.blk[a].next = g.blk[a].next /\ j.blk[a].sz = g.blk[a].sz
      BY <2>4, <1>6 DEF Joined
    <3> QED BY <3>1, <2>1, <1>4
  <2>5. ASSUME NEW a \in At(j), a \notin F
        PROVE  j.blk[a].nextfree = h.blk[a].nextfree /\ j.blk[a].prevfree = h.blk[a].prevfree
    <3>1. j.blk[a].nextfree = g.blk[a].nextfree /\ j.blk[a].prevfree = g.blk[a].prevfree
      BY <1>6 DEF Joined
    <3>2. g.blk[a].nextfree = h.blk[a].nextfree /\ g.blk[a].prevfree = h.blk[a].prevfree
      BY <2>1, <2>5, <1>1 DEF OffTheLists
    <3> QED BY <3>1, <3>2
  <2> QED BY <2>1, <2>2, <2>3, <2>4, <2>5 DEF Merged
<1>8. Parts(j, A, F \ {lo}, lo, L)
  <2>1. At(j) = At(h) \ {x}
    BY <1>7 DEF Merged
  <2>2. Parts(h, A, F, x, L) /\ lo \notin A /\ lo # L /\ x # L
    BY StateFacts DEF State
  <2> QED BY <2>1, <2>2, <1>0 DEF Parts
<1>9. State(j, A, F \ {lo}, lo, L, one) /\ Frame(j, h, A)
  <2>1. F \ {lo} \subseteq F /\ F \subseteq (F \ {lo}) \union {lo, x} /\ x \in {lo, x} /\ L \in {L, NULL}
    OBVIOUS
  <2> QED BY <2>1, <1>6, <1>7, <1>8, MergedState
<1>10. h.blk[lo].prev \notin F
  <2> SUFFICES ASSUME h.blk[lo].prev \in F PROVE FALSE
    OBVIOUS
  <2>1. PICK q : q = h.blk[lo].prev /\ q \in F /\ q # NULL
    BY <1>0
  <2>2. h.blk[q].next = lo
    BY <2>1, <1>0, PrevFacts
  <2> QED BY <2>1, <2>2 DEF State, Apart2
<1>11. lo \in At(j) /\ j.blk[lo].nextfree = NULL
  BY <1>0, <1>1, <1>4, <1>6 DEF Joined
<1> QED BY <1>7, <1>9, <1>10, <1>11

\* Joins x with what is left of the last area, above it.
LEMMA JoinLast ==
  ASSUME NEW h, NEW A, NEW F, NEW x, NEW L, NEW one, State(h, A, F, x, L, one), x # NULL,
         L = h.blk[x].next, L # NULL, NEW j, j = Join(h, x)
  PROVE  /\ State(j, A, F, x, NULL, one) /\ Frame(j, h, A) /\ Merged(j, h, F, x, L) /\ j.blk[x].next = NULL
<1>0. h \in Heaps /\ x \in At(h) /\ L \in At(h) /\ x \notin F /\ L \notin F /\ Tile(h, one) /\ one \in BOOLEAN /\ x # L
      /\ ListsOK(h, F) /\ h.blk[L].next = NULL
  BY StateFacts
<1>1. /\ Joined(j, h, x, L, h.blk[L].next) /\ Tile(j, one) /\ ListsOK(j, F)
      /\ j.blk[x].prev = h.blk[x].prev /\ SameTop(j, h)
  BY <1>0, JoinState
<1>2. Merged(j, h, F, x, L)
  <2>1. j \in Heaps /\ At(j) = At(h) \ {L} /\ x \in At(j)
    BY <1>0, <1>1 DEF Joined
  <2>2. j.blk[x].next = h.blk[L].next /\ j.blk[x].sz = h.blk[x].sz + h.blk[L].sz
    BY <2>1, <1>1 DEF Joined
  <2>3. \A a \in At(j) : a # x => j.blk[a].next = h.blk[a].next /\ j.blk[a].sz = h.blk[a].sz
    BY <1>1, Zenon DEF Joined
  <2>4. \A a \in At(j) : j.blk[a].nextfree = h.blk[a].nextfree /\ j.blk[a].prevfree = h.blk[a].prevfree
    BY <1>1, Zenon DEF Joined
  <2> QED BY <2>1, <2>2, <2>3, <2>4, <1>1 DEF Merged
<1>3. Parts(j, A, F, x, NULL)
  <2>1. At(j) = At(h) \ {L}
    BY <1>2 DEF Merged
  <2>2. Parts(h, A, F, x, L) /\ NULL \notin A /\ NULL \notin F
    BY StateFacts DEF State
  <2> QED BY <2>1, <2>2, <1>0 DEF Parts
<1>4. State(j, A, F, x, NULL, one) /\ Frame(j, h, A)
  <2>1. F \subseteq F /\ F \subseteq F \union {x, L} /\ x \in {x, L} /\ NULL \in {L, NULL}
    OBVIOUS
  <2> QED BY <2>1, <1>1, <1>2, <1>3, MergedState
<1> QED BY <1>0, <1>2, <1>4 DEF Merged


\* Nothing but the links of free blocks, x and the heads of the lists changes.
Relisted(j, h, A, F, x, L) ==
  /\ j \in Heaps /\ SameChain(j, h) /\ SameTop(j, h)
  /\ \A a \in At(h) : a \notin F /\ a # x => j.blk[a].nextfree = h.blk[a].nextfree /\ j.blk[a].prevfree = h.blk[a].prevfree

LEMMA RelistedState ==
  ASSUME NEW h, NEW A, NEW F, NEW x, NEW L, NEW one, State(h, A, F, x, L, one), NEW j, NEW y, NEW z, NEW G,
         Relisted(j, h, A, F, y, L), ListsOK(j, G), Parts(h, A, G, z, L), F \subseteq G \union {y},
         G \subseteq F \union {y}, x \in {y, NULL}, z \in {y, NULL}, y # NULL, y \in At(h),
         z = NULL => y \in G, Apart2(h, G, L), Sized(h, G, Lim(one))
  PROVE  State(j, A, G, z, L, one) /\ Frame(j, h, A)
<1>0. h \in Heaps /\ Tile(h, one) /\ one \in BOOLEAN /\ j \in Heaps /\ SameChain(j, h) /\ NULL \notin At(h)
      /\ A \subseteq At(h) /\ (L # NULL => L \in At(h) /\ h.blk[L].next = NULL)
  BY StateFacts DEF Relisted
<1>1. At(j) = At(h) /\ \A a \in At(h) : j.blk[a].next = h.blk[a].next /\ j.blk[a].sz = h.blk[a].sz
  BY <1>0 DEF SameChain
<1>2. Tile(j, one)
  BY <1>0, TileKeep
<1>3. Parts(j, A, G, z, L) /\ G \subseteq At(h)
  BY <1>1 DEF Parts
<1>4. Off(j, G, z)
  <2> SUFFICES ASSUME NEW a \in At(h), a \notin G, a # z PROVE j.blk[a].nextfree = NULL
    BY <1>1 DEF Off
  <2>1. a # y /\ a \notin F /\ a # x
    BY <1>0
  <2>2. h.blk[a].nextfree = NULL
    BY <2>1 DEF State, Off
  <2> QED BY <2>1, <2>2 DEF Relisted
<1>5. Apart2(j, G, L)
  BY <1>1, <1>3 DEF Apart2
<1>6. Sized(j, G, Lim(one))
  BY <1>1, <1>3 DEF Sized
<1>7. Sized(j, A, Lim(one))
  <2>1. Sized(h, A, Lim(one))
    BY DEF State
  <2> QED BY <2>1, <1>0, <1>1 DEF Sized
<1>8. Frame(j, h, A)
  <2> SUFFICES ASSUME NEW a \in A PROVE j.blk[a].sz = h.blk[a].sz /\ j.blk[a].prevfree = h.blk[a].prevfree
    BY DEF Frame
  <2>1. a \in At(h) /\ a \notin F
    BY <1>0, StateFacts
  <2>2. a # y
    BY DEF Parts
  <2> QED BY <2>1, <2>2, <1>1 DEF Relisted
<1>9. L # NULL => j.blk[L].next = NULL
  BY <1>0, <1>1
<1> QED BY <1>0, <1>2, <1>3, <1>4, <1>5, <1>6, <1>7, <1>8, <1>9 DEF State

\* x is large enough for a free block, and its neighbours are not free.
Loose(h, F, x, L, one) ==
  /\ x # NULL /\ h.blk[x].prev \notin F /\ h.blk[x].next \notin F /\ (L # NULL => h.blk[x].next # L)
  /\ h.blk[x].sz >= Lim(one)

\* x goes to its list.
LEMMA PutX ==
  ASSUME NEW h, NEW A, NEW F, NEW x, NEW L, NEW one, State(h, A, F, x, L, one), Loose(h, F, x, L, one),
         NEW j, j = PutOnList(h, x)
  PROVE  /\ State(j, A, F \union {x}, NULL, L, one) /\ Frame(j, h, A) /\ SameTop(j, h) /\ SameChain(j, h)
         /\ (L # NULL => j.blk[L].prevfree = h.blk[L].prevfree)
<1> USE DEF Loose
<1>0. h \in Heaps /\ Tile(h, one) /\ ListsOK(h, F) /\ x \in At(h) /\ x \notin F /\ NULL \notin At(h) /\ NONE \notin At(h)
      /\ F \subseteq At(h) /\ x \notin A /\ x # L /\ NULL \notin A /\ NULL \notin F
  BY StateFacts
<1>1. PICK b \in Buckets : b = B(h, x)
  <2>1. h.blk[x].sz \in Nat /\ h.blk[x].sz >= DATAOFFSET /\ h.blk[x].sz < pow2[W - 1]
    BY <1>0, TileFacts
  <2>2. size2bucket(h.blk[x].sz) \in 2..(NFLISTS - 1)
    BY <2>1, BucketRange
  <2>3. B(h, x) \in Buckets
    BY <2>2 DEF B, Buckets
  <2> QED BY <2>3
<1>2. PICK head : head = h.freehdrs[b]
  OBVIOUS
<1>3. head = NULL \/ head \in F
  BY <1>0, <1>2 DEF ListsOK, HeadOK
<1>4. Listed(j, h, x, b, head)
  <2>1. head \in At(h) \union {NULL} /\ head # x /\ b \in Lists
    BY <1>0, <1>3, BucketsAreLists
  <2>2. Before(h, x, b, head)
    BY <1>1, <1>2 DEF Before, B
  <2> QED BY <2>1, <2>2, <1>0, ListFacts
<1>5. ListsOK(j, F \union {x})
  <2>1. x # NONE
    BY <1>0
  <2> QED BY <2>1, <1>0, <1>1, <1>2, <1>4, ListsPut
<1>6. Relisted(j, h, A, F, x, L)
  <2>1. j \in Heaps /\ SameChain(j, h) /\ j.bad = h.bad
    BY <1>4 DEF Listed
  <2>2. lastsbrk(j) = lastsbrk(h)
    BY <1>4, BucketsAreLists, Zenon DEF Listed, lastsbrk
  <2>3. ASSUME NEW a \in At(h), a \notin F, a # x
        PROVE  j.blk[a].nextfree = h.blk[a].nextfree /\ j.blk[a].prevfree = h.blk[a].prevfree
    <3>1. a # head
      BY <2>3, <1>0, <1>3
    <3> QED BY <3>1, <2>3, <1>4 DEF Listed
  <2> QED BY <2>1, <2>2, <2>3 DEF Relisted, SameTop
<1>7. Parts(h, A, F \union {x}, NULL, L)
  BY <1>0 DEF State, Parts
<1>8. Apart2(h, F \union {x}, L)
  <2> SUFFICES ASSUME NEW a \in F \union {x}
               PROVE  h.blk[a].next \notin F \union {x} /\ (L # NULL => h.blk[a].next # L)
    BY DEF Apart2
  <2>1. h.blk[a].next # x \/ a \notin F
    <3> SUFFICES ASSUME h.blk[a].next = x, a \in F PROVE FALSE
      OBVIOUS
    <3>1. h.blk[x].prev = a
      BY <1>0, NextFacts
    <3> QED BY <3>1
  <2>2. a = x => h.blk[a].next # x
    <3>1. h.blk[x].next # NULL => h.blk[x].next > x
      BY <1>0, NextFacts
    <3>2. x \in Int
      BY <1>0, TileFacts
    <3> QED BY <3>1, <3>2
  <2>3. a \in F => h.blk[a].next \notin F /\ (L # NULL => h.blk[a].next # L)
    BY DEF State, Apart2
  <2> QED BY <2>1, <2>2, <2>3
<1>9. Sized(h, F \union {x}, Lim(one))
  BY DEF State, Sized
<1>10. State(j, A, F \union {x}, NULL, L, one) /\ Frame(j, h, A)
  <2>1. PICK G : G = F \union {x}
    OBVIOUS
  <2>2. F \subseteq G \union {x} /\ G \subseteq F \union {x} /\ x \in {x, NULL} /\ NULL \in {x, NULL} /\ x \in G
    BY <2>1
  <2>3. ListsOK(j, G) /\ Parts(h, A, G, NULL, L) /\ Apart2(h, G, L) /\ Sized(h, G, Lim(one))
    BY <2>1, <1>5, <1>7, <1>8, <1>9
  <2>4. State(j, A, G, NULL, L, one) /\ Frame(j, h, A)
    BY <2>2, <2>3, <1>0, <1>6, RelistedState
  <2> QED BY <2>1, <2>4
<1>11. L # NULL => j.blk[L].prevfree = h.blk[L].prevfree
  <2> SUFFICES ASSUME L # NULL PROVE j.blk[L].prevfree = h.blk[L].prevfree
    OBVIOUS
  <2>1. L \in At(h) /\ L \notin F /\ L # x
    BY <1>0, StateFacts
  <2> QED BY <2>1, <1>6 DEF Relisted
<1> QED BY <1>6, <1>10, <1>11 DEF Relisted

\* The first block of a list is taken.
LEMMA TakeHead ==
  ASSUME NEW h, NEW A, NEW F, NEW L, NEW one, State(h, A, F, NULL, L, one), NEW m \in F,
         m = h.freehdrs[B(h, m)], NEW j, j = rmvfromfree(h, m)
  PROVE  /\ State(j, A, F \ {m}, m, L, one) /\ Frame(j, h, A) /\ SameTop(j, h) /\ SameChain(j, h)
         /\ j.blk[m].nextfree = NULL /\ j.blk[m].prev \notin F /\ j.blk[m].next \notin F
         /\ (L # NULL => j.blk[m].next # L /\ j.blk[L].prevfree = h.blk[L].prevfree)
<1>0. h \in Heaps /\ Tile(h, one) /\ ListsOK(h, F) /\ m \in At(h) /\ NULL \notin At(h) /\ NONE \notin At(h)
      /\ F \subseteq At(h) /\ m \notin A /\ m # L /\ NULL \notin A /\ NULL \notin F /\ A \intersect F = {}
  BY StateFacts
<1>1. PICK b \in Buckets, n \in Int : b = B(h, m) /\ n = h.blk[m].nextfree
  <2>1. B(h, m) \in Buckets
    BY <1>0 DEF ListsOK
  <2> QED BY <2>1, <1>0, BlockFields
<1>2. Taken(j, h, m, b, n)
  <2>1. b \in Lists
    BY BucketsAreLists
  <2>2. First(h, m, b, n)
    BY <1>1 DEF First, B
  <2> QED BY <2>1, <2>2, <1>0, TakeFacts
<1>3. h.blk[m].prevfree = NONE /\ (n = NONE \/ n \in F)
  <2>1. HeadOK(h, F, b) /\ NextfreeOK(h, F, m)
    BY <1>0 DEF ListsOK
  <2>2. h.freehdrs[b] = m
    BY <1>1
  <2> QED BY <2>1, <2>2, <1>0, <1>1 DEF HeadOK, NextfreeOK
<1>4. ListsOK(j, F \ {m})
  <2>1. Unlinked(j, h, m, B(h, m), n, h.blk[m].prevfree)
    BY <1>0, <1>1, <1>2, <1>3, TakenUnlinks
  <2> QED BY <2>1, <1>0, <1>1, ListsUnlink
<1>5. Relisted(j, h, A, F, m, L)
  <2>1. j \in Heaps /\ SameChain(j, h) /\ j.bad = h.bad
    BY <1>2 DEF Taken
  <2>2. lastsbrk(j) = lastsbrk(h)
    BY <1>2, BucketsAreLists, Zenon DEF Taken, lastsbrk
  <2>3. ASSUME NEW a \in At(h), a \notin F, a # m
        PROVE  j.blk[a].nextfree = h.blk[a].nextfree /\ j.blk[a].prevfree = h.blk[a].prevfree
    <3>1. a # n
      BY <2>3, <1>0, <1>3
    <3> QED BY <3>1, <2>3, <1>2 DEF Taken
  <2> QED BY <2>1, <2>2, <2>3 DEF Relisted, SameTop
<1>6. Parts(h, A, F \ {m}, m, L)
  BY <1>0 DEF State, Parts
<1>7. Apart2(h, F \ {m}, L) /\ Sized(h, F \ {m}, Lim(one))
  BY DEF State, Apart2, Sized
<1>8. State(j, A, F \ {m}, m, L, one) /\ Frame(j, h, A)
  <2>1. PICK G : G = F \ {m}
    OBVIOUS
  <2>2. F \subseteq G \union {m} /\ G \subseteq F \union {m} /\ NULL \in {m, NULL} /\ m \in {m, NULL} /\ m # NULL
    BY <2>1, <1>0
  <2>3. ListsOK(j, G) /\ Parts(h, A, G, m, L) /\ Apart2(h, G, L) /\ Sized(h, G, Lim(one))
    BY <2>1, <1>4, <1>6, <1>7
  <2>4. State(j, A, G, m, L, one) /\ Frame(j, h, A)
    BY <2>2, <2>3, <1>0, <1>5, RelistedState
  <2> QED BY <2>1, <2>4
<1>9. j.blk[m].prev = h.blk[m].prev /\ j.blk[m].next = h.blk[m].next /\ j.blk[m].nextfree = NULL
  BY <1>0, <1>2 DEF Taken, SameChain
<1>10. h.blk[m].next \notin F /\ (L # NULL => h.blk[m].next # L)
  BY DEF State, Apart2
<1>11. h.blk[m].prev \notin F
  <2> SUFFICES ASSUME h.blk[m].prev \in F PROVE FALSE
    OBVIOUS
  <2>1. PICK q : q = h.blk[m].prev /\ q \in F /\ q # NULL
    BY <1>0
  <2>2. h.blk[q].next = m
    BY <2>1, <1>0, PrevFacts
  <2> QED BY <2>1, <2>2 DEF State, Apart2
<1>12. L # NULL => j.blk[L].prevfree = h.blk[L].prevfree
  <2> SUFFICES ASSUME L # NULL PROVE j.blk[L].prevfree = h.blk[L].prevfree
    OBVIOUS
  <2>1. L \in At(h) /\ L \notin F /\ L # m
    BY <1>0, StateFacts
  <2> QED BY <2>1, <1>5 DEF Relisted
<1> QED BY <1>5, <1>8, <1>9, <1>10, <1>11, <1>12 DEF Relisted


\* x can be cut sz bytes from its beginning.
Room(h, x, sz, one) == x # NULL /\ Al(sz) /\ sz >= Lim(one) /\ h.blk[x].sz >= sz + DATAOFFSET

\* x keeps sz bytes and is allocated; the rest takes its place.
Halved(j, h, A, F, x, L, one, sz, m1) ==
  /\ State(j, A \union {x}, F, m1, L, one) /\ Frame(j, h, A) /\ SameTop(j, h) /\ m1 # NULL /\ m1 \in Int
  /\ j.blk[x].sz = sz /\ j.blk[x].prevfree = h.blk[x].prevfree
  /\ Header(j.blk[m1], x, h.blk[x].next, h.blk[x].sz - sz, h.blk[x].nextfree, JUNK)
  /\ (L # NULL => j.blk[L].prevfree = h.blk[L].prevfree)

LEMMA CutX ==
  ASSUME NEW h, NEW A, NEW F, NEW x, NEW L, NEW one, State(h, A, F, x, L, one),
         NEW sz \in Int, Room(h, x, sz, one),
         NEW m1, m1 = x + sz, NEW j, j = __nmalloc_split(h, x, sz)
  PROVE  Halved(j, h, A, F, x, L, one, sz, m1)
<1> USE DEF Room
<1>0. h \in Heaps /\ Tile(h, one) /\ ListsOK(h, F) /\ x \in At(h) /\ x \notin F /\ NULL \notin At(h) /\ one \in BOOLEAN
      /\ F \subseteq At(h) /\ A \subseteq At(h) /\ x \notin A /\ x # L /\ (L # NULL => L \in At(h) /\ h.blk[L].next = NULL)
  BY StateFacts
<1>1. sz >= DATAOFFSET
  BY <1>0, LimFacts, OffsetAligned
<1>2. PICK after : after = h.blk[x].next
  OBVIOUS
<1>3. /\ m1 \in Int /\ m1 \notin At(h) /\ m1 # NULL /\ after \in At(h) \union {NULL} /\ after # x
      /\ CanCut(h, x, sz, m1, after)
  BY <1>0, <1>1, <1>2, CutReady
<1>4. Cut(j, h, x, sz, m1, after)
  BY <1>0, <1>3, SplitFacts
<1>5. Tile(j, one)
  BY <1>0, <1>1, <1>2, <1>4, TileCut
<1>6. j \in Heaps /\ At(j) = At(h) \union {m1} /\ SameTop(j, h) /\ j.freehdrs = h.freehdrs
  BY <1>4, Zenon DEF Cut, SameRest, SameTop, lastsbrk
<1>7. ASSUME NEW a \in At(h), a # x
      PROVE  /\ j.blk[a].next = h.blk[a].next /\ j.blk[a].sz = h.blk[a].sz
             /\ j.blk[a].nextfree = h.blk[a].nextfree /\ j.blk[a].prevfree = h.blk[a].prevfree
  BY <1>4, <1>7, Zenon DEF Cut
<1>8. ListsOK(j, F)
  <2>1. \A a \in F : /\ j.blk[a].sz = h.blk[a].sz /\ j.blk[a].nextfree = h.blk[a].nextfree
                     /\ j.blk[a].prevfree = h.blk[a].prevfree
    BY <1>0, <1>7
  <2>2. SameOn(j, h, F)
    BY <2>1, <1>0, <1>6 DEF SameOn
  <2> QED BY <2>2, <1>0, ListsKeep
<1>9. /\ j.blk[x].sz = sz /\ j.blk[x].prevfree = h.blk[x].prevfree /\ j.blk[x].nextfree = NULL
      /\ Header(j.blk[m1], x, h.blk[x].next, h.blk[x].sz - sz, h.blk[x].nextfree, JUNK)
  BY <1>0, <1>2, <1>4, Zenon DEF Cut
<1>10. Parts(j, A \union {x}, F, m1, L)
  <2>1. Parts(h, A, F, x, L) /\ m1 \notin A /\ m1 \notin F /\ m1 # L
    BY <1>0, <1>3 DEF State
  <2> QED BY <2>1, <1>0, <1>3, <1>6 DEF Parts
<1>11. Off(j, F, m1)
  <2> SUFFICES ASSUME NEW a \in At(j), a \notin F, a # m1 PROVE j.blk[a].nextfree = NULL
    BY DEF Off
  <2>1. CASE a = x
    BY <2>1, <1>9
  <2>2. CASE a # x
    <3>1. a \in At(h)
      BY <1>6
    <3>2. h.blk[a].nextfree = NULL
      BY <3>1, <2>2 DEF State, Off
    <3> QED BY <3>1, <3>2, <2>2, <1>7
  <2> QED BY <2>1, <2>2
<1>12. Apart2(j, F, L)
  <2> SUFFICES ASSUME NEW a \in F PROVE j.blk[a].next \notin F /\ (L # NULL => j.blk[a].next # L)
    BY DEF Apart2
  <2>1. j.blk[a].next = h.blk[a].next
    BY <1>0, <1>7
  <2> QED BY <2>1 DEF State, Apart2
<1>13. Sized(j, A \union {x}, Lim(one)) /\ Sized(j, F, Lim(one))
  <2>1. Sized(h, A, Lim(one)) /\ Sized(h, F, Lim(one))
    BY DEF State
  <2>2. ASSUME NEW a \in A \union F PROVE j.blk[a].sz = h.blk[a].sz
    BY <1>0, <1>7
  <2>3. Sized(j, F, Lim(one))
    BY <2>1, <2>2 DEF Sized
  <2>4. Sized(j, A \union {x}, Lim(one))
    BY <2>1, <2>2, <1>9 DEF Sized
  <2> QED BY <2>3, <2>4
<1>14. (L # NULL => j.blk[L].next = NULL /\ j.blk[L].prevfree = h.blk[L].prevfree)
  BY <1>0, <1>7
<1>15. Frame(j, h, A)
  BY <1>0, <1>7 DEF Frame
<1>16. State(j, A \union {x}, F, m1, L, one)
  BY <1>0, <1>5, <1>6, <1>8, <1>10, <1>11, <1>12, <1>13, <1>14 DEF State
<1> QED BY <1>3, <1>6, <1>9, <1>14, <1>15, <1>16 DEF Halved

\* A word of one block changes, or a link of x.
Marked(j, h, m, x, nextfree, prevfree) ==
  /\ Changed(j, h, m, h.blk[m].sz, nextfree, prevfree) /\ j.brk = h.brk /\ SameHeads(j, h)
  /\ m = x \/ nextfree = h.blk[m].nextfree

LEMMA ChangeState ==
  ASSUME NEW h, NEW A, NEW F, NEW x, NEW L, NEW one, State(h, A, F, x, L, one), NEW m \in At(h), m \notin F,
         NEW nextfree, NEW prevfree, NEW j, Marked(j, h, m, x, nextfree, prevfree)
  PROVE  /\ State(j, A, F, x, L, one) /\ SameChain(j, h) /\ Frame(j, h, A \ {m})
         /\ j.blk[m].nextfree = nextfree /\ j.blk[m].prevfree = prevfree
<1> USE DEF Marked
<1>0. F \subseteq At(h) /\ A \subseteq At(h)
  BY StateFacts
<1>1. j \in Heaps /\ At(j) = At(h) /\ \A a \in At(h) : a # m => j.blk[a] = h.blk[a]
  BY DEF Changed
<1>2. /\ j.blk[m].prev = h.blk[m].prev /\ j.blk[m].next = h.blk[m].next /\ j.blk[m].sz = h.blk[m].sz
      /\ j.blk[m].nextfree = nextfree /\ j.blk[m].prevfree = prevfree
  BY DEF Changed, Header
<1>3. SameChain(j, h)
  BY <1>1, <1>2 DEF SameChain
<1>4. SameOn(j, h, F)
  <2>1. \A a \in F : j.blk[a] = h.blk[a]
    BY <1>0, <1>1
  <2>2. \A c \in Buckets : j.freehdrs[c] = h.freehdrs[c]
    BY BucketsAreLists DEF SameHeads
  <2> QED BY <2>1, <2>2, <1>0, <1>1 DEF SameOn
<1>5. ASSUME NEW a \in At(h), a \notin F, a # x PROVE j.blk[a].nextfree = h.blk[a].nextfree
  <2>1. CASE a = m
    BY <2>1, <1>2, <1>5
  <2>2. CASE a # m
    BY <2>2, <1>1
  <2> QED BY <2>1, <2>2
<1>6. State(j, A, F, x, L, one)
  BY <1>1, <1>3, <1>4, <1>5, StateKeep
<1>7. Frame(j, h, A \ {m})
  BY <1>0, <1>1 DEF Frame
<1> QED BY <1>2, <1>3, <1>6, <1>7

NewTop(h, v) == [h EXCEPT !.freehdrs[0] = v]

\* A heap is in the same state whatever freehdrs[0] is.
LEMMA HeadState ==
  ASSUME NEW h, NEW A, NEW F, NEW x, NEW L, NEW one, State(h, A, F, x, L, one), NEW v \in Int,
         NEW j, j = NewTop(h, v)
  PROVE  State(j, A, F, x, L, one) /\ j.blk = h.blk /\ j.brk = h.brk /\ lastsbrk(j) = v /\ j.bad = h.bad
<1>0. h \in Heaps /\ 0 \in Lists /\ F \subseteq At(h)
  BY StateFacts, BucketsAreLists
<1>1. /\ j \in Heaps /\ j.blk = h.blk /\ At(j) = At(h) /\ j.brk = h.brk /\ j.bad = h.bad
      /\ j.freehdrs[0] = v /\ \A c \in Lists : c # 0 => j.freehdrs[c] = h.freehdrs[c]
  BY <1>0, NewHead DEF NewTop
<1>2. SameChain(j, h)
  BY <1>1 DEF SameChain
<1>3. SameOn(j, h, F)
  BY <1>0, <1>1, BucketsAreLists DEF SameOn
<1>4. State(j, A, F, x, L, one)
  BY <1>1, <1>2, <1>3, StateKeep
<1> QED BY <1>1, <1>4 DEF lastsbrk
\* The last block grows with the break.
LEMMA GrowState ==
  ASSUME NEW h, NEW A, NEW F, NEW L, NEW one, State(h, A, F, NULL, L, one), L # NULL, L + h.blk[L].sz = h.brk,
         NEW n \in Nat, h.brk + n <= MaxBrk, NEW j, j = Continued(h, L, n)
  PROVE  /\ State(j, A, F, NULL, L, one) /\ Frame(j, h, A) /\ SameTop(j, h)
         /\ j.blk[L].sz = h.blk[L].sz + n /\ j.blk[L].prevfree = h.blk[L].prevfree
<1>0. h \in Heaps /\ Tile(h, one) /\ ListsOK(h, F) /\ L \in At(h) /\ L \notin A /\ L \notin F /\ F \subseteq At(h)
      /\ A \subseteq At(h) /\ h.blk[L].next = NULL /\ one \in BOOLEAN
  BY StateFacts
<1>1. /\ Changed(j, h, L, h.blk[L].sz + n, h.blk[L].nextfree, h.blk[L].prevfree)
      /\ j.brk = h.brk + n /\ j.freehdrs = h.freehdrs /\ j.bad = h.bad
  BY <1>0, ContinueFacts
<1>2. Tile(j, one)
  BY <1>0, <1>1, TileGrow
<1>3. j \in Heaps /\ At(j) = At(h) /\ \A a \in At(h) : a # L => j.blk[a] = h.blk[a]
  BY <1>1 DEF Changed
<1>4. /\ j.blk[L].sz = h.blk[L].sz + n /\ j.blk[L].prevfree = h.blk[L].prevfree
      /\ j.blk[L].nextfree = h.blk[L].nextfree /\ j.blk[L].next = NULL
  BY <1>0, <1>1 DEF Changed, Header
<1>5. \A a \in F : j.blk[a] = h.blk[a]
  BY <1>0, <1>3
<1>6. \A a \in A : j.blk[a] = h.blk[a]
  BY <1>0, <1>3
<1>7. ListsOK(j, F)
  <2>1. SameOn(j, h, F)
    BY <1>0, <1>1, <1>3, <1>5 DEF SameOn
  <2> QED BY <2>1, <1>0, ListsKeep
<1>8. Parts(j, A, F, NULL, L)
  BY <1>3 DEF State, Parts
<1>9. Off(j, F, NULL)
  <2> SUFFICES ASSUME NEW a \in At(h), a \notin F, a # NULL PROVE j.blk[a].nextfree = NULL
    BY <1>3 DEF Off
  <2>1. h.blk[a].nextfree = NULL
    BY DEF State, Off
  <2>2. CASE a = L
    BY <2>1, <2>2, <1>4
  <2>3. CASE a # L
    BY <2>1, <2>3, <1>3
  <2> QED BY <2>2, <2>3
<1>10. Apart2(j, F, L)
  BY <1>5 DEF State, Apart2
<1>11. Sized(j, A, Lim(one)) /\ Sized(j, F, Lim(one))
  BY <1>5, <1>6 DEF State, Sized
<1>12. Frame(j, h, A) /\ SameTop(j, h)
  BY <1>1, <1>6 DEF Frame, SameTop, lastsbrk
<1> QED BY <1>0, <1>2, <1>3, <1>4, <1>7, <1>8, <1>9, <1>10, <1>11, <1>12 DEF State

\* The first header of an area.
Fresh(e, sz) == Header(e, NULL, NULL, sz, NULL, JUNK)

\* A new area begins, and its block is what is left of the last one.
LEMMA BeginState ==
  ASSUME NEW h, NEW A, NEW F, NEW x, NEW one, State(h, A, F, x, NULL, one), NEW m \in Int, m >= h.brk, Al(m),
         NEW n \in Nat, h.brk + n <= MaxBrk, NEW sz, NEW new, Fresh(new, sz), sz >= DATAOFFSET, m + sz = h.brk + n,
         one => At(h) = {}, NEW j, j = Begun(h, m, n, new)
  PROVE  /\ State(j, A, F, x, m, one) /\ Frame(j, h, A) /\ SameTop(j, h) /\ m # NULL
         /\ j.blk[m] = new /\ \A a \in At(h) : j.blk[a] = h.blk[a]
<1>0. h \in Heaps /\ Tile(h, one) /\ ListsOK(h, F) /\ F \subseteq At(h) /\ A \subseteq At(h) /\ one \in BOOLEAN
      /\ (x # NULL => x \in At(h)) /\ NULL \notin F /\ NULL \notin A
  BY StateFacts
<1>1. /\ new \in Block /\ new.prev = NULL /\ new.next = NULL /\ new.sz = sz /\ new.nextfree = NULL
      /\ new.prevfree = JUNK
  BY DEF Fresh, Header
<1>2. m \notin At(h) /\ m # NULL
  <2>1. h.brk >= Base
    BY <1>0 DEF Tile
  <2>2. m \notin At(h)
    <3> SUFFICES ASSUME m \in At(h) PROVE FALSE
      OBVIOUS
    <3> QED BY <1>0, TileFacts, OffsetAligned
  <2> QED BY <2>1, <2>2, <1>0, HeapFacts, Halves, Codes
<1>3. Added(j, h, m, n, new)
  BY <1>0, <1>1, <1>2, BeginFacts
<1>4. Tile(j, one)
  <2>1. new.sz >= DATAOFFSET /\ m + new.sz <= h.brk + n /\ (one => At(h) = {} /\ m + new.sz = h.brk + n)
    BY <1>0, <1>1, HeapFacts
  <2> QED BY <2>1, <1>0, <1>1, <1>3, TileBegin
<1>5. /\ j \in Heaps /\ At(j) = At(h) \union {m} /\ j.blk[m] = new /\ \A a \in At(h) : j.blk[a] = h.blk[a]
      /\ j.freehdrs = h.freehdrs /\ j.bad = h.bad
  BY <1>3 DEF Added
<1>6. ListsOK(j, F)
  <2>1. SameOn(j, h, F)
    BY <1>0, <1>5 DEF SameOn
  <2> QED BY <2>1, <1>0, ListsKeep
<1>7. Parts(j, A, F, x, m)
  <2>1. Parts(h, A, F, x, NULL)
    BY DEF State
  <2>2. m \notin A /\ m \notin F /\ (x # NULL => x # m)
    BY <1>0, <1>2
  <2> QED BY <2>1, <2>2, <1>2, <1>5 DEF Parts
<1>8. Off(j, F, x)
  <2> SUFFICES ASSUME NEW a \in At(j), a \notin F, a # x PROVE j.blk[a].nextfree = NULL
    BY DEF Off
  <2>1. CASE a = m
    BY <2>1, <1>1, <1>5
  <2>2. CASE a \in At(h)
    BY <2>2, <1>5 DEF State, Off
  <2> QED BY <2>1, <2>2, <1>5
<1>9. Apart2(j, F, m)
  <2> SUFFICES ASSUME NEW a \in F PROVE j.blk[a].next \notin F /\ j.blk[a].next # m
    BY DEF Apart2
  <2>1. a \in At(h) /\ j.blk[a].next = h.blk[a].next
    BY <1>0, <1>5
  <2>2. h.blk[a].next \notin F
    BY DEF State, Apart2
  <2>3. h.blk[a].next # NULL => h.blk[a].next \in At(h)
    BY <2>1, <1>0, NextFacts
  <2> QED BY <2>1, <2>2, <2>3, <1>2
<1>10. Sized(j, A, Lim(one)) /\ Sized(j, F, Lim(one))
  BY <1>0, <1>5 DEF State, Sized
<1>11. Frame(j, h, A) /\ SameTop(j, h)
  BY <1>0, <1>5 DEF Frame, SameTop, lastsbrk
<1> QED BY <1>0, <1>1, <1>2, <1>4, <1>5, <1>6, <1>7, <1>8, <1>9, <1>10, <1>11 DEF State

\* A block is free when it is on a list; the floating one is never asked.
LEMMA FreeIff ==
  ASSUME NEW h, NEW A, NEW F, NEW x, NEW L, NEW one, State(h, A, F, x, L, one), NEW m,
         m \in At(h) \/ m = NULL, m # x \/ m = NULL
  PROVE  ISFREE(h, m) <=> m \in F
<1>0. F \subseteq At(h) /\ NULL \notin F /\ NONE \notin F /\ NULL \notin At(h) /\ NONE \notin At(h) /\ ListsOK(h, F)
  BY StateFacts
<1>1. CASE m \in F
  <2>1. NextfreeOK(h, F, m) /\ PrevfreeOK(h, F, m)
    BY <1>0, <1>1 DEF ListsOK
  <2>2. h.blk[m].nextfree # NULL
    BY <2>1, <1>0, Codes DEF NextfreeOK
  <2>3. h.blk[m].prevfree # NULL
    BY <2>1, <1>0, Codes DEF PrevfreeOK
  <2>4. m # NULL /\ m # NONE
    BY <1>0, <1>1
  <2> QED BY <2>2, <2>3, <2>4, <1>1 DEF ISFREE
<1>2. CASE m \notin F /\ m \in At(h)
  <2>1. h.blk[m].nextfree = NULL
    BY <1>0, <1>2 DEF State, Off
  <2> QED BY <2>1, <1>2 DEF ISFREE
<1>3. CASE m = NULL
  BY <1>0, <1>3 DEF ISFREE
<1> QED BY <1>1, <1>2, <1>3

-----------------------------------------------------------------------------
(* The steps of the calls. *)

\* lastsbrk is L, and nothing was found fouled.
Mid(h, A, F, x, L, one) ==
  State(h, A, F, x, L, one) /\ L # NULL /\ lastsbrk(h) = L /\ h.bad = "" /\ h.blk[L].prevfree \in {NULL, JUNK}

\* Before the first area.
Empty(h, one) == State(h, {}, {}, NULL, NULL, one) /\ lastsbrk(h) = NULL /\ h.bad = ""

\* Between two calls.
Good(h, A, one) == (\E F, L : Mid(h, A, F, NULL, L, one)) \/ (A = {} /\ Empty(h, one))

\* A call is over, and the allocations A are as they were.
Settled(j, h, A, one) == Frame(j, h, A) /\ \E F, L : Mid(j, A, F, NULL, L, one)

\* A call is over, and has allocated x as well, with room for szneed bytes.
Got(j, h, A, x, szneed, one) ==
  /\ x # NULL /\ x \notin A /\ x \in Int /\ Frame(j, h, A) /\ j.blk[x].sz >= szneed
  /\ \E F, L : Mid(j, A \union {x}, F, NULL, L, one)

LEMMA FrameTrans ==
  ASSUME NEW h, NEW j, NEW k, NEW A, NEW S, Frame(k, j, A), Frame(j, h, S), S \subseteq A PROVE Frame(k, h, S)
BY Zenon DEF Frame

\* x has taken in the free block above it, if there is one.
Grown(j, h, A, G, x) ==
  /\ Frame(j, h, A) /\ x \in At(j) /\ j.blk[x].next \notin G /\ j.blk[x].prev = h.blk[x].prev
  /\ j.blk[x].sz >= h.blk[x].sz /\ j.blk[x].nextfree = h.blk[x].nextfree /\ j.blk[x].prevfree = h.blk[x].prevfree
LEMMA AboveFree ==
  ASSUME NEW h, NEW A, NEW F, NEW x, NEW L, NEW one, Mid(h, A, F, x, L, one), x # NULL
  PROVE  \E G : Mid(JoinFreeAbove(h, x), A, G, x, L, one) /\ G \subseteq F /\ Grown(JoinFreeAbove(h, x), h, A, G, x)
<1>0. L # NULL /\ lastsbrk(h) = L /\ h.bad = "" /\ h.blk[L].prevfree \in {NULL, JUNK}
  BY DEF Mid
<1>s. State(h, A, F, x, L, one) /\ L # NULL
  BY DEF Mid
<1>1. h \in Heaps /\ Tile(h, one) /\ x \in At(h) /\ x \notin F /\ L \in At(h) /\ L \notin F /\ x # L /\ F \subseteq At(h)
  BY <1>s, StateFacts
<1>2. PICK hi : hi = h.blk[x].next
  OBVIOUS
<1>3. hi # NULL => hi \in At(h) /\ h.blk[hi].prev = x /\ hi # x
  <2>1. x \in Int
    BY <1>1, TileFacts
  <2> QED BY <2>1, <1>1, <1>2, NextFacts
<1>4. ISFREE(h, hi) <=> hi \in F
  BY <1>s, <1>3, FreeIff
<1>5. CASE hi \notin F
  <2>1. JoinFreeAbove(h, x) = h
    BY <1>2, <1>4, <1>5, Zenon DEF JoinFreeAbove
  <2>2. h.blk[x].sz \in Nat
    BY <1>1, TileFacts
  <2>3. Grown(h, h, A, F, x)
    BY <2>2, <1>1, <1>2, <1>5 DEF Grown, Frame
  <2> QED BY <2>1, <2>3
<1>6. CASE hi \in F
  <2>1. hi # NULL /\ hi # L
    BY <1>s, <1>1, <1>6, StateFacts
  <2>2. PICK j : j = Join(extractfree(h, hi), x)
    OBVIOUS
  <2>3. JoinFreeAbove(h, x) = j
    <3>1. JoinFreeAbove(h, x) = combinehi(h, x)
      BY <1>2, <1>4, <1>6, Zenon DEF JoinFreeAbove
    <3>2. combinehi(h, x) = j
      BY <2>1, <2>2, <1>0, <1>2, <1>3, Zenon DEF combinehi
    <3> QED BY <3>1, <3>2
  <2>4. /\ State(j, A, F \ {hi}, x, L, one) /\ Frame(j, h, A) /\ Merged(j, h, F, x, hi) /\ h.blk[hi].next \notin F
    BY <2>2, <1>s, <1>2, <1>6, JoinFree
  <2>5. /\ At(j) = At(h) \ {hi} /\ SameTop(j, h) /\ x \in At(j) /\ j.blk[x].prev = h.blk[x].prev
        /\ j.blk[x].next = h.blk[hi].next /\ j.blk[x].sz = h.blk[x].sz + h.blk[hi].sz
        /\ \A a \in At(j) : a \notin F => /\ j.blk[a].nextfree = h.blk[a].nextfree
                                          /\ j.blk[a].prevfree = h.blk[a].prevfree
    BY <2>4 DEF Merged
  <2>6. j.blk[L].prevfree = h.blk[L].prevfree
    BY <2>1, <2>5, <1>1
  <2>7. Mid(j, A, F \ {hi}, x, L, one)
    BY <2>4, <2>5, <2>6, <1>0 DEF Mid, SameTop
  <2>8. h.blk[x].sz \in Nat /\ h.blk[hi].sz \in Nat
    BY <2>1, <1>1, <1>3, TileFacts
  <2>9. Grown(j, h, A, F \ {hi}, x)
    BY <2>4, <2>5, <2>8, <1>1 DEF Grown
  <2>10. F \ {hi} \subseteq F
    OBVIOUS
  <2> QED BY <2>3, <2>7, <2>9, <2>10
<1> QED BY <1>5, <1>6

\* x becomes the lower end of the last block, or goes to a list.
LEMMA ToLastOK ==
  ASSUME NEW h, NEW A, NEW F, NEW x, NEW L, NEW one, Mid(h, A, F, x, L, one), x # NULL,
         h.blk[x].prev \notin F, h.blk[x].next \notin F, h.blk[x].sz >= Lim(one)
  PROVE  Settled(ToLastOrList(h, x), h, A, one)
<1>0. L # NULL /\ lastsbrk(h) = L /\ h.bad = "" /\ h.blk[L].prevfree \in {NULL, JUNK}
  BY DEF Mid
<1>s. State(h, A, F, x, L, one) /\ L # NULL
  BY DEF Mid
<1>1. h \in Heaps /\ Tile(h, one) /\ x \in At(h) /\ x \notin F /\ L \in At(h) /\ x # L /\ x \notin A
  BY <1>s, StateFacts
<1>2. CASE h.blk[x].next = L
  <2>1. h.blk[L].prev = x
    BY <1>s, <1>1, <1>2, NextFacts
  <2>2. PICK g : g = Join(h, x)
    OBVIOUS
  <2>3. combinehi(h, x) = g
    BY <2>1, <2>2, <1>0, <1>2, Zenon DEF combinehi
  <2>4. PICK j : j = AsLast(g, x)
    OBVIOUS
  <2>5. ToLastOrList(h, x) = j
    BY <2>3, <2>4, <1>0, <1>2, Zenon DEF ToLastOrList, AsLast
  <2>6. State(g, A, F, x, NULL, one) /\ Frame(g, h, A) /\ Merged(g, h, F, x, L) /\ g.blk[x].next = NULL
    BY <2>2, <1>s, <1>2, JoinLast
  <2>7. SameTop(g, h) /\ x \in At(g) /\ g.blk[x].prev = h.blk[x].prev /\ g \in Heaps
    BY <2>6 DEF Merged
  <2>8. /\ Changed(j, g, x, g.blk[x].sz, NULL, NULL)
        /\ j.brk = g.brk /\ j.bad = g.bad /\ lastsbrk(j) = x /\ SameHeads(j, g)
    BY <2>4, <2>7, LastFacts
  <2>9. /\ State(j, A, F, x, NULL, one) /\ SameChain(j, g) /\ Frame(j, g, A \ {x})
        /\ j.blk[x].nextfree = NULL /\ j.blk[x].prevfree = NULL
    <3>1. Marked(j, g, x, x, NULL, NULL)
      BY <2>8 DEF Marked
    <3> QED BY <3>1, <2>6, <2>7, <1>1, ChangeState
  <2>10. j.blk[x].next = NULL /\ j.blk[x].prev = h.blk[x].prev
    BY <2>6, <2>7, <2>9 DEF SameChain
  <2>11. State(j, A, F, NULL, x, one)
    BY <2>9, <2>10, XtoL
  <2>12. Mid(j, A, F, NULL, x, one)
    BY <2>7, <2>8, <2>9, <2>11, <1>0 DEF Mid, SameTop
  <2>13. Frame(j, h, A)
    <3>1. A \ {x} = A
      BY <1>1
    <3>2. Frame(j, g, A)
      BY <3>1, <2>9
    <3> QED BY <3>2, <2>6, FrameTrans
  <2> QED BY <2>5, <2>12, <2>13 DEF Settled
<1>3. CASE h.blk[x].next # L
  <2>1. PICK j : j = PutOnList(h, x)
    OBVIOUS
  <2>2. ToLastOrList(h, x) = j
    BY <2>1, <1>0, <1>3, Zenon DEF ToLastOrList
  <2>3. /\ State(j, A, F \union {x}, NULL, L, one) /\ Frame(j, h, A) /\ SameTop(j, h)
        /\ (L # NULL => j.blk[L].prevfree = h.blk[L].prevfree)
    <3>1. Loose(h, F, x, L, one)
      BY <1>3 DEF Loose
    <3> QED BY <3>1, <2>1, <1>s, PutX
  <2>4. Mid(j, A, F \union {x}, NULL, L, one)
    BY <2>3, <1>0 DEF Mid, SameTop
  <2> QED BY <2>2, <2>3, <2>4 DEF Settled
<1> QED BY <1>2, <1>3

LEMMA FreeX ==
  ASSUME NEW h, NEW A, NEW F, NEW x, NEW L, NEW one, Mid(h, A, F, x, L, one), x # NULL,
         h.blk[x].prev \notin F, h.blk[x].sz >= Lim(one)
  PROVE  Settled(mv2freelist(h, x), h, A, one)
<1>1. PICK j : j = JoinFreeAbove(h, x)
  OBVIOUS
<1>2. PICK G : Mid(j, A, G, x, L, one) /\ G \subseteq F /\ Grown(j, h, A, G, x)
  BY <1>1, AboveFree
<1>3. /\ Frame(j, h, A) /\ j.blk[x].next \notin G /\ j.blk[x].prev = h.blk[x].prev /\ x \in At(j)
      /\ j.blk[x].sz >= h.blk[x].sz
  BY <1>2 DEF Grown
<1>4. j.blk[x].prev \notin G
  BY <1>2, <1>3
<1>5. j.blk[x].sz >= Lim(one)
  <2>1. j \in Heaps /\ Tile(j, one) /\ one \in BOOLEAN
    BY <1>2, StateFacts DEF Mid
  <2>2. j.blk[x].sz \in Nat
    BY <2>1, <1>3, TileFacts
  <2>3. h \in Heaps /\ Tile(h, one) /\ x \in At(h)
    <3>1. State(h, A, F, x, L, one)
      BY DEF Mid
    <3> QED BY <3>1, StateFacts
  <2>4. h.blk[x].sz \in Nat
    BY <2>3, TileFacts
  <2> QED BY <2>1, <2>2, <2>4, <1>3, LimFacts
<1>6. Settled(ToLastOrList(j, x), j, A, one)
  BY <1>2, <1>3, <1>4, <1>5, ToLastOK
<1>7. mv2freelist(h, x) = ToLastOrList(j, x)
  BY <1>1, Zenon DEF mv2freelist
<1>8. Frame(ToLastOrList(j, x), h, A)
  <2>1. Frame(ToLastOrList(j, x), j, A) /\ A \subseteq A
    BY <1>6 DEF Settled
  <2> QED BY <2>1, <1>3, FrameTrans
<1> QED BY <1>6, <1>7, <1>8, Zenon DEF Settled

\* x is allocated; what it has above szneed is freed if it is worth a block.
LEMMA TrimOK ==
  ASSUME NEW h, NEW A, NEW F, NEW x, NEW L, NEW one, Mid(h, A, F, x, L, one), x # NULL, h.blk[x].nextfree = NULL,
         NEW szneed \in Int, Al(szneed), szneed >= Lim(one), h.blk[x].sz >= szneed, NEW j, j = Trim(h, x, szneed)
  PROVE  Got(j, h, A, x, szneed, one) /\ j.blk[x].prevfree = h.blk[x].prevfree
<1>0. L # NULL /\ lastsbrk(h) = L /\ h.bad = "" /\ h.blk[L].prevfree \in {NULL, JUNK}
  BY DEF Mid
<1>s. State(h, A, F, x, L, one) /\ L # NULL
  BY DEF Mid
<1>1. h \in Heaps /\ Tile(h, one) /\ x \in At(h) /\ x \notin F /\ L \in At(h) /\ x # L /\ x \notin A /\ one \in BOOLEAN
      /\ F \subseteq At(h)
  BY <1>s, StateFacts
<1>2. h.blk[x].sz \in Nat /\ x \in Int
  BY <1>1, TileFacts
<1>3. Lim(one) \in Nat /\ Lim(one) <= MINSAVE /\ MINSAVE \in Nat /\ MINSAVE >= DATAOFFSET /\ DATAOFFSET \in Nat
  BY <1>1, LimFacts, OffsetAligned
<1>4. CASE h.blk[x].sz - szneed < MINSAVE
  <2>1. j = h
    <3>1. ~ (h.blk[x].sz - szneed >= MINSAVE)
      BY <1>2, <1>3, <1>4
    <3> QED BY <3>1, Zenon DEF Trim
  <2>2. h.blk[x].sz >= Lim(one)
    BY <1>2, <1>3
  <2>3. State(h, A \union {x}, F, NULL, L, one)
    BY <2>2, <1>s, XtoA
  <2>4. Mid(h, A \union {x}, F, NULL, L, one)
    BY <2>3, <1>0, <1>s DEF Mid
  <2>5. Frame(h, h, A)
    BY DEF Frame
  <2> QED BY <2>1, <2>4, <2>5, <1>1, <1>2 DEF Got
<1>5. CASE h.blk[x].sz - szneed >= MINSAVE
  <2>1. PICK m1 : m1 = x + szneed
    OBVIOUS
  <2>2. PICK g : g = __nmalloc_split(h, x, szneed)
    OBVIOUS
  <2>3. j = mv2freelist(g, m1)
    BY <2>1, <2>2, <1>5, Zenon DEF Trim
  <2>4. h.blk[x].sz >= szneed + DATAOFFSET
    BY <1>2, <1>3, <1>5
  <2>5. /\ State(g, A \union {x}, F, m1, L, one) /\ Frame(g, h, A) /\ SameTop(g, h) /\ m1 # NULL
        /\ g.blk[x].sz = szneed /\ g.blk[x].prevfree = h.blk[x].prevfree
        /\ Header(g.blk[m1], x, h.blk[x].next, h.blk[x].sz - szneed, h.blk[x].nextfree, JUNK)
        /\ (L # NULL => g.blk[L].prevfree = h.blk[L].prevfree)
    <3>1. Room(h, x, szneed, one)
      BY <2>4 DEF Room
    <3>2. Halved(g, h, A, F, x, L, one, szneed, m1)
      BY <3>1, <2>1, <2>2, <1>s, CutX
    <3> QED BY <3>2 DEF Halved
  <2>6. Mid(g, A \union {x}, F, m1, L, one)
    BY <2>5, <1>0 DEF Mid, SameTop
  <2>7. g.blk[m1].prev \notin F /\ g.blk[m1].sz >= Lim(one)
    <3>1. g.blk[m1].prev = x /\ g.blk[m1].sz = h.blk[x].sz - szneed
      BY <2>5 DEF Header
    <3> QED BY <3>1, <1>1, <1>2, <1>3, <1>5
  <2>8. Settled(j, g, A \union {x}, one)
    BY <2>3, <2>5, <2>6, <2>7, FreeX
  <2>9. j.blk[x].sz = szneed /\ j.blk[x].prevfree = h.blk[x].prevfree /\ Frame(j, g, A \union {x})
    BY <2>5, <2>8 DEF Settled, Frame
  <2>10. Frame(j, h, A)
    <3>1. A \subseteq A \union {x}
      OBVIOUS
    <3> QED BY <3>1, <2>5, <2>9, FrameTrans
  <2>11. \E G, K : Mid(j, A \union {x}, G, NULL, K, one)
    BY <2>8 DEF Settled
  <2>12. j.blk[x].sz >= szneed
    BY <2>9
  <2> QED BY <2>9, <2>10, <2>11, <2>12, <1>1, <1>2 DEF Got
<1> QED BY <1>2, <1>3, <1>4, <1>5
\* What holds of the heap in every step of a call.
LEMMA MidFacts ==
  ASSUME NEW h, NEW A, NEW F, NEW x, NEW L, NEW one, Mid(h, A, F, x, L, one)
  PROVE  /\ State(h, A, F, x, L, one) /\ h \in Heaps /\ Tile(h, one) /\ one \in BOOLEAN /\ L # NULL /\ L \in At(h)
         /\ lastsbrk(h) = L /\ A \subseteq At(h) /\ F \subseteq At(h) /\ NULL \notin At(h) /\ NULL \notin F
         /\ (x # NULL => x \in At(h) /\ x # L) /\ L \notin A /\ L \notin F /\ h.blk[L].next = NULL
         /\ x \notin A /\ x \notin F /\ NULL \notin A
<1>1. State(h, A, F, x, L, one) /\ L # NULL /\ lastsbrk(h) = L
  BY DEF Mid
<1> QED BY <1>1, StateFacts

\* Another step with the same lastsbrk.
LEMMA MidStep ==
  ASSUME NEW h, NEW A, NEW F, NEW x, NEW L, NEW one, Mid(h, A, F, x, L, one), NEW j, NEW S, NEW G, NEW y,
         State(j, S, G, y, L, one), SameTop(j, h), j.blk[L].prevfree = h.blk[L].prevfree
  PROVE  Mid(j, S, G, y, L, one)
BY DEF Mid, SameTop

\* No block lies above the last one.
LEMMA NotAboveLast ==
  ASSUME NEW h, NEW A, NEW F, NEW x, NEW L, NEW one, Mid(h, A, F, x, L, one), NEW m \in At(h)
  PROVE  h.blk[m].prev # L
<1>1. h \in Heaps /\ Tile(h, one) /\ L # NULL /\ h.blk[L].next = NULL /\ NULL \notin At(h)
  BY MidFacts
<1> SUFFICES ASSUME h.blk[m].prev = L PROVE FALSE
  OBVIOUS
<1>2. h.blk[L].next = m
  BY <1>1, PrevFacts
<1> QED BY <1>1, <1>2

\* x, with no lastsbrk below it, is freed.
LEMMA FreeJoinedOK ==
  ASSUME NEW h, NEW A, NEW F, NEW x, NEW L, NEW one, Mid(h, A, F, x, L, one), x # NULL,
         h.blk[x].prev \notin F, h.blk[x].sz >= Lim(one), NEW r, r.h = h, r.m = x
  PROVE  Settled(FreeJoined(r), h, A, one)
<1>1. x \in At(h) /\ lastsbrk(h) = L
  BY MidFacts
<1>2. h.blk[x].prev # L
  BY <1>1, NotAboveLast
<1>3. FreeJoined(r) = mv2freelist(h, x)
  BY <1>1, <1>2, Zenon DEF FreeJoined
<1>4. Settled(mv2freelist(h, x), h, A, one)
  BY FreeX
<1> QED BY <1>3, <1>4

\* An allocation is freed.
LEMMA FreeOK ==
  ASSUME NEW h, NEW A, NEW F, NEW L, NEW one, Mid(h, A, F, NULL, L, one), NEW m \in A
  PROVE  Settled(dofree(h, m), h, A \ {m}, one)
<1>0. /\ State(h, A, F, NULL, L, one) /\ h \in Heaps /\ Tile(h, one) /\ one \in BOOLEAN /\ L \in At(h)
      /\ m \in At(h) /\ m \notin F /\ m # L /\ m # NULL
  <2>1. /\ State(h, A, F, NULL, L, one) /\ h \in Heaps /\ Tile(h, one) /\ one \in BOOLEAN /\ L \in At(h)
        /\ A \subseteq At(h) /\ L \notin A /\ NULL \notin A
    BY MidFacts
  <2>2. m \notin F
    BY <2>1, StateFacts
  <2> QED BY <2>1, <2>2
<1>1. PICK S : S = A \ {m}
  OBVIOUS
<1>2. State(h, S, F, m, L, one)
  BY <1>0, <1>1, AtoX
<1>3. PICK g : g = MarkFree(h, m)
  OBVIOUS
<1>4. Changed(g, h, m, h.blk[m].sz, NONE, NONE) /\ SameRest(g, h)
  BY <1>0, <1>3, MarkFacts
<1>5. State(g, S, F, m, L, one) /\ SameChain(g, h) /\ Frame(g, h, S)
  <2>1. g.brk = h.brk /\ SameHeads(g, h)
    BY <1>4 DEF SameRest, SameHeads
  <2>2. State(g, S, F, m, L, one) /\ SameChain(g, h) /\ Frame(g, h, S \ {m})
    <3>1. Marked(g, h, m, m, NONE, NONE)
      BY <2>1, <1>4 DEF Marked
    <3> QED BY <3>1, <1>0, <1>2, ChangeState
  <2>3. S \ {m} = S
    BY <1>1
  <2> QED BY <2>2, <2>3
<1>6. Mid(g, S, F, m, L, one)
  <2>1. g.blk[L] = h.blk[L]
    BY <1>0, <1>4 DEF Changed
  <2>2. SameTop(g, h)
    BY <1>4, Zenon DEF SameRest, SameTop, lastsbrk
  <2>3. g.blk[L].prevfree = h.blk[L].prevfree
    BY <2>1
  <2> QED BY <2>2, <2>3, <1>5, MidStep
<1>7. PICK k : k = JoinFreeAbove(g, m)
  OBVIOUS
<1>8. PICK G : Mid(k, S, G, m, L, one) /\ G \subseteq F /\ Grown(k, g, S, G, m)
  BY <1>0, <1>6, <1>7, AboveFree
<1>9. Frame(k, h, S) /\ m \in At(k) /\ k.blk[m].sz >= h.blk[m].sz
  <2>1. Frame(k, g, S) /\ m \in At(k) /\ k.blk[m].sz >= g.blk[m].sz
    BY <1>8 DEF Grown
  <2>2. g.blk[m].sz = h.blk[m].sz
    BY <1>0, <1>5 DEF SameChain
  <2>3. Frame(k, h, S)
    BY <2>1, <1>5, FrameTrans
  <2> QED BY <2>1, <2>2, <2>3
<1>10. State(k, S, G, m, L, one) /\ k \in Heaps /\ Tile(k, one) /\ L \in At(k) /\ L \notin G /\ NULL \notin At(k) /\ NULL \notin G
  BY <1>8, MidFacts
<1>11. k.blk[m].sz >= Lim(one) /\ k.blk[m].sz \in Nat
  <2>1. h.blk[m].sz >= Lim(one)
    BY <1>0 DEF State, Sized
  <2>2. h.blk[m].sz \in Nat /\ k.blk[m].sz \in Nat
    BY <1>0, <1>9, <1>10, TileFacts
  <2> QED BY <2>1, <2>2, <1>0, <1>9, LimFacts
<1>12. PICK lo : lo = k.blk[m].prev
  OBVIOUS
<1>13. lo # NULL => lo \in At(k) /\ k.blk[lo].next = m /\ lo # m
  <2>1. m \in Int
    BY <1>9, <1>10, TileFacts
  <2> QED BY <2>1, <1>9, <1>10, <1>12, PrevFacts
<1>14. ISFREE(k, lo) <=> lo \in G
  BY <1>10, <1>13, FreeIff
<1>15. dofree(h, m) = FreeJoined(combinelo(k, m))
  BY <1>3, <1>7, Zenon DEF dofree
<1>16. CASE lo \notin G
  <2>1. PICK r : r = [h |-> k, m |-> m]
    OBVIOUS
  <2>2. combinelo(k, m) = r
    BY <2>1, <1>12, <1>14, <1>16, Zenon DEF combinelo
  <2>3. r.h = k /\ r.m = m
    BY <2>1
  <2>4. Settled(FreeJoined(r), k, S, one)
    BY <2>3, <1>0, <1>8, <1>11, <1>12, <1>16, FreeJoinedOK
  <2>5. Frame(FreeJoined(r), h, S)
    <3>1. Frame(FreeJoined(r), k, S) /\ S \subseteq S
      BY <2>4 DEF Settled
    <3> QED BY <3>1, <1>9, FrameTrans
  <2> QED BY <2>2, <2>4, <2>5, <1>1, <1>15, Zenon DEF Settled
<1>17. CASE lo \in G
  <2>0. lo # NULL /\ k.blk[lo].next = m
    BY <1>10, <1>13, <1>17
  <2>1. PICK j : j = Join(extractfree(k, lo), lo)
    OBVIOUS
  <2>2. PICK r : r = [h |-> j, m |-> lo]
    OBVIOUS
  <2>3. combinelo(k, m) = r
    BY <2>0, <2>1, <2>2, <1>12, <1>14, <1>17, Zenon DEF combinelo
  <2>4. r.h = j /\ r.m = lo
    BY <2>2
  <2>5. State(j, S, G \ {lo}, lo, L, one) /\ Frame(j, k, S) /\ Merged(j, k, G, lo, m) /\ k.blk[lo].prev \notin G
    BY <2>1, <1>0, <1>10, <1>12, <1>17, JoinDown
  <2>6. /\ At(j) = At(k) \ {m} /\ SameTop(j, k) /\ j.blk[lo].prev = k.blk[lo].prev
        /\ j.blk[lo].sz = k.blk[lo].sz + k.blk[m].sz
        /\ \A a \in At(j) : a \notin G => /\ j.blk[a].nextfree = k.blk[a].nextfree
                                          /\ j.blk[a].prevfree = k.blk[a].prevfree
    BY <2>5 DEF Merged
  <2>7. j.blk[L].prevfree = k.blk[L].prevfree
    BY <2>6, <1>0, <1>10
  <2>8. PICK T : T = G \ {lo} /\ State(j, S, T, lo, L, one)
    BY <2>5
  <2>9. Mid(j, S, T, lo, L, one)
    BY <2>6, <2>7, <2>8, <1>8, MidStep
  <2>10. j.blk[lo].prev \notin T
    BY <2>5, <2>6, <2>8
  <2>11. j.blk[lo].sz >= Lim(one)
    <3>1. k.blk[lo].sz \in Nat
      BY <2>0, <1>10, <1>13, TileFacts
    <3> QED BY <3>1, <2>6, <1>0, <1>11, LimFacts
  <2>12. Settled(FreeJoined(r), j, S, one)
    BY <2>0, <2>4, <2>9, <2>10, <2>11, FreeJoinedOK
  <2>13. Frame(FreeJoined(r), h, S)
    <3>1. Frame(FreeJoined(r), j, S) /\ S \subseteq S
      BY <2>12 DEF Settled
    <3>2. Frame(j, h, S)
      BY <3>1, <2>5, <1>9, FrameTrans
    <3> QED BY <3>1, <3>2, FrameTrans
  <2> QED BY <2>3, <2>12, <2>13, <1>1, <1>15, Zenon DEF Settled
<1> QED BY <1>16, <1>17

\* An allocation is not taken for a free block.
LEMMA NotFouled ==
  ASSUME NEW h, NEW A, NEW F, NEW L, NEW one, Mid(h, A, F, NULL, L, one), NEW m \in A
  PROVE  ~ISFREE(h, m) /\ ~FOULED(h, m)
<1>0. /\ State(h, A, F, NULL, L, one) /\ m \in At(h) /\ m \notin F /\ m # NULL /\ lastsbrk(h) = L /\ L # NULL
  <2>1. /\ State(h, A, F, NULL, L, one) /\ A \subseteq At(h) /\ NULL \notin A /\ lastsbrk(h) = L /\ L # NULL
    BY MidFacts
  <2>2. m \notin F
    BY <2>1, StateFacts
  <2> QED BY <2>1, <2>2
<1>1. ~ISFREE(h, m)
  BY <1>0, FreeIff
<1>2. h.blk[m].nextfree = NULL
  BY <1>0 DEF State, Off
<1> QED BY <1>0, <1>1, <1>2 DEF FOULED

LEMMA NfreeOK ==
  ASSUME NEW h, NEW A, NEW F, NEW L, NEW one, Mid(h, A, F, NULL, L, one), NEW m \in A
  PROVE  Settled(nfree(h, m), h, A \ {m}, one)
<1>1. nfree(h, m) = dofree(h, m)
  BY NotFouled, Zenon DEF nfree
<1>2. Settled(dofree(h, m), h, A \ {m}, one)
  BY FreeOK
<1> QED BY <1>1, <1>2
\* x is the last block of its area, and not free.
Topmost(h, x) == h.blk[x].next = NULL /\ h.blk[x].nextfree = NULL /\ h.bad = ""

\* x, the last block of its area, keeps sz bytes; the rest becomes lastsbrk.
LEMMA CutLast ==
  ASSUME NEW h, NEW A, NEW F, NEW x, NEW one, State(h, A, F, x, NULL, one), NEW sz \in Int, Room(h, x, sz, one),
         Topmost(h, x), NEW m1, m1 = x + sz, NEW j, j = NewTop(__nmalloc_split(h, x, sz), m1)
  PROVE  Got(j, h, A, x, sz, one) /\ j.blk[x].prevfree = h.blk[x].prevfree
<1>0. x # NULL /\ x \notin A /\ x \notin F /\ x \in Int
  <2>1. x # NULL
    BY DEF Room
  <2>2. h \in Heaps /\ Tile(h, one) /\ x \in At(h) /\ x \notin A /\ x \notin F
    BY <2>1, StateFacts
  <2> QED BY <2>1, <2>2, TileFacts
<1>1. PICK g : g = __nmalloc_split(h, x, sz)
  OBVIOUS
<1>2. Halved(g, h, A, F, x, NULL, one, sz, m1)
  BY <1>1, CutX
<1>3. /\ State(g, A \union {x}, F, m1, NULL, one) /\ Frame(g, h, A) /\ SameTop(g, h) /\ m1 # NULL /\ m1 \in Int
      /\ g.blk[x].sz = sz /\ g.blk[x].prevfree = h.blk[x].prevfree
      /\ Header(g.blk[m1], x, h.blk[x].next, h.blk[x].sz - sz, h.blk[x].nextfree, JUNK)
  BY <1>2 DEF Halved
<1>4. g.blk[m1].next = NULL /\ g.blk[m1].nextfree = NULL /\ g.blk[m1].prev = x /\ g.blk[m1].prevfree = JUNK
  BY <1>3 DEF Header, Topmost
<1>5. PICK S : S = A \union {x}
  OBVIOUS
<1>6. State(g, S, F, NULL, m1, one)
  <2>1. State(g, S, F, m1, NULL, one) /\ g.blk[m1].prev \notin F
    BY <1>0, <1>3, <1>4, <1>5
  <2> QED BY <2>1, <1>3, <1>4, XtoL
<1>7. j = NewTop(g, m1)
  BY <1>1
<1>8. State(j, S, F, NULL, m1, one) /\ j.blk = g.blk /\ lastsbrk(j) = m1 /\ j.bad = g.bad
  BY <1>3, <1>6, <1>7, HeadState
<1>9. Mid(j, S, F, NULL, m1, one)
  BY <1>3, <1>4, <1>8 DEF Mid, SameTop, Topmost
<1>10. Frame(j, h, A) /\ j.blk[x].sz >= sz /\ j.blk[x].prevfree = h.blk[x].prevfree
  BY <1>3, <1>8 DEF Frame
<1> QED BY <1>0, <1>5, <1>9, <1>10 DEF Got

\* The sizes a call may ask for.
Need(szneed, one) == szneed \in Nat /\ Al(szneed) /\ szneed >= Lim(one) /\ szneed < pow2[W - 1]

LEMMA SplitLastOK ==
  ASSUME NEW h, NEW A, NEW F, NEW L, NEW one, Mid(h, A, F, NULL, L, one), NEW szneed, Need(szneed, one),
         h.blk[L].sz >= szneed + DATAOFFSET
  PROVE  Got(SplitLast(h, szneed), h, A, L, szneed, one)
<1>0. L # NULL /\ lastsbrk(h) = L /\ L \in At(h) /\ h.blk[L].next = NULL /\ State(h, A, F, NULL, L, one) /\ L \notin F
  BY MidFacts
<1>1. State(h, A, F, L, NULL, one)
  BY <1>0, LtoX
<1>2. Topmost(h, L)
  BY <1>0 DEF State, Off, Mid, Topmost
<1>3. Room(h, L, szneed, one) /\ szneed \in Int
  BY <1>0 DEF Room, Need
<1>4. PICK g : g = __nmalloc_split(h, L, szneed)
  OBVIOUS
<1>5. PICK m1 : m1 = L + szneed
  OBVIOUS
<1>6. g.freehdrs[0] = L
  <2>1. Halved(g, h, A, F, L, NULL, one, szneed, m1)
    BY <1>1, <1>3, <1>4, <1>5, CutX
  <2> QED BY <2>1, <1>0 DEF Halved, SameTop, lastsbrk
<1>7. SplitLast(h, szneed) = NewTop(g, m1)
  <2>1. SplitLast(h, szneed) = [g EXCEPT !.freehdrs[0] = g.freehdrs[0] + szneed]
    BY <1>0, <1>4, Zenon DEF SplitLast
  <2> QED BY <2>1, <1>5, <1>6, Zenon DEF NewTop
<1>8. PICK j : j = NewTop(g, m1)
  OBVIOUS
<1>9. Got(j, h, A, L, szneed, one)
  BY <1>0, <1>1, <1>2, <1>3, <1>4, <1>5, <1>8, CutLast
<1> QED BY <1>7, <1>8, <1>9

\* The first block m of a list is allocated.
LEMMA TakeOK ==
  ASSUME NEW h, NEW A, NEW F, NEW L, NEW one, Mid(h, A, F, NULL, L, one), NEW szneed, Need(szneed, one),
         NEW m \in F, m = h.freehdrs[B(h, m)], h.blk[m].sz >= szneed
  PROVE  Got(TakeFromList(h, m, szneed).h, h, A, m, szneed, one) /\ TakeFromList(h, m, szneed).m = m
<1>0. State(h, A, F, NULL, L, one) /\ L # NULL /\ m # NULL
  BY MidFacts
<1>1. PICK g : g = rmvfromfree(h, m)
  OBVIOUS
<1>2. /\ State(g, A, F \ {m}, m, L, one) /\ Frame(g, h, A) /\ SameTop(g, h) /\ SameChain(g, h)
      /\ g.blk[m].nextfree = NULL
      /\ (L # NULL => g.blk[m].next # L /\ g.blk[L].prevfree = h.blk[L].prevfree)
  BY <1>0, <1>1, TakeHead
<1>3. PICK G : G = F \ {m} /\ State(g, A, G, m, L, one)
  BY <1>2
<1>4. Mid(g, A, G, m, L, one)
  BY <1>0, <1>2, <1>3, MidStep
<1>5. g.blk[m].sz = h.blk[m].sz
  <2>1. m \in At(h)
    BY MidFacts
  <2> QED BY <2>1, <1>2 DEF SameChain
<1>6. PICK j : j = Trim(g, m, szneed)
  OBVIOUS
<1>7. Got(j, g, A, m, szneed, one)
  BY <1>0, <1>2, <1>4, <1>5, <1>6, TrimOK DEF Need
<1>8. TakeFromList(h, m, szneed).h = j /\ TakeFromList(h, m, szneed).m = m
  BY <1>1, <1>6 DEF TakeFromList
<1>9. Frame(j, h, A)
  <2>1. Frame(j, g, A) /\ A \subseteq A
    BY <1>7 DEF Got
  <2> QED BY <2>1, <1>2, FrameTrans
<1>10. Got(j, h, A, m, szneed, one)
  BY <1>7, <1>9 DEF Got
<1> QED BY <1>8, <1>10

LEMMA LeastExists ==
  ASSUME NEW S, NEW n \in Nat, S \subseteq 0..n, S # {}
  PROVE  \E c \in S : \A d \in S : c <= d
<1> DEFINE T == {n - c : c \in S}
<1>1. T \subseteq 0..n /\ T # {}
  <2>1. ASSUME NEW c \in S PROVE n - c \in 0..n
    <3>1. c \in 0..n
      OBVIOUS
    <3> QED BY <3>1
  <2>2. PICK c : c \in S
    OBVIOUS
  <2>3. n - c \in T
    BY <2>2
  <2> QED BY <2>1, <2>3
<1>2. PICK x \in T : \A y \in T : x >= y
  <2>1. 0 \in Int /\ n \in Int
    OBVIOUS
  <2> HIDE DEF T
  <2> QED BY <2>1, <1>1, GreatestExists
<1>3. PICK c \in S : x = n - c
  OBVIOUS
<1>4. ASSUME NEW d \in S PROVE c <= d
  <2>1. n - d \in T
    OBVIOUS
  <2>2. n - c >= n - d
    BY <2>1, <1>2, <1>3
  <2> QED BY <2>2
<1> QED BY <1>4

\* The head that searchfree finds is large enough.
LEMMA SearchOK ==
  ASSUME NEW h, NEW A, NEW F, NEW L, NEW one, Mid(h, A, F, NULL, L, one), NEW szneed, Need(szneed, one),
         NEW b, b = searchfree(h, szneed), b # 0, NEW m, m = h.freehdrs[b]
  PROVE  m \in F /\ m = h.freehdrs[B(h, m)] /\ h.blk[m].sz >= szneed
<1>0. /\ h \in Heaps /\ Tile(h, one) /\ one \in BOOLEAN /\ F \subseteq At(h) /\ NULL \notin F
      /\ ListsOK(h, F)
  <2>1. /\ h \in Heaps /\ Tile(h, one) /\ one \in BOOLEAN /\ F \subseteq At(h) /\ NULL \notin F
        /\ State(h, A, F, NULL, L, one)
    BY MidFacts
  <2> QED BY <2>1, StateFacts
<1>1. szneed \in Nat /\ szneed >= DATAOFFSET /\ szneed < pow2[W - 1]
  BY <1>0, LimFacts, OffsetAligned DEF Need
<1>2. PICK c \in 2..(NFLISTS - 1) : c = size2bucket(szneed)
  BY <1>1, BucketRange
<1>3. c \in Buckets /\ W \in Nat
  BY WidthAssumption DEF Buckets, NFLISTS
<1> DEFINE up == {d \in (size2bucket(szneed) + 1)..(NFLISTS - 1) : h.freehdrs[d] # NULL}
<1>4. b = IF h.freehdrs[c] # NULL /\ h.blk[h.freehdrs[c]].sz >= szneed THEN c
          ELSE IF up # {} THEN CHOOSE e \in up : \A d \in up : e <= d ELSE 0
  <2>1. b = IF h.freehdrs[size2bucket(szneed)] # NULL /\ h.blk[h.freehdrs[size2bucket(szneed)]].sz >= szneed
            THEN size2bucket(szneed)
            ELSE IF up # {} THEN CHOOSE e \in up : \A d \in up : e <= d ELSE 0
    BY Zenon DEF searchfree
  <2> HIDE DEF up
  <2> QED BY <2>1, <1>2
<1>5. ASSUME NEW d \in Buckets, h.freehdrs[d] # NULL
      PROVE  h.freehdrs[d] \in F /\ B(h, h.freehdrs[d]) = d
  BY <1>0, <1>5 DEF ListsOK, HeadOK
<1>6. CASE h.freehdrs[c] # NULL /\ h.blk[h.freehdrs[c]].sz >= szneed
  <2>1. b = c
    BY <1>4, <1>6
  <2> QED BY <2>1, <1>3, <1>5, <1>6
<1>7. CASE ~(h.freehdrs[c] # NULL /\ h.blk[h.freehdrs[c]].sz >= szneed)
  <2>1. up # {} /\ b = CHOOSE e \in up : \A d \in up : e <= d
    BY <1>4, <1>7
  <2>2. up \subseteq 0..W
    BY <1>2, <1>3 DEF NFLISTS
  <2>3. \E e \in up : \A d \in up : e <= d
    <3> HIDE DEF up
    <3> QED BY <2>1, <2>2, <1>3, LeastExists
  <2>4. b \in up
    <3> HIDE DEF up
    <3> QED BY <2>1, <2>3
  <2>5. b \in Int /\ b > c /\ b \in Buckets /\ h.freehdrs[b] # NULL
    BY <2>4, <1>2, <1>3 DEF Buckets, NFLISTS
  <2>6. m \in F /\ B(h, m) = b
    BY <2>5, <1>5
  <2>7. h.blk[m].sz \in Nat /\ h.blk[m].sz < pow2[W - 1] /\ size2bucket(h.blk[m].sz) = b
    BY <2>6, <1>0, TileFacts DEF B
  <2>8. szneed < h.blk[m].sz
    BY <2>5, <2>7, <1>1, <1>2, BucketOrder
  <2> QED BY <2>6, <2>7, <2>8, <1>1
<1> QED BY <1>6, <1>7
-----------------------------------------------------------------------------
(* Memory from the system. *)

Least(szneed) ==
  IF szneed + 2 * ALIGN + DATAOFFSET < MINSBRK THEN MINSBRK ELSE szneed + 2 * ALIGN + DATAOFFSET
Expected(h) == IF lastsbrk(h) # NULL THEN lastsbrk(h) + h.blk[lastsbrk(h)].sz ELSE NULL
Extra(h, szneed) == Least(szneed) + ToAligned(Expected(h))
Start(h) == h.brk + ToAligned(h.brk)
NewHeader(sz) == [prev |-> NULL, next |-> NULL, sz |-> sz, nextfree |-> NULL, prevfree |-> JUNK]
NewArea(h, szneed) == Begun(h, Start(h), Extra(h, szneed), NewHeader(Extra(h, szneed) - ToAligned(h.brk)))
OldFreed(h, g) == IF lastsbrk(h) # NULL THEN mv2freelist(g, lastsbrk(h)) ELSE g

LEMMA ExtendCases ==
  ASSUME NEW h, NEW szneed
  PROVE  extendsbrk(h, szneed) =
           IF h.brk + Extra(h, szneed) > MaxBrk THEN [h |-> h, m |-> NULL]
           ELSE IF h.brk = Expected(h)
                THEN [h |-> Continued(h, lastsbrk(h), Extra(h, szneed)), m |-> lastsbrk(h)]
           ELSE [h |-> NewTop(OldFreed(h, NewArea(h, szneed)), Start(h)), m |-> Start(h)]
BY Zenon DEF extendsbrk, Least, Expected, Extra, Start, NewHeader, NewArea, OldFreed, NewTop, Begun, Continued, Moved

LEMMA ExtraFacts ==
  ASSUME NEW h, h.brk \in Int, Expected(h) \in Int, NEW szneed \in Nat
  PROVE  /\ Extra(h, szneed) \in Nat /\ Extra(h, szneed) >= szneed + 2 * ALIGN + DATAOFFSET
         /\ Start(h) \in Int /\ Start(h) >= h.brk /\ Start(h) < h.brk + ALIGN /\ Al(Start(h))
         /\ Extra(h, szneed) - ToAligned(h.brk) \in Int
         /\ Extra(h, szneed) - ToAligned(h.brk) >= szneed + MINSAVE
         /\ Start(h) + (Extra(h, szneed) - ToAligned(h.brk)) = h.brk + Extra(h, szneed)
<1>0. ALIGN \in Nat /\ DATAOFFSET \in Nat /\ MINSBRK \in Nat /\ ALIGN >= 1
  BY LayoutAssumption, OffsetAligned
<1>1. PICK e \in 0..(ALIGN - 1) : e = ToAligned(Expected(h))
  BY ToAlignedFacts
<1>2. PICK d \in 0..(ALIGN - 1) : d = ToAligned(h.brk) /\ Al(h.brk + d)
  BY ToAlignedFacts
<1>3. PICK l \in Nat : l = Least(szneed) /\ l >= szneed + 2 * ALIGN + DATAOFFSET
  <2>1. szneed + 2 * ALIGN + DATAOFFSET \in Nat
    BY <1>0
  <2> QED BY <2>1, <1>0 DEF Least
<1>4. PICK b \in Int : b = h.brk
  OBVIOUS
<1>5. Extra(h, szneed) = l + e /\ Start(h) = b + d /\ MINSAVE = ALIGN + DATAOFFSET
  BY <1>1, <1>2, <1>3, <1>4 DEF Extra, Start, MINSAVE
<1>6. d \in Nat /\ e \in Nat /\ d < ALIGN /\ e < ALIGN
  BY <1>0
<1>7. l + e \in Nat /\ l + e >= szneed + 2 * ALIGN + DATAOFFSET /\ (l + e) - d >= szneed + (ALIGN + DATAOFFSET)
      /\ (b + d) + ((l + e) - d) = b + (l + e) /\ b + d >= b /\ b + d < b + ALIGN
  BY <1>0, <1>3, <1>6
<1> QED BY <1>2, <1>4, <1>5, <1>6, <1>7

\* The heap has a last block r.m with room for szneed bytes and a block more.
Extended(r, h, A, szneed, one) ==
  /\ Frame(r.h, h, A) /\ r.m # NULL /\ lastsbrk(r.h) = r.m /\ r.h.blk[r.m].sz >= szneed + MINSAVE
  /\ \E F : Mid(r.h, A, F, NULL, r.m, one)

LEMMA FreshFacts ==
  ASSUME NEW sz \in Int
  PROVE  Fresh(NewHeader(sz), sz)
BY Codes DEF Fresh, NewHeader, Header, Block

LEMMA ExtendContinue ==
  ASSUME NEW h, NEW A, NEW F, NEW L, NEW one, Mid(h, A, F, NULL, L, one), NEW szneed \in Nat, h.brk = Expected(h),
         NEW n, n = Extra(h, szneed), h.brk + n <= MaxBrk, NEW r, r.m = L, r.h = Continued(h, L, n)
  PROVE  Extended(r, h, A, szneed, one)
<1>0. State(h, A, F, NULL, L, one) /\ L # NULL /\ L \in At(h) /\ h \in Heaps /\ Tile(h, one) /\ lastsbrk(h) = L
  BY MidFacts
<1>1. L \in Int /\ h.blk[L].sz \in Nat /\ h.brk \in Int
  BY <1>0, TileFacts
<1>2. h.brk = L + h.blk[L].sz
  BY <1>0 DEF Expected
<1>3. n \in Nat /\ n >= szneed + 2 * ALIGN + DATAOFFSET
  BY <1>1, ExtraFacts
<1>4. PICK j : j = Continued(h, L, n)
  OBVIOUS
<1>5. /\ State(j, A, F, NULL, L, one) /\ Frame(j, h, A) /\ SameTop(j, h)
      /\ j.blk[L].sz = h.blk[L].sz + n /\ j.blk[L].prevfree = h.blk[L].prevfree
  <2>1. L + h.blk[L].sz = h.brk
    BY <1>2
  <2> QED BY <2>1, <1>0, <1>3, <1>4, GrowState
<1>6. Mid(j, A, F, NULL, L, one)
  BY <1>5, MidStep
<1>7. j.blk[L].sz >= szneed + MINSAVE
  BY <1>1, <1>3, <1>5, OffsetAligned DEF MINSAVE
<1>8. lastsbrk(j) = L /\ r.h = j
  BY <1>0, <1>4, <1>5 DEF SameTop
<1> QED BY <1>0, <1>5, <1>6, <1>7, <1>8 DEF Extended

LEMMA ExtendFirst ==
  ASSUME NEW h, NEW one, Empty(h, one), NEW szneed \in Nat, NEW n, n = Extra(h, szneed), h.brk + n <= MaxBrk,
         NEW r, r.m = Start(h), r.h = NewTop(NewArea(h, szneed), Start(h))
  PROVE  Extended(r, h, {}, szneed, one)
<1>0. State(h, {}, {}, NULL, NULL, one) /\ lastsbrk(h) = NULL
  BY DEF Empty
<1>1. h \in Heaps /\ Tile(h, one) /\ At(h) = {}
  <2>1. At(h) = {}
    BY <1>0 DEF State, Parts
  <2> QED BY <2>1, <1>0, StateFacts
<1>2. h.brk \in Int /\ Expected(h) \in Int
  BY <1>0, <1>1, HeapFacts, Codes DEF Expected
<1>3. PICK m \in Int, sz \in Int : m = Start(h) /\ sz = n - ToAligned(h.brk)
  BY <1>2, ExtraFacts
<1>4. n \in Nat /\ m >= h.brk /\ Al(m) /\ sz >= szneed + MINSAVE /\ m + sz = h.brk + n
  BY <1>2, <1>3, ExtraFacts
<1>5. PICK new : new = NewHeader(sz)
  OBVIOUS
<1>6. Fresh(new, sz)
  BY <1>5, FreshFacts
<1>7. sz >= DATAOFFSET
  BY <1>4, OffsetAligned DEF MINSAVE
<1>8. PICK g : g = Begun(h, m, n, new)
  OBVIOUS
<1>9. NewArea(h, szneed) = g
  BY <1>3, <1>5, <1>8 DEF NewArea
<1>10. /\ State(g, {}, {}, NULL, m, one) /\ Frame(g, h, {}) /\ SameTop(g, h) /\ m # NULL /\ g.blk[m] = new
  BY <1>0, <1>1, <1>4, <1>6, <1>7, <1>8, BeginState
<1>11. PICK j : j = NewTop(g, m)
  OBVIOUS
<1>12. State(j, {}, {}, NULL, m, one) /\ j.blk = g.blk /\ lastsbrk(j) = m /\ j.bad = g.bad
  BY <1>10, <1>11, HeadState
<1>13. new.sz = sz /\ new.prevfree = JUNK
  BY <1>6 DEF Fresh, Header
<1>14. Mid(j, {}, {}, NULL, m, one)
  BY <1>10, <1>12, <1>13 DEF Mid, SameTop, Empty
<1>15. r.h = j /\ r.m = m
  BY <1>3, <1>9, <1>11
<1>16. j.blk[m].sz >= szneed + MINSAVE
  BY <1>4, <1>10, <1>12, <1>13
<1>17. Frame(j, h, {})
  BY DEF Frame
<1> QED BY <1>10, <1>12, <1>14, <1>15, <1>16, <1>17 DEF Extended

LEMMA ExtendNew ==
  ASSUME NEW h, NEW A, NEW F, NEW L, NEW one, Mid(h, A, F, NULL, L, one), NEW szneed \in Nat, h.brk # Expected(h),
         NEW n, n = Extra(h, szneed), h.brk + n <= MaxBrk,
         NEW r, r.m = Start(h), r.h = NewTop(mv2freelist(NewArea(h, szneed), L), Start(h))
  PROVE  Extended(r, h, A, szneed, one)
<1>0. /\ State(h, A, F, NULL, L, one) /\ L # NULL /\ L \in At(h) /\ h \in Heaps /\ Tile(h, one) /\ lastsbrk(h) = L
      /\ h.blk[L].next = NULL /\ NULL \notin F /\ L \notin F /\ one \in BOOLEAN /\ NULL \notin At(h)
  BY MidFacts
<1>1. L \in Int /\ h.blk[L].sz \in Nat /\ h.brk \in Int /\ h.blk[L].sz >= DATAOFFSET
  BY <1>0, TileFacts
<1>2. Expected(h) = L + h.blk[L].sz /\ Expected(h) \in Int
  BY <1>0, <1>1 DEF Expected
<1>3. ~one
  <2> SUFFICES ASSUME one PROVE FALSE
    OBVIOUS
  <2>1. EndOK(h, L)
    BY <1>0 DEF Tile
  <2> QED BY <2>1, <1>0, <1>2 DEF EndOK
<1>4. State(h, A, F, L, NULL, one)
  BY <1>0, LtoX
<1>5. PICK m \in Int, sz \in Int : m = Start(h) /\ sz = n - ToAligned(h.brk)
  BY <1>1, <1>2, ExtraFacts
<1>6. n \in Nat /\ m >= h.brk /\ Al(m) /\ sz >= szneed + MINSAVE /\ m + sz = h.brk + n
  BY <1>1, <1>2, <1>5, ExtraFacts
<1>7. PICK new : new = NewHeader(sz)
  OBVIOUS
<1>8. Fresh(new, sz)
  BY <1>7, FreshFacts
<1>9. sz >= DATAOFFSET
  BY <1>6, OffsetAligned DEF MINSAVE
<1>10. PICK g : g = Begun(h, m, n, new)
  OBVIOUS
<1>11. NewArea(h, szneed) = g
  BY <1>5, <1>7, <1>10 DEF NewArea
<1>12. /\ State(g, A, F, L, m, one) /\ Frame(g, h, A) /\ SameTop(g, h) /\ m # NULL /\ g.blk[m] = new
       /\ \A a \in At(h) : g.blk[a] = h.blk[a]
  BY <1>3, <1>4, <1>6, <1>8, <1>9, <1>10, BeginState
<1>13. g.blk[L] = h.blk[L] /\ lastsbrk(g) = L /\ g.bad = ""
  BY <1>0, <1>12 DEF SameTop, Mid
<1>14. h.blk[L].prev \notin F
  <2> SUFFICES ASSUME h.blk[L].prev \in F PROVE FALSE
    OBVIOUS
  <2>1. PICK q : q = h.blk[L].prev /\ q \in F /\ q # NULL
    BY <1>0
  <2>2. h.blk[q].next = L
    BY <2>1, <1>0, PrevFacts
  <2> QED BY <2>1, <2>2, <1>0 DEF State, Apart2
<1>15. Loose(g, F, L, m, one)
  BY <1>0, <1>1, <1>3, <1>12, <1>13, <1>14 DEF Loose, Lim
<1>16. PICK k : k = PutOnList(g, L)
  OBVIOUS
<1>17. mv2freelist(g, L) = k
  <2>1. g.blk[L].next = NULL
    BY <1>0, <1>13
  <2>2. JoinFreeAbove(g, L) = g
    BY <2>1 DEF JoinFreeAbove, ISFREE
  <2>3. ToLastOrList(g, L) = k
    BY <2>1, <1>0, <1>13, <1>16, Zenon DEF ToLastOrList
  <2> QED BY <2>2, <2>3 DEF mv2freelist
<1>18. /\ State(k, A, F \union {L}, NULL, m, one) /\ Frame(k, g, A) /\ SameTop(k, g) /\ SameChain(k, g)
       /\ (m # NULL => k.blk[m].prevfree = g.blk[m].prevfree)
  BY <1>12, <1>15, <1>16, PutX
<1>19. PICK j, G : j = NewTop(k, m) /\ G = F \union {L}
  OBVIOUS
<1>20. State(j, A, G, NULL, m, one) /\ j.blk = k.blk /\ lastsbrk(j) = m /\ j.bad = k.bad
  BY <1>18, <1>19, HeadState
<1>21. new.sz = sz /\ new.prevfree = JUNK
  BY <1>8 DEF Fresh, Header
<1>22. m \in At(g)
  BY <1>12, StateFacts
<1>23. j.blk[m].prevfree = JUNK /\ j.blk[m].sz = sz
  BY <1>12, <1>18, <1>20, <1>21, <1>22 DEF SameChain
<1>24. j.bad = ""
  BY <1>13, <1>18, <1>20 DEF SameTop
<1>25. Mid(j, A, G, NULL, m, one)
  BY <1>12, <1>20, <1>23, <1>24 DEF Mid
<1>26. Frame(j, h, A)
  <2>1. Frame(j, g, A)
    BY <1>18, <1>20 DEF Frame
  <2> QED BY <2>1, <1>12, FrameTrans
<1>27. r.h = j /\ r.m = m
  BY <1>5, <1>11, <1>17, <1>19
<1>28. j.blk[m].sz >= szneed + MINSAVE
  BY <1>6, <1>23
<1> QED BY <1>12, <1>20, <1>25, <1>26, <1>27, <1>28 DEF Extended

\* sbrk fails, or extends the heap.
LEMMA ExtendOK ==
  ASSUME NEW h, NEW A, NEW one, Good(h, A, one), NEW szneed \in Nat, NEW r, r = extendsbrk(h, szneed)
  PROVE  (r.m = NULL /\ r.h = h) \/ Extended(r, h, A, szneed, one)
<1>1. PICK n : n = Extra(h, szneed)
  OBVIOUS
<1>2. h.brk \in Int /\ n \in Int /\ MaxBrk \in Int
  <2>1. h \in Heaps
    BY MidFacts, StateFacts DEF Good, Empty
  <2>2. h.brk \in Int
    BY <2>1, HeapFacts
  <2>3. Expected(h) \in Int
    <3>1. CASE lastsbrk(h) = NULL
      BY <3>1, Codes DEF Expected
    <3>2. CASE \E F, L : Mid(h, A, F, NULL, L, one)
      <4>1. PICK F, L : Mid(h, A, F, NULL, L, one)
        BY <3>2
      <4>2. L # NULL /\ L \in At(h) /\ h \in Heaps /\ Tile(h, one) /\ lastsbrk(h) = L
        BY <4>1, MidFacts
      <4>3. L \in Int /\ h.blk[L].sz \in Nat
        BY <4>2, TileFacts
      <4> QED BY <4>2, <4>3 DEF Expected
    <3> QED BY <3>1, <3>2 DEF Good, Empty
  <2> QED BY <2>2, <2>3, <1>1, ExtraFacts, Halves
<1>3. CASE h.brk + n > MaxBrk
  <2>1. r = [h |-> h, m |-> NULL]
    BY <1>1, <1>3, ExtendCases, Zenon
  <2> QED BY <2>1
<1>4. CASE ~(h.brk + n > MaxBrk)
  <2>0. h.brk + n <= MaxBrk
    BY <1>2, <1>4
  <2>1. CASE \E F, L : Mid(h, A, F, NULL, L, one)
    <3>1. PICK F, L : Mid(h, A, F, NULL, L, one)
      BY <2>1
    <3>2. lastsbrk(h) = L /\ L # NULL
      BY <3>1, MidFacts
    <3>3. CASE h.brk = Expected(h)
      <4>1. r = [h |-> Continued(h, L, n), m |-> L]
        BY <3>2, <3>3, <1>1, <1>4, ExtendCases, Zenon
      <4>2. r.h = Continued(h, L, n) /\ r.m = L
        BY <4>1
      <4> QED BY <4>2, <3>1, <3>3, <2>0, <1>1, ExtendContinue
    <3>4. CASE h.brk # Expected(h)
      <4>1. r = [h |-> NewTop(OldFreed(h, NewArea(h, szneed)), Start(h)), m |-> Start(h)]
        BY <3>4, <1>1, <1>4, ExtendCases, Zenon
      <4>2. OldFreed(h, NewArea(h, szneed)) = mv2freelist(NewArea(h, szneed), L)
        BY <3>2 DEF OldFreed
      <4>3. r.h = NewTop(mv2freelist(NewArea(h, szneed), L), Start(h)) /\ r.m = Start(h)
        BY <4>1, <4>2
      <4> QED BY <4>3, <3>1, <3>4, <2>0, <1>1, ExtendNew
    <3> QED BY <3>3, <3>4
  <2>2. CASE A = {} /\ Empty(h, one)
    <3>1. lastsbrk(h) = NULL /\ Expected(h) = NULL
      BY <2>2 DEF Empty, Expected
    <3>2. h.brk # Expected(h)
      <4>0. State(h, {}, {}, NULL, NULL, one)
        BY <2>2 DEF Empty
      <4>1. Tile(h, one)
        BY <4>0, StateFacts
      <4> QED BY <4>1, <3>1, <1>2, Halves, Codes DEF Tile
    <3>3. r = [h |-> NewTop(OldFreed(h, NewArea(h, szneed)), Start(h)), m |-> Start(h)]
      BY <3>2, <1>1, <1>4, ExtendCases, Zenon
    <3>4. OldFreed(h, NewArea(h, szneed)) = NewArea(h, szneed)
      BY <3>1 DEF OldFreed
    <3>5. r.h = NewTop(NewArea(h, szneed), Start(h)) /\ r.m = Start(h)
      BY <3>3, <3>4
    <3>6. Extended(r, h, {}, szneed, one)
      BY <3>5, <2>0, <2>2, <1>1, ExtendFirst
    <3> QED BY <3>6, <2>2
  <2> QED BY <2>1, <2>2 DEF Good
<1> QED BY <1>3, <1>4
-----------------------------------------------------------------------------
(* The functions the program calls. *)

\* No list of an empty heap has a block.
LEMMA SearchEmpty ==
  ASSUME NEW h, NEW one, Empty(h, one), NEW szneed, Need(szneed, one)
  PROVE  searchfree(h, szneed) = 0
<1>0. ListsOK(h, {}) /\ one \in BOOLEAN
  <2>1. State(h, {}, {}, NULL, NULL, one)
    BY DEF Empty
  <2> QED BY <2>1, StateFacts
<1>1. \A d \in Buckets : h.freehdrs[d] = NULL
  BY <1>0 DEF ListsOK, HeadOK
<1>2. szneed \in Nat /\ szneed >= DATAOFFSET /\ szneed < pow2[W - 1]
  BY <1>0, LimFacts, OffsetAligned DEF Need
<1>3. size2bucket(szneed) \in 2..(NFLISTS - 1)
  BY <1>2, BucketRange
<1>4. h.freehdrs[size2bucket(szneed)] = NULL
  BY <1>1, <1>3 DEF Buckets
<1>5. {d \in (size2bucket(szneed) + 1)..(NFLISTS - 1) : h.freehdrs[d] # NULL} = {}
  BY <1>1, <1>3 DEF Buckets
<1> QED BY <1>4, <1>5, Zenon DEF searchfree

LEMMA NeedFacts ==
  ASSUME NEW size \in Nat, Fits(Nonzero(size)), NEW szneed, szneed = roundup(Nonzero(size)), NEW one \in BOOLEAN
  PROVE  /\ szneed \in Nat /\ szneed >= size + DATAOFFSET /\ szneed > DATAOFFSET
         /\ (szneed <= MaxRequest => Need(szneed, one))
<1>1. Nonzero(size) \in Nat /\ Nonzero(size) >= 1 /\ Nonzero(size) >= size
  BY DEF Nonzero
<1>2. szneed \in Nat /\ Al(szneed) /\ szneed >= Nonzero(size) + DATAOFFSET /\ szneed >= MINSAVE
  BY <1>1, RoundupFacts
<1>3. szneed >= Lim(one)
  BY <1>2, LimFacts
<1>4. szneed <= MaxRequest => szneed < pow2[W - 1]
  BY <1>2, Halves
<1> QED BY <1>1, <1>2, <1>3, <1>4, OffsetAligned DEF Need

\* A block is had from the system.
LEMMA SystemOK ==
  ASSUME NEW h, NEW A, NEW one, Good(h, A, one), NEW szneed, Need(szneed, one),
         NEW x, x = extendsbrk(h, szneed), NEW r, r = TakeFromSystem(x, szneed)
  PROVE  (r.m = NULL /\ r.h = h) \/ Got(r.h, h, A, r.m, szneed, one)
<1>0. szneed \in Nat
  BY DEF Need
<1>1. (x.m = NULL /\ x.h = h) \/ Extended(x, h, A, szneed, one)
  BY <1>0, ExtendOK
<1>2. CASE x.m = NULL /\ x.h = h
  BY <1>2 DEF TakeFromSystem
<1>3. CASE Extended(x, h, A, szneed, one)
  <2>1. PICK F : Mid(x.h, A, F, NULL, x.m, one)
    BY <1>3 DEF Extended
  <2>2. PICK g, L : g = x.h /\ L = x.m
    OBVIOUS
  <2>3. Mid(g, A, F, NULL, L, one) /\ Frame(g, h, A) /\ L # NULL /\ g.blk[L].sz >= szneed + MINSAVE
    BY <2>1, <2>2, <1>3 DEF Extended
  <2>4. g.blk[L].sz \in Nat
    <3>1. g \in Heaps /\ Tile(g, one) /\ L \in At(g)
      BY <2>3, MidFacts
    <3> QED BY <3>1, TileFacts
  <2>5. ~(g.blk[L].sz < szneed + MINSAVE) /\ g.blk[L].sz >= szneed + DATAOFFSET
    BY <2>3, <2>4, <1>0, OffsetAligned DEF MINSAVE
  <2>6. Got(SplitLast(g, szneed), g, A, L, szneed, one)
    BY <2>3, <2>5, SplitLastOK
  <2>7. r.h = SplitLast(g, szneed) /\ r.m = L
    <3>1. r = [h |-> SplitLast(x.h, szneed), m |-> x.m]
      BY <2>2, <2>3, <2>5, Zenon DEF TakeFromSystem
    <3> QED BY <3>1, <2>2
  <2>8. PICK j : j = SplitLast(g, szneed)
    OBVIOUS
  <2>9. Frame(j, h, A)
    <3>1. Frame(j, g, A) /\ A \subseteq A
      BY <2>6, <2>8 DEF Got
    <3> QED BY <3>1, <2>3, FrameTrans
  <2>10. Got(j, h, A, L, szneed, one)
    BY <2>6, <2>8, <2>9 DEF Got
  <2> QED BY <2>7, <2>8, <2>10
<1> QED BY <1>1, <1>2, <1>3

LEMMA NmallocOK ==
  ASSUME NEW h, NEW A, NEW one, Good(h, A, one), NEW size \in Nat, Fits(Nonzero(size)),
         NEW szneed, szneed = roundup(Nonzero(size)), NEW r, r = nmalloc(h, size)
  PROVE  (r.m = NULL /\ r.h = h) \/ Got(r.h, h, A, r.m, szneed, one)
<1>0. one \in BOOLEAN
  <2>1. \A F, L : Mid(h, A, F, NULL, L, one) => one \in BOOLEAN
    BY MidFacts
  <2>2. Empty(h, one) => State(h, {}, {}, NULL, NULL, one)
    BY DEF Empty
  <2>3. State(h, {}, {}, NULL, NULL, one) => one \in BOOLEAN
    BY StateFacts
  <2> QED BY <2>1, <2>2, <2>3 DEF Good
<1>1. szneed \in Nat /\ (szneed <= MaxRequest => Need(szneed, one)) /\ MaxRequest \in Nat
  BY <1>0, NeedFacts, Halves
<1>2. PICK b : b = searchfree(h, szneed)
  OBVIOUS
<1>3. r = IF szneed >= MaxRequest THEN [h |-> h, m |-> NULL]
          ELSE IF b # 0 THEN TakeFromList(h, h.freehdrs[b], szneed)
          ELSE IF LastHolds(h, szneed) THEN [h |-> SplitLast(h, szneed), m |-> lastsbrk(h)]
          ELSE TakeFromSystem(extendsbrk(h, szneed), szneed)
  BY <1>2, Zenon DEF nmalloc
<1>4. CASE szneed >= MaxRequest
  <2>1. r = [h |-> h, m |-> NULL]
    BY <1>3, <1>4
  <2> QED BY <2>1
<1>5. CASE ~(szneed >= MaxRequest)
  <2>0. Need(szneed, one)
    BY <1>1, <1>5
  <2>1. CASE b # 0
    <3>1. PICK F, L : Mid(h, A, F, NULL, L, one)
      BY <2>0, <2>1, <1>2, SearchEmpty DEF Good
    <3>2. PICK m : m = h.freehdrs[b]
      OBVIOUS
    <3>3. m \in F /\ m = h.freehdrs[B(h, m)] /\ h.blk[m].sz >= szneed
      BY <3>1, <3>2, <2>0, <2>1, <1>2, SearchOK
    <3>4. Got(TakeFromList(h, m, szneed).h, h, A, m, szneed, one) /\ TakeFromList(h, m, szneed).m = m
      BY <3>1, <3>3, <2>0, TakeOK
    <3>5. r = TakeFromList(h, m, szneed)
      BY <3>2, <2>1, <1>3, <1>5, Zenon
    <3> QED BY <3>4, <3>5
  <2>2. CASE b = 0 /\ LastHolds(h, szneed)
    <3>1. PICK F, L : Mid(h, A, F, NULL, L, one)
      BY <2>2 DEF Good, Empty, LastHolds
    <3>2. lastsbrk(h) = L
      BY <3>1, MidFacts
    <3>3. h.blk[L].sz >= szneed + DATAOFFSET
      BY <3>2, <2>2 DEF LastHolds
    <3>4. Got(SplitLast(h, szneed), h, A, L, szneed, one)
      BY <3>1, <3>3, <2>0, SplitLastOK
    <3>5. r = [h |-> SplitLast(h, szneed), m |-> L]
      BY <3>2, <2>2, <1>3, <1>5, Zenon
    <3> QED BY <3>4, <3>5
  <2>3. CASE b = 0 /\ ~LastHolds(h, szneed)
    <3>1. r = TakeFromSystem(extendsbrk(h, szneed), szneed)
      BY <2>3, <1>3, <1>5, Zenon
    <3> QED BY <3>1, <2>0, SystemOK
  <2> QED BY <2>1, <2>2, <2>3
<1> QED BY <1>4, <1>5
\* A word is written to m, which is not free.
Wrote(j, h, m, v) ==
  /\ SameChain(j, h) /\ SameTop(j, h) /\ j.blk[m].nextfree = h.blk[m].nextfree /\ j.blk[m].prevfree = v
  /\ \A a \in At(h) : a # m => j.blk[a] = h.blk[a]

LEMMA WriteState ==
  ASSUME NEW h, NEW A, NEW F, NEW x, NEW L, NEW one, State(h, A, F, x, L, one), NEW m \in At(h), m \notin F,
         NEW v \in Int, NEW j, j = Written(h, m, v)
  PROVE  State(j, A, F, x, L, one) /\ Frame(j, h, A \ {m}) /\ Wrote(j, h, m, v)
<1>0. h \in Heaps
  BY StateFacts
<1>1. PICK n : n = h.blk[m].nextfree
  OBVIOUS
<1>2. Changed(j, h, m, h.blk[m].sz, n, v) /\ SameRest(j, h)
  BY <1>0, <1>1, WriteFacts
<1>3. j.brk = h.brk /\ SameHeads(j, h) /\ SameTop(j, h)
  BY <1>2, Zenon DEF SameRest, SameHeads, SameTop, lastsbrk
<1>4. /\ State(j, A, F, x, L, one) /\ SameChain(j, h) /\ Frame(j, h, A \ {m})
      /\ j.blk[m].nextfree = n /\ j.blk[m].prevfree = v
  <2>1. Marked(j, h, m, x, n, v)
    BY <1>1, <1>2, <1>3 DEF Marked
  <2> QED BY <2>1, ChangeState
<1>5. \A a \in At(h) : a # m => j.blk[a] = h.blk[a]
  BY <1>2 DEF Changed
<1> QED BY <1>1, <1>3, <1>4, <1>5 DEF Wrote

\* What m held is in the block to, which has room for szneed bytes, and m is free unless it is to.
Kept(j, h, A, m, to, szneed, one) ==
  Got(j, h, A \ {m}, to, szneed, one) /\ j.blk[to].prevfree = h.blk[m].prevfree

LEMMA KeptFrom ==
  ASSUME NEW h, NEW g, NEW j, NEW A, NEW m \in A, NEW to, NEW szneed, NEW one, Frame(g, h, A),
         Kept(j, g, A, m, to, szneed, one)
  PROVE  Kept(j, h, A, m, to, szneed, one)
<1>1. PICK S : S = A \ {m}
  OBVIOUS
<1>2. Got(j, g, S, to, szneed, one) /\ j.blk[to].prevfree = h.blk[m].prevfree
  BY <1>1 DEF Kept, Frame
<1>3. Frame(j, g, S) /\ Frame(g, h, S) /\ S \subseteq S
  BY <1>1, <1>2 DEF Got, Frame
<1>4. Frame(j, h, S)
  BY <1>3, FrameTrans
<1>5. Got(j, h, S, to, szneed, one)
  BY <1>2, <1>4 DEF Got
<1> QED BY <1>1, <1>2, <1>5 DEF Kept

\* m, an allocation, is taken up.
LEMMA TakeUp ==
  ASSUME NEW h, NEW A, NEW F, NEW L, NEW one, Mid(h, A, F, NULL, L, one), NEW m \in A
  PROVE  /\ Mid(h, A \ {m}, F, m, L, one) /\ m # NULL /\ m \in At(h) /\ m \notin F /\ h.blk[m].nextfree = NULL
         /\ h.blk[m].sz \in Nat /\ h.blk[m].sz < pow2[W - 1]
<1>1. /\ State(h, A, F, NULL, L, one) /\ A \subseteq At(h) /\ NULL \notin A /\ h \in Heaps /\ Tile(h, one)
  BY MidFacts
<1>2. State(h, A \ {m}, F, m, L, one) /\ m # NULL /\ m \in At(h)
  BY <1>1, AtoX
<1>3. Mid(h, A \ {m}, F, m, L, one)
  BY <1>2 DEF Mid
<1>4. m \notin F
  BY <1>1, StateFacts
<1>5. h.blk[m].nextfree = NULL
  BY <1>1, <1>2, <1>4 DEF State, Off
<1>6. h.blk[m].sz \in Nat /\ h.blk[m].sz < pow2[W - 1]
  BY <1>1, <1>2, TileFacts
<1> QED BY <1>2, <1>3, <1>4, <1>5, <1>6

\* m has room enough itself.
LEMMA ShrinkOK ==
  ASSUME NEW h, NEW A, NEW F, NEW L, NEW one, Mid(h, A, F, NULL, L, one), NEW m \in A, NEW szneed, Need(szneed, one),
         szneed <= h.blk[m].sz
  PROVE  Kept(Trim(h, m, szneed), h, A, m, m, szneed, one)
<1>1. PICK S : S = A \ {m}
  OBVIOUS
<1>2. Mid(h, S, F, m, L, one) /\ m # NULL /\ h.blk[m].nextfree = NULL /\ h.blk[m].sz \in Nat
  BY <1>1, TakeUp
<1>3. szneed \in Int /\ Al(szneed) /\ szneed >= Lim(one) /\ h.blk[m].sz >= szneed
  BY <1>2 DEF Need
<1>4. PICK j : j = Trim(h, m, szneed)
  OBVIOUS
<1>5. Got(j, h, S, m, szneed, one) /\ j.blk[m].prevfree = h.blk[m].prevfree
  BY <1>2, <1>3, <1>4, TrimOK
<1> QED BY <1>1, <1>4, <1>5 DEF Kept

\* m grows into the free block above it.
LEMMA GrowUpOK ==
  ASSUME NEW h, NEW A, NEW F, NEW L, NEW one, Mid(h, A, F, NULL, L, one), NEW m \in A, NEW szneed, Need(szneed, one),
         NEW hi \in F, hi = h.blk[m].next, szneed <= h.blk[m].sz + h.blk[hi].sz
  PROVE  Kept(Trim(combinehi(h, m), m, szneed), h, A, m, m, szneed, one)
<1>1. PICK S : S = A \ {m}
  OBVIOUS
<1>2. Mid(h, S, F, m, L, one) /\ m # NULL /\ m \in At(h) /\ m \notin F /\ h.blk[m].nextfree = NULL
  BY <1>1, TakeUp
<1>3. /\ State(h, S, F, m, L, one) /\ h \in Heaps /\ Tile(h, one) /\ lastsbrk(h) = L /\ L # NULL /\ L \in At(h)
      /\ L \notin F /\ hi # NULL /\ hi # L
  BY <1>2, MidFacts
<1>4. h.blk[hi].prev = m
  BY <1>2, <1>3, NextFacts
<1>5. PICK g : g = Join(extractfree(h, hi), m)
  OBVIOUS
<1>6. combinehi(h, m) = g
  BY <1>3, <1>4, <1>5, Zenon DEF combinehi
<1>7. State(g, S, F \ {hi}, m, L, one) /\ Frame(g, h, S) /\ Merged(g, h, F, m, hi)
  BY <1>2, <1>3, <1>5, JoinFree
<1>8. /\ At(g) = At(h) \ {hi} /\ SameTop(g, h) /\ m \in At(g) /\ g.blk[m].sz = h.blk[m].sz + h.blk[hi].sz
      /\ \A a \in At(g) : a \notin F => /\ g.blk[a].nextfree = h.blk[a].nextfree
                                        /\ g.blk[a].prevfree = h.blk[a].prevfree
  BY <1>7 DEF Merged
<1>9. /\ g.blk[L].prevfree = h.blk[L].prevfree /\ g.blk[m].nextfree = NULL
      /\ g.blk[m].prevfree = h.blk[m].prevfree
  BY <1>2, <1>3, <1>8
<1>10. PICK G : G = F \ {hi} /\ State(g, S, G, m, L, one)
  BY <1>7
<1>11. Mid(g, S, G, m, L, one)
  BY <1>2, <1>8, <1>9, <1>10, MidStep
<1>12. g.blk[m].sz \in Nat
  <2>1. g \in Heaps /\ Tile(g, one)
    BY <1>11, MidFacts
  <2> QED BY <2>1, <1>8, TileFacts
<1>13. szneed \in Int /\ Al(szneed) /\ szneed >= Lim(one) /\ g.blk[m].sz >= szneed
  BY <1>8, <1>12 DEF Need
<1>14. PICK j : j = Trim(g, m, szneed)
  OBVIOUS
<1>15. Got(j, g, S, m, szneed, one) /\ j.blk[m].prevfree = g.blk[m].prevfree
  BY <1>2, <1>9, <1>11, <1>13, <1>14, TrimOK
<1>16. Frame(j, h, S)
  <2>1. Frame(j, g, S) /\ S \subseteq S
    BY <1>15 DEF Got
  <2> QED BY <2>1, <1>7, FrameTrans
<1>17. Got(j, h, S, m, szneed, one)
  BY <1>15, <1>16 DEF Got
<1> QED BY <1>1, <1>6, <1>9, <1>14, <1>15, <1>17 DEF Kept

\* m grows into what is left of the last area.
LEMMA GrowLastOK ==
  ASSUME NEW h, NEW A, NEW F, NEW L, NEW one, Mid(h, A, F, NULL, L, one), NEW m \in A, NEW szneed, Need(szneed, one),
         h.blk[m].next = L, szneed + DATAOFFSET <= h.blk[m].sz + h.blk[L].sz,
         NEW r, r = GrowIntoLast(h, m, szneed)
  PROVE  Kept(r.h, h, A, m, r.m, szneed, one)
<1>1. PICK S : S = A \ {m}
  OBVIOUS
<1>2. Mid(h, S, F, m, L, one) /\ m # NULL /\ m \in At(h) /\ m \notin F /\ h.blk[m].nextfree = NULL
  BY <1>1, TakeUp
<1>3. /\ State(h, S, F, m, L, one) /\ h \in Heaps /\ Tile(h, one) /\ lastsbrk(h) = L /\ L # NULL /\ L \in At(h)
  BY <1>2, MidFacts
<1>4. h.blk[L].prev = m
  BY <1>2, <1>3, NextFacts
<1>5. PICK g : g = Join(h, m)
  OBVIOUS
<1>6. combinehi(h, m) = g
  BY <1>3, <1>4, <1>5, Zenon DEF combinehi
<1>7. State(g, S, F, m, NULL, one) /\ Frame(g, h, S) /\ Merged(g, h, F, m, L) /\ g.blk[m].next = NULL
  BY <1>2, <1>3, <1>5, JoinLast
<1>8. /\ SameTop(g, h) /\ m \in At(g) /\ g.blk[m].sz = h.blk[m].sz + h.blk[L].sz
      /\ \A a \in At(g) : a \notin F => /\ g.blk[a].nextfree = h.blk[a].nextfree
                                        /\ g.blk[a].prevfree = h.blk[a].prevfree
  BY <1>7 DEF Merged
<1>9. g.blk[m].nextfree = NULL /\ g.blk[m].prevfree = h.blk[m].prevfree
  BY <1>2, <1>8
<1>10. Topmost(g, m)
  BY <1>7, <1>8, <1>9 DEF Topmost, SameTop, Mid
<1>11. g.blk[m].sz \in Nat /\ szneed \in Int /\ DATAOFFSET \in Nat
  <2>1. g \in Heaps /\ Tile(g, one)
    BY <1>7, StateFacts
  <2> QED BY <2>1, <1>8, TileFacts, OffsetAligned DEF Need
<1>12. Room(g, m, szneed, one)
  BY <1>2, <1>8, <1>11 DEF Room, Need
<1>13. PICK m1 : m1 = m + szneed
  OBVIOUS
<1>14. PICK j : j = NewTop(__nmalloc_split(g, m, szneed), m1)
  OBVIOUS
<1>15. r = [h |-> j, m |-> m]
  BY <1>6, <1>13, <1>14, Zenon DEF GrowIntoLast, NewTop
<1>16. Got(j, g, S, m, szneed, one) /\ j.blk[m].prevfree = g.blk[m].prevfree
  BY <1>7, <1>10, <1>11, <1>12, <1>13, <1>14, CutLast
<1>17. Frame(j, h, S)
  <2>1. Frame(j, g, S) /\ S \subseteq S
    BY <1>16 DEF Got
  <2> QED BY <2>1, <1>7, FrameTrans
<1>18. Got(j, h, S, m, szneed, one)
  BY <1>16, <1>17 DEF Got
<1>19. r.h = j /\ r.m = m
  BY <1>15
<1> QED BY <1>1, <1>9, <1>16, <1>18, <1>19 DEF Kept

\* m grows into the free block below it.
LEMMA GrowDownOK ==
  ASSUME NEW h, NEW A, NEW F, NEW L, NEW one, Mid(h, A, F, NULL, L, one), NEW m \in A, NEW szneed, Need(szneed, one),
         NEW lo \in F, lo = h.blk[m].prev, szneed <= h.blk[m].sz + h.blk[lo].sz, NEW r, r = GrowDown(h, m, szneed)
  PROVE  Kept(r.h, h, A, m, r.m, szneed, one)
<1>1. PICK S : S = A \ {m}
  OBVIOUS
<1>2. Mid(h, S, F, m, L, one) /\ m # NULL /\ m \in At(h) /\ m \notin F /\ h.blk[m].sz \in Nat
  BY <1>1, TakeUp
<1>3. /\ State(h, S, F, m, L, one) /\ h \in Heaps /\ Tile(h, one) /\ L # NULL /\ L \in At(h) /\ L \notin F /\ L # m
      /\ lo # NULL /\ lo \in At(h)
  BY <1>2, MidFacts
<1>4. PICK v \in Int : v = h.blk[m].prevfree
  BY <1>2, <1>3, BlockFields
<1>5. PICK g : g = Join(extractfree(h, lo), lo)
  OBVIOUS
<1>6. PICK k : k = Written(g, lo, v)
  OBVIOUS
<1>7. PICK j : j = Trim(k, lo, szneed)
  OBVIOUS
<1>8. r = [h |-> j, m |-> lo]
  BY <1>4, <1>5, <1>6, <1>7, Zenon DEF GrowDown, Written
<1>9. PICK G : G = F \ {lo}
  OBVIOUS
<1>10. /\ State(g, S, G, lo, L, one) /\ Frame(g, h, S) /\ Merged(g, h, F, lo, m) /\ g.blk[lo].nextfree = NULL
       /\ lo \in At(g)
  BY <1>2, <1>3, <1>5, <1>9, JoinDown
<1>11. /\ At(g) = At(h) \ {m} /\ SameTop(g, h) /\ g.blk[lo].sz = h.blk[lo].sz + h.blk[m].sz
       /\ \A a \in At(g) : a \notin F => /\ g.blk[a].nextfree = h.blk[a].nextfree
                                         /\ g.blk[a].prevfree = h.blk[a].prevfree
  BY <1>10 DEF Merged
<1>12. g.blk[L].prevfree = h.blk[L].prevfree /\ L \in At(g)
  BY <1>3, <1>11
<1>13. Mid(g, S, G, lo, L, one)
  BY <1>2, <1>10, <1>11, <1>12, MidStep
<1>14. g \in Heaps /\ lo \notin S /\ lo \notin G /\ lo # L
  BY <1>3, <1>13, MidFacts
<1>15. /\ State(k, S, G, lo, L, one) /\ SameChain(k, g) /\ Frame(k, g, S \ {lo}) /\ SameTop(k, g)
       /\ k.blk[lo].nextfree = g.blk[lo].nextfree /\ k.blk[lo].prevfree = v
       /\ \A a \in At(g) : a # lo => k.blk[a] = g.blk[a]
  <2>1. State(k, S, G, lo, L, one) /\ Frame(k, g, S \ {lo}) /\ Wrote(k, g, lo, v)
    <3>1. State(g, S, G, lo, L, one) /\ lo \in At(g) /\ lo \notin G
      BY <1>10, <1>14
    <3> QED BY <3>1, <1>6, WriteState
  <2> QED BY <2>1 DEF Wrote
<1>16. Frame(k, g, S) /\ k.blk[lo].nextfree = NULL
  <2>1. S \ {lo} = S
    BY <1>14
  <2> QED BY <2>1, <1>10, <1>15
<1>17. Mid(k, S, G, lo, L, one)
  <2>1. k.blk[L].prevfree = g.blk[L].prevfree
    BY <1>12, <1>14, <1>15
  <2> QED BY <2>1, <1>13, <1>15, MidStep
<1>18. szneed \in Int /\ Al(szneed) /\ szneed >= Lim(one) /\ k.blk[lo].sz >= szneed
  <2>1. k.blk[lo].sz = h.blk[lo].sz + h.blk[m].sz
    BY <1>10, <1>11, <1>15 DEF SameChain
  <2>2. h.blk[lo].sz \in Nat
    BY <1>3, TileFacts
  <2> QED BY <2>1, <2>2, <1>2 DEF Need
<1>19. Got(j, k, S, lo, szneed, one) /\ j.blk[lo].prevfree = v
  BY <1>3, <1>7, <1>15, <1>16, <1>17, <1>18, TrimOK
<1>20. Frame(j, h, S)
  <2>1. Frame(j, k, S) /\ S \subseteq S
    BY <1>19 DEF Got
  <2>2. Frame(j, g, S)
    BY <2>1, <1>16, FrameTrans
  <2> QED BY <2>1, <2>2, <1>10, FrameTrans
<1>21. Got(j, h, S, lo, szneed, one)
  BY <1>19, <1>20 DEF Got
<1>22. r.h = j /\ r.m = lo
  BY <1>8
<1> QED BY <1>1, <1>4, <1>19, <1>21, <1>22 DEF Kept

\* What m holds is copied to a new block, and m is freed.
LEMMA CopyOK ==
  ASSUME NEW h, NEW A, NEW one, NEW m \in A, NEW szneed, NEW g, NEW to, Got(g, h, A, to, szneed, one),
         NEW v \in Int, v = h.blk[m].prevfree, NEW r, r = CopyAndFree(g, to, m)
  PROVE  Kept(r.h, h, A, m, r.m, szneed, one)
<1>0. to # NULL /\ to \notin A /\ to \in Int /\ Frame(g, h, A) /\ g.blk[to].sz >= szneed
  BY DEF Got
<1>1. PICK T : T = A \union {to}
  OBVIOUS
<1>2. PICK G, K : Mid(g, T, G, NULL, K, one)
  BY <1>1 DEF Got
<1>3. /\ State(g, T, G, NULL, K, one) /\ g \in Heaps /\ K \in At(g) /\ K \notin T /\ T \subseteq At(g)
  BY <1>2, MidFacts
<1>4. to \in At(g) /\ to \in T /\ m \in T /\ to # K /\ to \notin G /\ m # to
  <2>1. to \in At(g) /\ to \in T /\ m \in T /\ to # K /\ m # to
    BY <1>0, <1>1, <1>3
  <2>2. to \notin G
    BY <2>1, <1>3, StateFacts
  <2> QED BY <2>1, <2>2
<1>5. g.blk[m].prevfree = v
  BY <1>0 DEF Frame
<1>6. PICK k : k = Written(g, to, v)
  OBVIOUS
<1>7. PICK j : j = dofree(k, m)
  OBVIOUS
<1>8. r = [h |-> j, m |-> to]
  BY <1>5, <1>6, <1>7, Zenon DEF CopyAndFree, Written
<1>9. /\ State(k, T, G, NULL, K, one) /\ SameChain(k, g) /\ Frame(k, g, T \ {to}) /\ SameTop(k, g)
      /\ k.blk[to].nextfree = g.blk[to].nextfree /\ k.blk[to].prevfree = v
      /\ \A a \in At(g) : a # to => k.blk[a] = g.blk[a]
  <2>1. State(k, T, G, NULL, K, one) /\ Frame(k, g, T \ {to}) /\ Wrote(k, g, to, v)
    BY <1>3, <1>4, <1>6, WriteState
  <2> QED BY <2>1 DEF Wrote
<1>10. k.blk[K].prevfree = g.blk[K].prevfree
  BY <1>3, <1>4, <1>9
<1>11. Mid(k, T, G, NULL, K, one)
  BY <1>2, <1>9, <1>10, MidStep
<1>12. PICK R : R = T \ {m}
  OBVIOUS
<1>13. Settled(j, k, R, one)
  BY <1>4, <1>7, <1>11, <1>12, FreeOK
<1>14. PICK S : S = A \ {m}
  OBVIOUS
<1>15. R = S \union {to} /\ to \in R /\ S \subseteq R /\ S \subseteq T \ {to} /\ S \subseteq A
  BY <1>0, <1>1, <1>4, <1>12, <1>14
<1>16. Frame(j, h, S)
  <2>1. Frame(j, k, R) /\ Frame(k, g, S) /\ Frame(g, h, S)
    BY <1>0, <1>9, <1>13, <1>15 DEF Settled, Frame
  <2>2. Frame(j, g, S)
    BY <2>1, <1>15, FrameTrans
  <2> QED BY <2>1, <2>2, FrameTrans
<1>17. j.blk[to].prevfree = v /\ j.blk[to].sz = k.blk[to].sz
  BY <1>9, <1>13, <1>15 DEF Settled, Frame
<1>18. j.blk[to].sz >= szneed
  BY <1>0, <1>4, <1>9, <1>17 DEF SameChain
<1>19. to \notin S
  BY <1>0, <1>15
<1>20. Got(j, h, S, to, szneed, one)
  BY <1>0, <1>13, <1>15, <1>16, <1>18, <1>19 DEF Got, Settled
<1>21. r.h = j /\ r.m = to
  BY <1>8
<1> QED BY <1>14, <1>17, <1>20, <1>21 DEF Kept
\* The block comes from the system, above m or elsewhere.
LEMMA ReallocSystemOK ==
  ASSUME NEW h, NEW A, NEW one, Good(h, A, one), NEW m \in A, NEW v \in Int, v = h.blk[m].prevfree,
         NEW szneed, Need(szneed, one), NEW x, x = extendsbrk(h, szneed), NEW r, r = ReallocFromSystem(x, m, szneed)
  PROVE  (r.m = NULL /\ r.h = h) \/ Kept(r.h, h, A, m, r.m, szneed, one)
<1>0. szneed \in Nat
  BY DEF Need
<1>1. (x.m = NULL /\ x.h = h) \/ Extended(x, h, A, szneed, one)
  BY <1>0, ExtendOK
<1>2. CASE x.m = NULL /\ x.h = h
  BY <1>2 DEF ReallocFromSystem
<1>3. CASE Extended(x, h, A, szneed, one)
  <2>1. PICK F : Mid(x.h, A, F, NULL, x.m, one)
    BY <1>3 DEF Extended
  <2>2. PICK g, L : g = x.h /\ L = x.m
    OBVIOUS
  <2>3. /\ Mid(g, A, F, NULL, L, one) /\ Frame(g, h, A) /\ L # NULL /\ g.blk[L].sz >= szneed + MINSAVE
        /\ lastsbrk(g) = L
    BY <2>1, <2>2, <1>3 DEF Extended
  <2>4. g.blk[L].sz \in Nat /\ g.blk[m].sz \in Nat
    <3>1. g \in Heaps /\ Tile(g, one) /\ L \in At(g)
      BY <2>3, MidFacts
    <3>2. g.blk[m].sz \in Nat
      BY <2>3, TakeUp
    <3> QED BY <3>1, <3>2, TileFacts
  <2>5. g.blk[L].sz >= szneed + DATAOFFSET /\ szneed + DATAOFFSET <= g.blk[m].sz + g.blk[L].sz
    BY <2>3, <2>4, <1>0, OffsetAligned DEF MINSAVE
  <2>6. CASE g.blk[m].next = L
    <3>1. r = GrowIntoLast(g, m, szneed)
      BY <2>2, <2>3, <2>6, Zenon DEF ReallocFromSystem
    <3>2. Kept(r.h, g, A, m, r.m, szneed, one)
      BY <3>1, <2>3, <2>5, <2>6, GrowLastOK
    <3> QED BY <3>2, <2>3, KeptFrom
  <2>7. CASE g.blk[m].next # L
    <3>1. PICK k : k = SplitLast(g, szneed)
      OBVIOUS
    <3>2. r = CopyAndFree(k, L, m)
      BY <3>1, <2>2, <2>3, <2>7, Zenon DEF ReallocFromSystem
    <3>3. Got(k, g, A, L, szneed, one)
      BY <3>1, <2>3, <2>5, SplitLastOK
    <3>4. v = g.blk[m].prevfree
      BY <2>3 DEF Frame
    <3>5. Kept(r.h, g, A, m, r.m, szneed, one)
      BY <3>2, <3>3, <3>4, CopyOK
    <3> QED BY <3>5, <2>3, KeptFrom
  <2> QED BY <2>6, <2>7
<1> QED BY <1>1, <1>2, <1>3

\* An allocation is resized, or nothing changes.
LEMMA NreallocOK ==
  ASSUME NEW h, NEW A, NEW one, Good(h, A, one), NEW m \in A, NEW size \in Nat, Fits(Nonzero(size)),
         NEW szneed, szneed = roundup(Nonzero(size)), NEW r, r = nrealloc(h, m, size)
  PROVE  (r.m = NULL /\ r.h = h) \/ Kept(r.h, h, A, m, r.m, szneed, one)
<1>1. PICK F, L : Mid(h, A, F, NULL, L, one)
  BY DEF Good
<1>2. /\ State(h, A, F, NULL, L, one) /\ h \in Heaps /\ Tile(h, one) /\ one \in BOOLEAN /\ L # NULL /\ L \in At(h)
      /\ lastsbrk(h) = L /\ NULL \notin At(h) /\ F \subseteq At(h)
  BY <1>1, MidFacts
<1>3. m \in At(h) /\ h.blk[m].sz \in Nat /\ h.blk[m].sz < pow2[W - 1]
  BY <1>1, TakeUp
<1>4. szneed \in Nat /\ (szneed <= MaxRequest => Need(szneed, one)) /\ MaxRequest \in Nat
      /\ (szneed <= h.blk[m].sz => Need(szneed, one))
  <2>1. szneed \in Nat /\ (szneed <= MaxRequest => Need(szneed, one))
    BY <1>2, NeedFacts
  <2>2. Nonzero(size) \in Nat /\ Nonzero(size) >= 1
    BY DEF Nonzero
  <2>3. Al(szneed) /\ szneed >= MINSAVE
    BY <2>2, RoundupFacts
  <2>4. szneed >= Lim(one)
    BY <2>1, <2>3, <1>2, LimFacts
  <2>5. szneed <= h.blk[m].sz => szneed < pow2[W - 1]
    BY <2>1, <1>3, Halves
  <2> QED BY <2>1, <2>3, <2>4, <2>5, Halves DEF Need
<1>5. PICK hi, lo, b, sz : hi = h.blk[m].next /\ lo = h.blk[m].prev /\ b = searchfree(h, szneed) /\ sz = h.blk[m].sz
  OBVIOUS
<1>6. ISFREE(h, hi) <=> hi \in F
  <2>1. hi # NULL => hi \in At(h)
    BY <1>2, <1>3, <1>5, NextFacts
  <2> QED BY <2>1, <1>2, FreeIff
<1>7. ISFREE(h, lo) <=> lo \in F
  <2>1. lo # NULL => lo \in At(h)
    BY <1>2, <1>3, <1>5, PrevFacts
  <2> QED BY <2>1, <1>2, FreeIff
<1>8. PICK v \in Int : v = h.blk[m].prevfree
  BY <1>2, <1>3, BlockFields
<1>9. ~(ISFREE(h, m) \/ FOULED(h, m))
  BY <1>1, NotFouled
<1>10. r = IF ISFREE(h, m) \/ FOULED(h, m) THEN [h |-> badcallabort(h, "fouled"), m |-> NULL]
      ELSE IF szneed <= sz THEN [h |-> Trim(h, m, szneed), m |-> m]
      ELSE IF szneed > MaxRequest THEN [h |-> h, m |-> NULL]
      ELSE IF ISFREE(h, hi) /\ szneed <= sz + h.blk[hi].sz
           THEN [h |-> Trim(combinehi(h, m), m, szneed), m |-> m]
      ELSE IF L = hi /\ szneed + MINSAVE <= sz + h.blk[L].sz
           THEN GrowIntoLast(h, m, szneed)
      ELSE IF ISFREE(h, lo) /\ szneed <= sz + h.blk[lo].sz THEN GrowDown(h, m, szneed)
      ELSE IF b # 0
           THEN CopyAndFree(TakeFromList(h, h.freehdrs[b], szneed).h, h.freehdrs[b], m)
      ELSE IF L # NULL /\ szneed + MINSAVE <= h.blk[L].sz
           THEN CopyAndFree(SplitLast(h, szneed), L, m)
      ELSE ReallocFromSystem(extendsbrk(h, szneed), m, szneed)
  BY <1>2, <1>5, Zenon DEF nrealloc
<1>11. CASE szneed <= sz
  <2>1. r = [h |-> Trim(h, m, szneed), m |-> m]
    BY <1>9, <1>10, <1>11, Zenon
  <2>2. r.h = Trim(h, m, szneed) /\ r.m = m
    BY <2>1
  <2>3. Kept(Trim(h, m, szneed), h, A, m, m, szneed, one)
    BY <1>1, <1>4, <1>5, <1>11, ShrinkOK
  <2> QED BY <2>2, <2>3
<1>12. CASE ~(szneed <= sz) /\ szneed > MaxRequest
  <2>1. r = [h |-> h, m |-> NULL]
    BY <1>9, <1>10, <1>12, Zenon
  <2> QED BY <2>1
<1>13. CASE ~(szneed <= sz) /\ ~(szneed > MaxRequest)
  <2>0. Need(szneed, one)
    BY <1>4, <1>13
  <2>1. r = IF ISFREE(h, hi) /\ szneed <= sz + h.blk[hi].sz
           THEN [h |-> Trim(combinehi(h, m), m, szneed), m |-> m]
      ELSE IF L = hi /\ szneed + MINSAVE <= sz + h.blk[L].sz
           THEN GrowIntoLast(h, m, szneed)
      ELSE IF ISFREE(h, lo) /\ szneed <= sz + h.blk[lo].sz THEN GrowDown(h, m, szneed)
      ELSE IF b # 0
           THEN CopyAndFree(TakeFromList(h, h.freehdrs[b], szneed).h, h.freehdrs[b], m)
      ELSE IF L # NULL /\ szneed + MINSAVE <= h.blk[L].sz
           THEN CopyAndFree(SplitLast(h, szneed), L, m)
      ELSE ReallocFromSystem(extendsbrk(h, szneed), m, szneed)
    BY <1>9, <1>10, <1>13, Zenon
  <2>2. CASE ISFREE(h, hi) /\ szneed <= sz + h.blk[hi].sz
    <3>1. r = [h |-> Trim(combinehi(h, m), m, szneed), m |-> m]
      BY <2>1, <2>2, Zenon
    <3>2. r.h = Trim(combinehi(h, m), m, szneed) /\ r.m = m
      BY <3>1
    <3>3. Kept(Trim(combinehi(h, m), m, szneed), h, A, m, m, szneed, one)
      BY <2>0, <2>2, <1>1, <1>5, <1>6, GrowUpOK
    <3> QED BY <3>2, <3>3
  <2>3. CASE /\ ~(ISFREE(h, hi) /\ szneed <= sz + h.blk[hi].sz) /\ L = hi /\ szneed + MINSAVE <= sz + h.blk[L].sz
    <3>1. r = GrowIntoLast(h, m, szneed)
      BY <2>1, <2>3, Zenon
    <3>2. szneed + DATAOFFSET <= h.blk[m].sz + h.blk[L].sz /\ h.blk[m].next = L
      <4>1. h.blk[L].sz \in Nat
        BY <1>2, TileFacts
      <4>2. szneed + DATAOFFSET <= h.blk[m].sz + h.blk[L].sz
        BY <4>1, <2>3, <1>3, <1>4, <1>5, OffsetAligned DEF MINSAVE
      <4> QED BY <4>2, <2>3, <1>5
    <3>3. Kept(r.h, h, A, m, r.m, szneed, one)
      BY <3>1, <3>2, <2>0, <1>1, GrowLastOK
    <3> QED BY <3>3
  <2>4. CASE /\ ~(ISFREE(h, hi) /\ szneed <= sz + h.blk[hi].sz) /\ ~(L = hi /\ szneed + MINSAVE <= sz + h.blk[L].sz)
             /\ ISFREE(h, lo) /\ szneed <= sz + h.blk[lo].sz
    <3>1. r = GrowDown(h, m, szneed)
      BY <2>1, <2>4, Zenon
    <3>2. lo \in F /\ lo = h.blk[m].prev /\ szneed <= h.blk[m].sz + h.blk[lo].sz
      BY <2>4, <1>5, <1>7
    <3>3. Kept(r.h, h, A, m, r.m, szneed, one)
      BY <3>1, <3>2, <2>0, <1>1, GrowDownOK
    <3> QED BY <3>3
  <2>5. CASE /\ ~(ISFREE(h, hi) /\ szneed <= sz + h.blk[hi].sz) /\ ~(L = hi /\ szneed + MINSAVE <= sz + h.blk[L].sz)
             /\ ~(ISFREE(h, lo) /\ szneed <= sz + h.blk[lo].sz) /\ b # 0
    <3>1. PICK to : to = h.freehdrs[b]
      OBVIOUS
    <3>2. PICK g : g = TakeFromList(h, to, szneed).h
      OBVIOUS
    <3>3. r = CopyAndFree(g, to, m)
      BY <3>1, <3>2, <2>1, <2>5, Zenon
    <3>4. to \in F /\ to = h.freehdrs[B(h, to)] /\ h.blk[to].sz >= szneed
      BY <3>1, <2>0, <2>5, <1>1, <1>5, SearchOK
    <3>5. Got(g, h, A, to, szneed, one)
      BY <3>2, <3>4, <2>0, <1>1, TakeOK
    <3>6. Kept(r.h, h, A, m, r.m, szneed, one)
      BY <3>3, <3>5, <1>8, CopyOK
    <3> QED BY <3>6
  <2>6. CASE /\ ~(ISFREE(h, hi) /\ szneed <= sz + h.blk[hi].sz) /\ ~(L = hi /\ szneed + MINSAVE <= sz + h.blk[L].sz)
             /\ ~(ISFREE(h, lo) /\ szneed <= sz + h.blk[lo].sz) /\ b = 0 /\ szneed + MINSAVE <= h.blk[L].sz
    <3>1. PICK g : g = SplitLast(h, szneed)
      OBVIOUS
    <3>2. r = CopyAndFree(g, L, m)
      BY <3>1, <2>1, <2>6, <1>2, Zenon
    <3>3. h.blk[L].sz >= szneed + DATAOFFSET
      <4>1. h.blk[L].sz \in Nat
        BY <1>2, TileFacts
      <4> QED BY <4>1, <2>6, <1>4, OffsetAligned DEF MINSAVE
    <3>4. Got(g, h, A, L, szneed, one)
      BY <3>1, <3>3, <2>0, <1>1, SplitLastOK
    <3>5. Kept(r.h, h, A, m, r.m, szneed, one)
      BY <3>2, <3>4, <1>8, CopyOK
    <3> QED BY <3>5
  <2>7. CASE /\ ~(ISFREE(h, hi) /\ szneed <= sz + h.blk[hi].sz) /\ ~(L = hi /\ szneed + MINSAVE <= sz + h.blk[L].sz)
             /\ ~(ISFREE(h, lo) /\ szneed <= sz + h.blk[lo].sz) /\ b = 0 /\ ~(szneed + MINSAVE <= h.blk[L].sz)
    <3>1. r = ReallocFromSystem(extendsbrk(h, szneed), m, szneed)
      BY <2>1, <2>7, Zenon
    <3> QED BY <3>1, <2>0, <1>8, ReallocSystemOK
  <2> QED BY <2>2, <2>3, <2>4, <2>5, <2>6, <2>7
<1> QED BY <1>11, <1>12, <1>13

-----------------------------------------------------------------------------
(* The program: what it has allocated is what the heap has given out. *)

One == Foreign = {}
Requests == Sizes \union {n * s : n \in Counts, s \in Sizes}

\* No request is so large that rounding it up wraps.
NoWrap == \A r \in Requests : r < pow2[W] => Fits(Nonzero(r))

\* The block of an allocation has room for it and holds what was written there.
Entry(h, l, p) ==
  /\ p \in Int /\ l[p].size \in Nat /\ l[p].size \in Requests /\ l[p].word \in Words /\ l[p].align = ALIGN
  /\ h.blk[MEMBLKp(p)].sz >= Nonzero(l[p].size) + DATAOFFSET /\ h.blk[MEMBLKp(p)].prevfree = l[p].word
Agrees(h, l) == \A p \in DOMAIN l : Entry(h, l, p)
Owned(l) == {MEMBLKp(p) : p \in DOMAIN l}

Inv(h, l) == IsFiniteSet(DOMAIN l) /\ Agrees(h, l) /\ Good(h, Owned(l), One)

LEMMA WordFacts == Words \subseteq Int /\ NULL \notin Words /\ NONE \notin Words
BY BoundsAssumption DEF Words, NULL, NONE

LEMMA PtrFacts ==
  ASSUME NEW m \in Int
  PROVE  /\ PTR(m) \in Int /\ MEMBLKp(m) \in Int /\ MEMBLKp(PTR(m)) = m /\ PTR(MEMBLKp(m)) = m
BY OffsetAligned DEF PTR, MEMBLKp

\* The addresses of the allocations.
Ints(l) == \A p \in DOMAIN l : p \in Int

LEMMA AgreesInts == ASSUME NEW h, NEW l, Agrees(h, l) PROVE Ints(l)
BY DEF Agrees, Entry, Ints

\* k has one allocation more than l, at m.
More(k, l, m, e) ==
  /\ PTR(m) \notin DOMAIN l /\ DOMAIN k = DOMAIN l \union {PTR(m)} /\ k[PTR(m)] = e
  /\ (\A p \in DOMAIN l : k[p] = l[p]) /\ Owned(k) = Owned(l) \union {m} /\ Ints(k)

LEMMA PutLive ==
  ASSUME NEW l, Ints(l), NEW m \in Int, m \notin Owned(l), NEW e, NEW k, k = Put(l, PTR(m), e)
  PROVE  More(k, l, m, e)
<1>1. PICK q \in Int : q = PTR(m) /\ MEMBLKp(q) = m
  BY PtrFacts
<1>2. q \notin DOMAIN l
  BY <1>1 DEF Owned
<1>3. DOMAIN k = DOMAIN l \union {q} /\ k[q] = e /\ \A p \in DOMAIN l : k[p] = l[p]
  BY <1>1, <1>2 DEF Put
<1>4. Owned(k) = Owned(l) \union {m}
  BY <1>1, <1>3, Zenon DEF Owned
<1>5. Ints(k)
  BY <1>3 DEF Ints
<1> QED BY <1>1, <1>2, <1>3, <1>4, <1>5 DEF More

\* k has lost the allocation at p.
Less(k, l, p) ==
  /\ DOMAIN k = DOMAIN l \ {p} /\ (\A q \in DOMAIN k : k[q] = l[q])
  /\ Owned(k) = Owned(l) \ {MEMBLKp(p)} /\ Ints(k)

LEMMA ForgetLive ==
  ASSUME NEW l, Ints(l), NEW p \in DOMAIN l, NEW k, k = Forget(l, p)
  PROVE  Less(k, l, p)
<1>1. DOMAIN k = DOMAIN l \ {p} /\ \A q \in DOMAIN k : k[q] = l[q]
  BY DEF Forget
<1>2. \A q \in DOMAIN l : MEMBLKp(q) = MEMBLKp(p) => q = p
  <2> SUFFICES ASSUME NEW q \in DOMAIN l, MEMBLKp(q) = MEMBLKp(p) PROVE q = p
    OBVIOUS
  <2>1. q \in Int /\ p \in Int
    BY DEF Ints
  <2>2. PTR(MEMBLKp(q)) = q /\ PTR(MEMBLKp(p)) = p
    BY <2>1, PtrFacts
  <2> QED BY <2>2
<1>3. Owned(k) = Owned(l) \ {MEMBLKp(p)}
  BY <1>1, <1>2, Zenon DEF Owned
<1>4. Ints(k)
  BY <1>1 DEF Ints
<1> QED BY <1>1, <1>3, <1>4 DEF Less

\* The allocations keep their blocks.
LEMMA EntryKeep ==
  ASSUME NEW h, NEW j, NEW l, NEW k, NEW p, Entry(h, l, p), k[p] = l[p], NEW S, Frame(j, h, S), MEMBLKp(p) \in S
  PROVE  Entry(j, k, p)
BY DEF Entry, Frame

LEMMA GoodFinds ==
  ASSUME NEW h, NEW A, NEW one, Good(h, A, one), A # {}
  PROVE  \E F, L : Mid(h, A, F, NULL, L, one)
BY DEF Good

\* free.
LEMMA FreeInv ==
  ASSUME NEW h, NEW l, Inv(h, l), NEW p \in DOMAIN l, NEW j, j = nfree(h, MEMBLKp(p)), NEW k, k = Forget(l, p)
  PROVE  Inv(j, k) /\ j.bad = ""
<1>1. PICK A, m : A = Owned(l) /\ m = MEMBLKp(p)
  OBVIOUS
<1>2. m \in A /\ Agrees(h, l) /\ Good(h, A, One) /\ IsFiniteSet(DOMAIN l)
  BY <1>1 DEF Inv, Owned
<1>3. PICK F, L : Mid(h, A, F, NULL, L, One)
  BY <1>2, GoodFinds
<1>4. Settled(j, h, A \ {m}, One)
  BY <1>1, <1>2, <1>3, NfreeOK
<1>5. PICK S : S = A \ {m}
  OBVIOUS
<1>6. Frame(j, h, S) /\ \E G, M : Mid(j, S, G, NULL, M, One)
  BY <1>4, <1>5 DEF Settled
<1>7. j.bad = "" /\ Good(j, S, One)
  BY <1>6 DEF Mid, Good
<1>8. Less(k, l, p)
  BY <1>2, AgreesInts, ForgetLive
<1>9. Owned(k) = S /\ DOMAIN k = DOMAIN l \ {p} /\ \A q \in DOMAIN k : k[q] = l[q]
  BY <1>1, <1>5, <1>8 DEF Less
<1>10. Agrees(j, k)
  <2> SUFFICES ASSUME NEW q \in DOMAIN k PROVE Entry(j, k, q)
    BY DEF Agrees
  <2>1. q \in DOMAIN l /\ k[q] = l[q] /\ MEMBLKp(q) \in S
    BY <1>9 DEF Owned
  <2>2. Entry(h, l, q)
    BY <1>2, <2>1 DEF Agrees
  <2> QED BY <2>1, <2>2, <1>6, EntryKeep
<1>11. IsFiniteSet(DOMAIN k)
  BY <1>2, <1>9, FS_RemoveElement
<1> QED BY <1>7, <1>9, <1>10, <1>11 DEF Inv

\* What the program knows of an allocation.
Allocation(size, v) == [size |-> size, word |-> v, align |-> ALIGN]

\* The block x, with what it holds, becomes the allocation of size bytes at it.
LEMMA AddInv ==
  ASSUME NEW h, NEW l, IsFiniteSet(DOMAIN l), Agrees(h, l), NEW x, NEW szneed, Got(h, h, Owned(l), x, szneed, One),
         NEW size \in Nat, size \in Requests, szneed >= Nonzero(size) + DATAOFFSET, szneed \in Nat, NEW v \in Words,
         h.blk[x].prevfree = v, NEW k, k = Put(l, PTR(x), Allocation(size, v))
  PROVE  Inv(h, k)
<1>1. PICK A : A = Owned(l)
  OBVIOUS
<1>2. x \in Int /\ x \notin A /\ h.blk[x].sz >= szneed
  BY <1>1 DEF Got
<1>3. PICK F, L : Mid(h, A \union {x}, F, NULL, L, One)
  BY <1>1 DEF Got
<1>4. More(k, l, x, Allocation(size, v))
  BY <1>1, <1>2, AgreesInts, PutLive
<1>5. PICK q : q = PTR(x)
  OBVIOUS
<1>6. /\ DOMAIN k = DOMAIN l \union {q} /\ k[q] = Allocation(size, v) /\ \A p \in DOMAIN l : k[p] = l[p]
      /\ Owned(k) = A \union {x}
  BY <1>1, <1>4, <1>5 DEF More
<1>7. h.blk[x].sz \in Nat
  <2>1. State(h, A \union {x}, F, NULL, L, One)
    BY <1>3 DEF Mid
  <2>2. h \in Heaps /\ Tile(h, One) /\ x \in At(h)
    BY <2>1, StateFacts
  <2> QED BY <2>2, TileFacts
<1>8. Entry(h, k, q)
  <2>1. q \in Int /\ MEMBLKp(q) = x
    BY <1>2, <1>5, PtrFacts
  <2>2. k[q].size = size /\ k[q].word = v /\ k[q].align = ALIGN
    BY <1>6 DEF Allocation
  <2>3. h.blk[x].sz >= Nonzero(size) + DATAOFFSET
    BY <1>2, <1>7, OffsetAligned DEF Nonzero
  <2> QED BY <2>1, <2>2, <2>3 DEF Entry
<1>9. Agrees(h, k)
  <2> SUFFICES ASSUME NEW p \in DOMAIN k PROVE Entry(h, k, p)
    BY DEF Agrees
  <2>1. CASE p = q
    BY <2>1, <1>8
  <2>2. CASE p \in DOMAIN l
    BY <2>2, <1>6 DEF Agrees, Entry
  <2> QED BY <2>1, <2>2, <1>6
<1>10. IsFiniteSet(DOMAIN k)
  BY <1>6, FS_AddElement
<1>11. Good(h, A \union {x}, One)
  BY <1>3 DEF Good
<1> QED BY <1>6, <1>9, <1>10, <1>11 DEF Inv
\* The program writes to the block that it got.
Filled(j, g, h, A, x, szneed, one, v) ==
  Got(j, j, A, x, szneed, one) /\ Frame(j, h, A) /\ j.blk[x].prevfree = v /\ j.bad = "" /\ g.bad = ""

LEMMA WrittenGot ==
  ASSUME NEW h, NEW g, NEW j, NEW A, NEW x, NEW szneed, NEW one, Got(g, h, A, x, szneed, one), NEW v \in Words,
         j = Written(g, x, v)
  PROVE  Filled(j, g, h, A, x, szneed, one, v)
<1>1. PICK S : S = A \union {x}
  OBVIOUS
<1>2. PICK F, L : Mid(g, S, F, NULL, L, one)
  BY <1>1 DEF Got
<1>3. State(g, S, F, NULL, L, one) /\ L # NULL /\ lastsbrk(g) = L /\ g.bad = "" /\ g.blk[L].prevfree \in {NULL, JUNK}
  BY <1>2 DEF Mid
<1>4. x \in At(g) /\ x \notin F /\ L \in At(g) /\ L # x /\ A \subseteq At(g)
  <2>1. State(g, S, F, NULL, L, one) /\ L # NULL
    BY <1>3
  <2>2. S \subseteq At(g) /\ S \intersect F = {} /\ L \in At(g) /\ L \notin S
    BY <2>1, StateFacts
  <2> QED BY <2>2, <1>1
<1>5. v \in Int
  BY WordFacts
<1>6. State(j, S, F, NULL, L, one) /\ Wrote(j, g, x, v)
  BY <1>3, <1>4, <1>5, WriteState
<1>7. SameTop(j, g) /\ SameChain(j, g) /\ j.blk[x].prevfree = v /\ \A a \in At(g) : a # x => j.blk[a] = g.blk[a]
  BY <1>6 DEF Wrote
<1>8. lastsbrk(j) = L /\ j.bad = "" /\ j.blk[L].prevfree \in {NULL, JUNK}
  BY <1>3, <1>4, <1>7 DEF SameTop
<1>9. Mid(j, S, F, NULL, L, one)
  BY <1>3, <1>6, <1>8 DEF Mid
<1>10. x # NULL /\ x \notin A /\ x \in Int /\ Frame(g, h, A) /\ g.blk[x].sz >= szneed
  BY DEF Got
<1>11. j.blk[x].sz >= szneed
  BY <1>4, <1>7, <1>10 DEF SameChain
<1>12. Frame(j, g, A)
  BY <1>4, <1>7, <1>10 DEF Frame
<1>13. Frame(j, h, A)
  BY <1>10, <1>12, FrameTrans
<1>14. Frame(j, j, A)
  BY DEF Frame
<1>15. Got(j, j, A, x, szneed, one)
  BY <1>1, <1>9, <1>10, <1>11, <1>14 DEF Got
<1> QED BY <1>3, <1>7, <1>8, <1>13, <1>15 DEF Filled

LEMMA AgreesKeep ==
  ASSUME NEW h, NEW j, NEW l, Agrees(h, l), Frame(j, h, Owned(l))
  PROVE  Agrees(j, l)
<1> SUFFICES ASSUME NEW p \in DOMAIN l PROVE Entry(j, l, p)
  BY DEF Agrees
<1>1. Entry(h, l, p) /\ MEMBLKp(p) \in Owned(l)
  BY DEF Agrees, Owned
<1> QED BY <1>1, EntryKeep

\* malloc and calloc succeed.
LEMMA ObtainInv ==
  ASSUME NEW h, NEW l, Inv(h, l), NEW g, NEW x, NEW szneed, Got(g, h, Owned(l), x, szneed, One),
         NEW size \in Nat, size \in Requests, szneed >= Nonzero(size) + DATAOFFSET, szneed \in Nat, NEW v \in Words,
         NEW j, j = Written(g, x, v), NEW k, k = Put(l, PTR(x), Allocation(size, v))
  PROVE  Inv(j, k) /\ j.bad = "" /\ g.bad = "" /\ PTR(x) \notin DOMAIN l
<1>1. IsFiniteSet(DOMAIN l) /\ Agrees(h, l)
  BY DEF Inv
<1>2. PICK A : A = Owned(l)
  OBVIOUS
<1>3. Got(g, h, A, x, szneed, One) /\ x \in Int /\ x \notin A
  BY <1>2 DEF Got
<1>4. /\ Got(j, j, A, x, szneed, One) /\ Frame(j, h, A) /\ j.blk[x].prevfree = v /\ j.bad = "" /\ g.bad = ""
  <2>1. Got(g, h, A, x, szneed, One)
    BY <1>3
  <2>2. Filled(j, g, h, A, x, szneed, One, v)
    BY <2>1, WrittenGot
  <2> QED BY <2>2 DEF Filled
<1>5. Agrees(j, l)
  BY <1>1, <1>2, <1>4, AgreesKeep
<1>6. Inv(j, k)
  BY <1>1, <1>2, <1>4, <1>5, AddInv
<1>7. PTR(x) \notin DOMAIN l
  <2>1. More(k, l, x, Allocation(size, v))
    BY <1>2, <1>3, <1>5, AgreesInts, PutLive
  <2> QED BY <2>1 DEF More
<1> QED BY <1>4, <1>6, <1>7

\* realloc succeeds.
LEMMA ResizeInv ==
  ASSUME NEW h, NEW l, Inv(h, l), NEW p \in DOMAIN l, NEW m, m = MEMBLKp(p), NEW j, NEW x, NEW szneed,
         Kept(j, h, Owned(l), m, x, szneed, One), NEW size \in Nat, size \in Requests,
         szneed >= Nonzero(size) + DATAOFFSET, szneed \in Nat,
         NEW k, k = Put(Forget(l, p), PTR(x), Allocation(size, l[p].word))
  PROVE  Inv(j, k) /\ j.bad = "" /\ PTR(x) \notin DOMAIN l \ {p}
<1>1. IsFiniteSet(DOMAIN l) /\ Agrees(h, l)
  BY DEF Inv
<1>2. PICK S : S = Owned(l) \ {m}
  OBVIOUS
<1>3. Got(j, h, S, x, szneed, One) /\ j.blk[x].prevfree = h.blk[m].prevfree
  BY <1>2 DEF Kept
<1>4. PICK o : o = Forget(l, p)
  OBVIOUS
<1>5. Less(o, l, p)
  BY <1>1, <1>4, AgreesInts, ForgetLive
<1>6. Owned(o) = S /\ DOMAIN o = DOMAIN l \ {p} /\ Ints(o) /\ \A q \in DOMAIN o : o[q] = l[q]
  BY <1>2, <1>5 DEF Less
<1>7. Agrees(h, o)
  BY <1>1, <1>6 DEF Agrees, Entry
<1>8. /\ Frame(j, h, S) /\ x \in Int /\ x # NULL /\ x \notin S /\ j.blk[x].sz >= szneed
      /\ \E F, L : Mid(j, S \union {x}, F, NULL, L, One)
  BY <1>3 DEF Got
<1>9. Agrees(j, o)
  BY <1>6, <1>7, <1>8, AgreesKeep
<1>10. Frame(j, j, S)
  BY DEF Frame
<1>11. Got(j, j, S, x, szneed, One)
  BY <1>8, <1>10 DEF Got
<1>12. PICK v : v = l[p].word
  OBVIOUS
<1>13. v \in Words /\ j.blk[x].prevfree = v
  <2>1. Entry(h, l, p)
    BY <1>1 DEF Agrees
  <2> QED BY <2>1, <1>3, <1>12 DEF Entry
<1>14. IsFiniteSet(DOMAIN o)
  BY <1>1, <1>6, FS_RemoveElement
<1>15. k = Put(o, PTR(x), Allocation(size, v))
  BY <1>4, <1>12
<1>16. Inv(j, k)
  BY <1>6, <1>9, <1>11, <1>13, <1>14, <1>15, AddInv
<1>17. j.bad = ""
  BY <1>8 DEF Mid
<1>18. PTR(x) \notin DOMAIN l \ {p}
  <2>1. More(k, o, x, Allocation(size, v))
    BY <1>6, <1>8, <1>15, PutLive
  <2> QED BY <2>1, <1>6 DEF More
<1> QED BY <1>16, <1>17, <1>18

\* The program moves the break.
LEMMA MoveState ==
  ASSUME NEW h, NEW A, NEW F, NEW L, State(h, A, F, NULL, L, FALSE), NEW n \in Nat, h.brk + n <= MaxBrk,
         NEW j, j = Moved(h, n)
  PROVE  State(j, A, F, NULL, L, FALSE) /\ j.blk = h.blk /\ SameTop(j, h)
<1>1. h \in Heaps /\ Tile(h, FALSE) /\ ListsOK(h, F) /\ F \subseteq At(h)
  BY Zenon DEF State, ListsOK
<1>2. n \in Int
  OBVIOUS
<1>3. j \in Heaps /\ j.blk = h.blk /\ At(j) = At(h) /\ j.freehdrs = h.freehdrs /\ j.bad = h.bad
  BY <1>1, <1>2, MoveFacts
<1>4. Tile(j, FALSE)
  BY <1>1, TileMove
<1>5. SameOn(j, h, F)
  BY <1>1, <1>3, Zenon DEF SameOn
<1>6. ListsOK(j, F)
  BY <1>1, <1>5, ListsKeep
<1>7. /\ Parts(h, A, F, NULL, L) /\ Off(h, F, NULL) /\ Apart2(h, F, L) /\ Sized(h, A, Lim(FALSE))
      /\ Sized(h, F, Lim(FALSE)) /\ (L # NULL => h.blk[L].next = NULL)
  BY DEF State
<1>8. /\ Parts(j, A, F, NULL, L) /\ Off(j, F, NULL) /\ Apart2(j, F, L) /\ Sized(j, A, Lim(FALSE))
      /\ Sized(j, F, Lim(FALSE)) /\ (L # NULL => j.blk[L].next = NULL)
  BY <1>3, <1>7, Zenon DEF Parts, Off, Apart2, Sized
<1>9. SameTop(j, h)
  BY <1>3, Zenon DEF SameTop, lastsbrk
<1> QED BY <1>3, <1>4, <1>6, <1>8, <1>9 DEF State

LEMMA MoveInv ==
  ASSUME NEW h, NEW l, Inv(h, l), One = FALSE, NEW n \in Nat, h.brk + n <= MaxBrk, NEW j, j = Moved(h, n)
  PROVE  Inv(j, l) /\ j.bad = ""
<1>1. PICK A : A = Owned(l)
  OBVIOUS
<1>2. Good(h, A, FALSE) /\ Agrees(h, l) /\ IsFiniteSet(DOMAIN l)
  BY <1>1 DEF Inv
<1>3. Good(j, A, FALSE) /\ j.bad = "" /\ j.blk = h.blk
  <2>1. CASE \E F, L : Mid(h, A, F, NULL, L, FALSE)
    <3>1. PICK F, L : Mid(h, A, F, NULL, L, FALSE)
      BY <2>1
    <3>2. State(h, A, F, NULL, L, FALSE) /\ L # NULL /\ lastsbrk(h) = L /\ h.bad = "" /\ h.blk[L].prevfree \in {NULL, JUNK}
      BY <3>1 DEF Mid
    <3>3. State(j, A, F, NULL, L, FALSE) /\ j.blk = h.blk /\ SameTop(j, h)
      BY <3>2, MoveState
    <3>4. Mid(j, A, F, NULL, L, FALSE)
      BY <3>2, <3>3 DEF Mid, SameTop
    <3> QED BY <3>3, <3>4 DEF Good, Mid
  <2>2. CASE A = {} /\ Empty(h, FALSE)
    <3>1. State(h, {}, {}, NULL, NULL, FALSE) /\ lastsbrk(h) = NULL /\ h.bad = ""
      BY <2>2 DEF Empty
    <3>2. State(j, {}, {}, NULL, NULL, FALSE) /\ j.blk = h.blk /\ SameTop(j, h)
      BY <3>1, MoveState
    <3>3. Empty(j, FALSE) /\ j.bad = ""
      BY <3>1, <3>2 DEF Empty, SameTop
    <3> QED BY <3>2, <3>3, <2>2 DEF Good
  <2> QED BY <2>1, <2>2, <1>2 DEF Good
<1>4. Agrees(j, l)
  BY <1>2, <1>3, Zenon DEF Agrees, Entry
<1> QED BY <1>1, <1>2, <1>3, <1>4 DEF Inv
\* A word is left for a new allocation.
LEMMA FreeWord ==
  ASSUME NEW l, IsFiniteSet(DOMAIN l), Cardinality(DOMAIN l) < MaxLive
  PROVE  \E w \in Words : \A p \in DOMAIN l : l[p].word # w
<1>1. SUFFICES ASSUME \A w \in Words : \E p \in DOMAIN l : l[p].word = w PROVE FALSE
  OBVIOUS
<1>2. MaxLive \in Nat
  BY BoundsAssumption
<1> DEFINE f == [i \in 1..MaxLive |-> CHOOSE p \in DOMAIN l : l[p].word = -10 - i]
<1>3. \A i \in 1..MaxLive : f[i] \in DOMAIN l /\ l[f[i]].word = -10 - i
  <2> SUFFICES ASSUME NEW i \in 1..MaxLive PROVE f[i] \in DOMAIN l /\ l[f[i]].word = -10 - i
    OBVIOUS
  <2>1. -10 - i \in Words
    BY DEF Words
  <2>2. \E p \in DOMAIN l : l[p].word = -10 - i
    BY <2>1, <1>1
  <2> QED BY <2>2
<1>4. \A i, j \in 1..MaxLive : f[i] = f[j] => i = j
  <2> SUFFICES ASSUME NEW i \in 1..MaxLive, NEW j \in 1..MaxLive, f[i] = f[j] PROVE i = j
    OBVIOUS
  <2>1. -10 - i = -10 - j
    BY <1>3
  <2> QED BY <2>1, <1>2
<1>5. f \in [1..MaxLive -> DOMAIN l]
  BY <1>3
<1> HIDE DEF f
<1>6. f \in Injection(1..MaxLive, DOMAIN l)
  <2>1. IsInjective(f)
    BY <1>4, <1>5 DEF IsInjective
  <2> QED BY <2>1, <1>5 DEF Injection
<1>7. Cardinality(1..MaxLive) <= Cardinality(DOMAIN l)
  BY <1>6, FS_Injection
<1>8. Cardinality(1..MaxLive) = MaxLive
  BY <1>2, FS_Interval
<1>9. Cardinality(DOMAIN l) \in Nat
  BY FS_CardinalityType
<1> QED BY <1>2, <1>7, <1>8, <1>9

\* What a call does to the program's view: one more allocation, one less, one resized, or none.
Gained(l, k) == \E p, e : p \notin DOMAIN l /\ k = Put(l, p, e)
Lost(l, k) == \E p \in DOMAIN l : k = Forget(l, p)
Resized(l, k) ==
  \E p \in DOMAIN l : \E q, e : q \notin DOMAIN l \ {p} /\ e.word = l[p].word /\ e.size \in Sizes /\ k = Put(Forget(l, p), q, e)
Shape(l, k) == Gained(l, k) \/ Lost(l, k) \/ Resized(l, k) \/ k = l

\* What malloc and calloc give.
Result(r, h, l, size) ==
  \/ r.m = NULL /\ r.h = h
  \/ /\ size \in Nat /\ size \in Requests
     /\ \E szneed \in Nat : szneed >= Nonzero(size) + DATAOFFSET /\ Got(r.h, h, Owned(l), r.m, szneed, One)

LEMMA NotBad == ASSUME NEW h, NEW l, Inv(h, l) PROVE h.bad = ""
BY DEF Inv, Good, Mid, Empty

LEMMA ObtainStep ==
  ASSUME Inv(heap, live), Cardinality(DOMAIN live) < MaxLive, NEW r, NEW size, Result(r, heap, live, size),
         Obtain(r, size, ALIGN)
  PROVE  Inv(heap', live') /\ Shape(live, live')
<1>1. heap.bad = "" /\ IsFiniteSet(DOMAIN live)
  BY NotBad DEF Inv
<1>2. PICK v : v = CHOOSE w \in Words : \A p \in DOMAIN live : live[p].word # w
  OBVIOUS
<1>3. v \in Words
  <2>1. \E w \in Words : \A p \in DOMAIN live : live[p].word # w
    BY <1>1, FreeWord
  <2> QED BY <2>1, <1>2
<1>4. CASE r.m = NULL /\ r.h = heap
  <2>1. Becomes(r.h) /\ live' = live
    BY <1>4 DEF Obtain
  <2>2. heap' = heap
    BY <2>1, <1>1, <1>4, Zenon DEF Becomes
  <2> QED BY <2>1, <2>2 DEF Shape
<1>5. CASE ~(r.m = NULL /\ r.h = heap)
  <2>1. size \in Nat /\ size \in Requests
    BY <1>5 DEF Result
  <2>2. PICK szneed \in Nat : szneed >= Nonzero(size) + DATAOFFSET /\ Got(r.h, heap, Owned(live), r.m, szneed, One)
    BY <1>5 DEF Result
  <2>3. PICK g, x : g = r.h /\ x = r.m
    OBVIOUS
  <2>4. PICK j : j = Written(g, x, v)
    OBVIOUS
  <2>5. PICK k : k = Put(live, PTR(x), Allocation(size, v))
    OBVIOUS
  <2>6. Got(g, heap, Owned(live), x, szneed, One)
    BY <2>2, <2>3
  <2>7. Inv(j, k) /\ j.bad = "" /\ g.bad = "" /\ PTR(x) \notin DOMAIN live
    BY <1>3, <2>1, <2>2, <2>4, <2>5, <2>6, ObtainInv
  <2>8. x # NULL
    BY <2>6 DEF Got
  <2>9. Becomes(j) /\ live' = k
    BY <1>2, <2>3, <2>4, <2>5, <2>7, <2>8, Zenon DEF Obtain, Written, Allocation
  <2>10. heap' = j
    BY <2>7, <2>9, Zenon DEF Becomes
  <2>11. Gained(live, k)
    BY <2>5, <2>7 DEF Gained
  <2> QED BY <2>7, <2>9, <2>10, <2>11 DEF Shape
<1> QED BY <1>4, <1>5

\* malloc gives room for what was asked.
LEMMA NmallocGives ==
  ASSUME NEW h, NEW l, Inv(h, l), NoWrap, NEW size \in Nat, size \in Requests, size < pow2[W], NEW r, r = nmalloc(h, size)
  PROVE  Result(r, h, l, size)
<1>1. Fits(Nonzero(size))
  BY DEF NoWrap
<1>2. PICK A, one, szneed : A = Owned(l) /\ one = One /\ szneed = roundup(Nonzero(size))
  OBVIOUS
<1>3. Good(h, A, one)
  BY <1>2 DEF Inv
<1>4. (r.m = NULL /\ r.h = h) \/ Got(r.h, h, A, r.m, szneed, one)
  BY <1>1, <1>2, <1>3, NmallocOK
<1>5. szneed \in Nat /\ szneed >= Nonzero(size) + DATAOFFSET
  <2>1. Nonzero(size) \in Nat
    BY DEF Nonzero
  <2> QED BY <2>1, <1>1, <1>2, RoundupFacts
<1> QED BY <1>2, <1>4, <1>5 DEF Result

LEMMA SizeFacts ==
  ASSUME NEW size \in Sizes
  PROVE  size \in Nat /\ size \in Requests /\ size < pow2[W]
BY BoundsAssumption, Halves DEF Requests

\* A product that passes the check of calloc does not wrap.
LEMMA ProductFits ==
  ASSUME NEW n \in Nat, NEW size \in Nat, NEW P \in Nat \ {0}, n = 0 \/ (P - 1) \div n > size
  PROVE  n * size \in Nat /\ n * size < P
<1>1. CASE n = 0
  BY <1>1
<1>2. CASE n # 0
  <2>1. n \in Nat \ {0} /\ P - 1 \in Int
    BY <1>2
  <2>2. PICK q \in Int, s \in Int : q = (P - 1) \div n /\ s >= 0 /\ P - 1 = q * n + s
    BY <2>1, DivModFacts
  <2>3. q > size
    BY <2>2, <1>2
  <2>4. PICK d \in Int : d = q - size /\ d >= 1
    BY <2>3
  <2>5. d * n >= n
    BY <2>1, <2>4, ProductSign
  <2>6. (q - size) * n = q * n - size * n
    BY Distribute
  <2>7. PICK x \in Int, y \in Int, z \in Int : x = q * n /\ y = size * n /\ z = d * n
    OBVIOUS
  <2>8. z >= n /\ z = x - y /\ P - 1 = x + s
    BY <2>2, <2>4, <2>5, <2>6, <2>7
  <2>9. y < P
    BY <2>1, <2>2, <2>8
  <2>10. n * size = y /\ n * size \in Nat
    BY <2>7
  <2> QED BY <2>9, <2>10
<1> QED BY <1>1, <1>2

LEMMA NcallocGives ==
  ASSUME NEW h, NEW l, Inv(h, l), NoWrap, NEW n \in Counts, NEW size \in Sizes, NEW r, r = ncalloc(h, n, size)
  PROVE  Result(r, h, l, n * size)
<1>1. n \in Nat /\ size \in Nat /\ pow2[W] \in Nat /\ pow2[W] # 0
  <2>1. size < pow2[W] /\ size \in Nat /\ pow2[W] \in Nat
    BY SizeFacts, Halves
  <2> QED BY <2>1, BoundsAssumption
<1>2. PICK s : s = n * size
  OBVIOUS
<1>3. PICK P \in Nat \ {0} : P = pow2[W]
  BY <1>1
<1>4. CASE n = 0 \/ (P - 1) \div n > size
  <2>1. n * size \in Nat /\ n * size < P
    BY <1>1, <1>4, ProductFits
  <2>2. s \in Nat /\ s < P /\ s % P = s
    BY <1>2, <2>1, ModSmall
  <2>3. r = nmalloc(h, s)
    BY <1>2, <1>3, <1>4, <2>2, Zenon DEF ncalloc
  <2>4. s \in Requests
    BY <1>2 DEF Requests
  <2>5. Result(r, h, l, s)
    BY <1>3, <2>2, <2>3, <2>4, NmallocGives
  <2> QED BY <2>5, <1>2
<1>5. CASE ~(n = 0 \/ (P - 1) \div n > size)
  <2>1. r = [h |-> h, m |-> NULL]
    BY <1>3, <1>5, Zenon DEF ncalloc
  <2> QED BY <2>1 DEF Result
<1> QED BY <1>4, <1>5
-----------------------------------------------------------------------------
(* The actions. *)

HInv == Inv(heap, live)

LEMMA MallocStep == ASSUME NoWrap, HInv, malloc PROVE HInv' /\ Shape(live, live')
<1>1. PICK size \in Sizes : Obtain(nmalloc(heap, size), size, ALIGN)
  BY DEF malloc
<1>2. PICK r : r = nmalloc(heap, size)
  OBVIOUS
<1>3. Inv(heap, live) /\ Cardinality(DOMAIN live) < MaxLive
  BY DEF HInv, malloc, CanObtain
<1>4. Result(r, heap, live, size)
  BY <1>2, <1>3, SizeFacts, NmallocGives
<1>5. Obtain(r, size, ALIGN)
  BY <1>1, <1>2
<1>6. Inv(heap', live') /\ Shape(live, live')
  BY <1>3, <1>4, <1>5, ObtainStep
<1> QED BY <1>6 DEF HInv

LEMMA CallocStep == ASSUME NoWrap, HInv, calloc PROVE HInv' /\ Shape(live, live')
<1>1. PICK n \in Counts, size \in Sizes : Obtain(ncalloc(heap, n, size), n * size, ALIGN)
  BY DEF calloc
<1>2. PICK r : r = ncalloc(heap, n, size)
  OBVIOUS
<1>3. Inv(heap, live) /\ Cardinality(DOMAIN live) < MaxLive
  BY DEF HInv, calloc, CanObtain
<1>4. Result(r, heap, live, n * size)
  BY <1>2, <1>3, NcallocGives
<1>5. Obtain(r, n * size, ALIGN)
  BY <1>1, <1>2
<1>6. Inv(heap', live') /\ Shape(live, live')
  BY <1>3, <1>4, <1>5, ObtainStep
<1> QED BY <1>6 DEF HInv

LEMMA FreeStep == ASSUME HInv, free PROVE HInv' /\ Shape(live, live')
<1>1. PICK p \in DOMAIN live : Becomes(nfree(heap, MEMBLKp(p))) /\ live' = Forget(live, p)
  BY DEF free
<1>2. PICK j, k : j = nfree(heap, MEMBLKp(p)) /\ k = Forget(live, p)
  OBVIOUS
<1>3. Inv(heap, live)
  BY DEF HInv
<1>4. Inv(j, k) /\ j.bad = ""
  BY <1>2, <1>3, FreeInv
<1>5. heap' = j /\ live' = k
  BY <1>1, <1>2, <1>4, Zenon DEF Becomes
<1>6. Lost(live, k)
  BY <1>2 DEF Lost
<1> QED BY <1>4, <1>5, <1>6 DEF HInv, Shape

LEMMA ReallocStep == ASSUME NoWrap, HInv, realloc PROVE HInv' /\ Shape(live, live')
<1>1. PICK p \in DOMAIN live, size \in Sizes : Resize(nrealloc(heap, MEMBLKp(p), size), p, size)
  BY DEF realloc
<1>2. PICK r, m, A : r = nrealloc(heap, m, size) /\ m = MEMBLKp(p) /\ A = Owned(live)
  OBVIOUS
<1>3. Inv(heap, live) /\ Good(heap, A, One) /\ m \in A
  BY <1>2 DEF HInv, Inv, Owned
<1>4. heap.bad = ""
  BY <1>3, NotBad
<1>5. size \in Nat /\ size \in Requests /\ Fits(Nonzero(size))
  BY SizeFacts DEF NoWrap
<1>6. PICK szneed : szneed = roundup(Nonzero(size))
  OBVIOUS
<1>7. szneed \in Nat /\ szneed >= Nonzero(size) + DATAOFFSET
  <2>1. Nonzero(size) \in Nat
    BY <1>5 DEF Nonzero
  <2> QED BY <2>1, <1>5, <1>6, RoundupFacts
<1>8. (r.m = NULL /\ r.h = heap) \/ Kept(r.h, heap, A, m, r.m, szneed, One)
  <2>1. r = nrealloc(heap, m, size)
    BY <1>2
  <2> QED BY <2>1, <1>3, <1>5, <1>6, NreallocOK
<1>9. Resize(r, p, size)
  BY <1>1, <1>2
<1>10. CASE r.m = NULL /\ r.h = heap
  <2>1. Becomes(r.h) /\ live' = live
    BY <1>9, <1>10 DEF Resize
  <2>2. heap' = heap
    BY <2>1, <1>4, <1>10, Zenon DEF Becomes
  <2> QED BY <2>1, <2>2 DEF Shape, HInv
<1>11. CASE Kept(r.h, heap, A, m, r.m, szneed, One)
  <2>1. PICK j, x : j = r.h /\ x = r.m
    OBVIOUS
  <2>2. PICK k : k = Put(Forget(live, p), PTR(x), Allocation(size, live[p].word))
    OBVIOUS
  <2>3. Kept(j, heap, Owned(live), m, x, szneed, One)
    BY <1>2, <1>11, <2>1
  <2>4. m = MEMBLKp(p) /\ Inv(heap, live)
    BY <1>2, <1>3
  <2>5. Inv(j, k) /\ j.bad = "" /\ PTR(x) \notin DOMAIN live \ {p}
    BY <1>5, <1>7, <2>2, <2>3, <2>4, ResizeInv
  <2>6. x # NULL
    BY <2>3 DEF Kept, Got
  <2>7. Becomes(j) /\ live' = k
    BY <1>9, <2>1, <2>2, <2>5, <2>6, Zenon DEF Resize, Allocation
  <2>8. heap' = j
    BY <2>5, <2>7, Zenon DEF Becomes
  <2>9. Resized(live, k)
    <3>1. PICK e : e = Allocation(size, live[p].word)
      OBVIOUS
    <3>2. e.word = live[p].word /\ e.size \in Sizes
      BY <3>1 DEF Allocation
    <3> QED BY <3>1, <3>2, <2>2, <2>5 DEF Resized
  <2> QED BY <2>5, <2>7, <2>8, <2>9 DEF HInv, Shape
<1> QED BY <1>8, <1>10, <1>11

LEMMA SbrkStep == ASSUME HInv, sbrk PROVE HInv' /\ Shape(live, live')
<1>1. PICK n \in Foreign : heap.brk + n <= MaxBrk /\ heap' = [heap EXCEPT !.brk = @ + n]
  BY DEF sbrk
<1>2. n \in Nat /\ One = FALSE
  BY BoundsAssumption DEF One
<1>3. PICK j : j = Moved(heap, n)
  OBVIOUS
<1>4. heap' = j /\ live' = live
  BY <1>1, <1>3, Zenon DEF Moved, sbrk
<1>5. Inv(heap, live)
  BY DEF HInv
<1>6. Inv(j, live)
  BY <1>1, <1>2, <1>3, <1>5, MoveInv
<1> QED BY <1>4, <1>6 DEF HInv, Shape

LEMMA HeapStep ==
  ASSUME NoWrap, Alignments = {}, HInv, [Next]_vars
  PROVE  HInv' /\ Shape(live, live')
<1>1. CASE malloc
  BY <1>1, MallocStep
<1>2. CASE calloc
  BY <1>2, CallocStep
<1>3. CASE memalign
  BY <1>3 DEF memalign
<1>4. CASE free
  BY <1>4, FreeStep
<1>5. CASE realloc
  BY <1>5, ReallocStep
<1>6. CASE sbrk
  BY <1>6, SbrkStep
<1>7. CASE UNCHANGED vars
  BY <1>7 DEF vars, HInv, Shape
<1> QED BY <1>1, <1>2, <1>3, <1>4, <1>5, <1>6, <1>7 DEF Next

LEMMA HeapInit == Init => HInv
<1> SUFFICES ASSUME Init PROVE HInv
  OBVIOUS
<1>e. PICK X, f : X = <<>> /\ f = [b \in 0..(NFLISTS - 1) |-> NULL]
  OBVIOUS
<1>h. heap = [blk |-> X, freehdrs |-> f, brk |-> Base, bad |-> ""] /\ live = X
  BY <1>e, Zenon DEF Init
<1>f. heap.blk = X /\ heap.freehdrs = f
  BY <1>h, Zenon
<1>0. DOMAIN heap.blk = {} /\ DOMAIN live = {}
  <2>1. DOMAIN X = {}
    BY <1>e
  <2> QED BY <2>1, <1>f, <1>h
<1>1. heap.freehdrs \in [Lists -> Int] /\ \A b \in Lists : heap.freehdrs[b] = NULL
  <2>1. f \in [Lists -> Int] /\ \A b \in Lists : f[b] = NULL
    BY <1>e DEF Lists, NULL
  <2> QED BY <2>1, <1>f
<1>2. heap.brk = Base /\ heap.bad = ""
  BY DEF Init
<1>3. heap \in Heaps
  <2>1. heap.blk \in Blocks
    <3>1. heap.blk = <<>>
      BY DEF Init
    <3>2. heap.blk = [x \in {} |-> x]
      BY <3>1
    <3>3. heap.blk \in [{} -> Block]
      BY <3>2
    <3> QED BY <3>3 DEF Blocks
  <2>2. heap.brk \in Int /\ heap.bad \in Marks
    <3>1. "" \in Marks
      BY DEF Marks
    <3>2. Base \in Int
      BY Halves
    <3> QED BY <1>2, <3>1, <3>2, Zenon
  <2>3. X \in Blocks /\ f \in [Lists -> Int] /\ Base \in Int
    BY <1>1, <1>f, <2>1, Halves
  <2>4. PICK e \in Marks : e = ""
    BY DEF Marks
  <2>5. [blk |-> X, freehdrs |-> f, brk |-> Base, bad |-> e] \in Heaps
    BY <2>3 DEF Heaps
  <2> QED BY <1>h, <2>4, <2>5
<1>4. At(heap) = {}
  BY <1>0 DEF At
<1>5. PICK one \in BOOLEAN : one = One
  BY DEF One
<1>6. Tile(heap, one)
  <2>1. heap.brk = Base /\ Base \in Nat /\ Base <= MaxBrk
    BY <1>2, Halves
  <2>2. heap.brk >= Base /\ heap.brk <= MaxBrk
    BY <2>1
  <2> QED BY <2>2, <1>4 DEF Tile
<1>7. ListsOK(heap, {})
  <2>1. Ranks(heap, {}, [x \in {} |-> 0])
    BY DEF Ranks
  <2>2. \A b \in Buckets : HeadOK(heap, {}, b)
    BY <1>1, BucketsAreLists DEF HeadOK
  <2> QED BY <2>1, <2>2 DEF ListsOK
<1>8. State(heap, {}, {}, NULL, NULL, one)
  <2>1. Parts(heap, {}, {}, NULL, NULL) /\ Off(heap, {}, NULL) /\ Apart2(heap, {}, NULL) /\ Sized(heap, {}, Lim(one))
    BY <1>4 DEF Parts, Off, Apart2, Sized
  <2> QED BY <1>3, <1>6, <1>7, <2>1 DEF State
<1>9. lastsbrk(heap) = NULL
  BY <1>1, BucketsAreLists DEF lastsbrk
<1>10. Empty(heap, one) /\ Owned(live) = {}
  BY <1>0, <1>2, <1>8, <1>9 DEF Empty, Owned
<1>11. Good(heap, Owned(live), One)
  BY <1>5, <1>10 DEF Good
<1>12. Agrees(heap, live) /\ IsFiniteSet(DOMAIN live)
  BY <1>0, FS_EmptySet DEF Agrees
<1> QED BY <1>11, <1>12 DEF HInv, Inv

\* For any sizes, counts and breaks, in every state malloc, calloc, realloc, free and the
\* program's own sbrk lead to, the blocks are those that are allocated, those on the lists
\* and lastsbrk, the lists have no cycle, and the heap holds what the program wrote.
THEOREM HeapInvariance ==
  ASSUME NoWrap, Alignments = {}
  PROVE  Spec => []HInv
<1>1. HInv /\ [Next]_vars => HInv'
  BY HeapStep
<1> QED BY <1>1, HeapInit, PTL DEF Spec
-----------------------------------------------------------------------------
(* What the invariant says of the heap. *)

\* The heap between two calls, whether or not there is an area.
Stands(h, A, F, L, one) ==
  /\ State(h, A, F, NULL, L, one) /\ lastsbrk(h) = L /\ h.bad = ""
  /\ L # NULL => h.blk[L].prevfree \in {NULL, JUNK}

LEMMA Standing ==
  ASSUME HInv
  PROVE  \E F, L : Stands(heap, Allocated, F, L, One) /\ Free = F
<1>1. PICK A : A = Allocated /\ Good(heap, A, One)
  BY DEF HInv, Inv, Owned, Allocated
<1>2. \E F, L : Stands(heap, A, F, L, One)
  <2>1. CASE \E F, L : Mid(heap, A, F, NULL, L, One)
    <3>1. PICK F, L : Mid(heap, A, F, NULL, L, One)
      BY <2>1
    <3>2. Stands(heap, A, F, L, One)
      BY <3>1 DEF Mid, Stands
    <3> QED BY <3>2
  <2>2. CASE A = {} /\ Empty(heap, One)
    <3>1. Stands(heap, A, {}, NULL, One)
      BY <2>2 DEF Empty, Stands
    <3> QED BY <3>1
  <2> QED BY <2>1, <2>2, <1>1 DEF Good
<1>3. PICK F, L : Stands(heap, A, F, L, One)
  BY <1>2
<1>4. State(heap, A, F, NULL, L, One)
  BY <1>3 DEF Stands
<1>5. F \subseteq At(heap) /\ NULL \notin At(heap)
  BY <1>4, StateFacts
<1>6. \A m \in At(heap) : ISFREE(heap, m) <=> m \in F
  <2> SUFFICES ASSUME NEW m \in At(heap) PROVE ISFREE(heap, m) <=> m \in F
    OBVIOUS
  <2>1. m # NULL
    BY <1>5
  <2> QED BY <2>1, <1>4, FreeIff
<1>7. Free = F
  BY <1>5, <1>6 DEF Free, blk, At
<1> QED BY <1>1, <1>3, <1>7

LEMMA HoldsType ==
  ASSUME HInv
  PROVE  TypeOK
<1>1. PICK A, F, L, one : A = Allocated /\ one = One /\ Stands(heap, A, F, L, one)
  BY Standing
<1>2. State(heap, A, F, NULL, L, one)
  BY <1>1 DEF Stands
<1>3. /\ heap \in Heaps /\ Tile(heap, one) /\ ListsOK(heap, F) /\ A \subseteq At(heap) /\ F \subseteq At(heap)
      /\ (L # NULL => L \in At(heap)) /\ one \in BOOLEAN
  BY <1>2, StateFacts
<1>4. heap.brk \in Base..MaxBrk
  <2>1. heap.brk >= Base /\ heap.brk <= MaxBrk
    BY <1>3 DEF Tile
  <2>2. heap.brk \in Int
    BY <1>3, HeapFacts
  <2> QED BY <2>1, <2>2, Halves
<1>5. heap.bad \in {"", "fouled", "overlap"}
  <2>1. heap.bad = ""
    BY <1>1 DEF Stands
  <2> QED BY <2>1
<1>6. \A b \in 0..(NFLISTS - 1) : heap.freehdrs[b] \in At(heap) \union {NULL}
  <2> SUFFICES ASSUME NEW b \in Lists PROVE heap.freehdrs[b] \in At(heap) \union {NULL}
    BY DEF Lists
  <2>1. CASE b = 0
    <3>1. heap.freehdrs[0] = L
      BY <1>1 DEF Stands, lastsbrk
    <3> QED BY <2>1, <3>1, <1>3
  <2>2. CASE b # 0
    <3>1. b \in Buckets
      BY <2>2, BucketsAreLists
    <3>2. HeadOK(heap, F, b)
      BY <3>1, <1>3 DEF ListsOK
    <3> QED BY <3>2, <1>3 DEF HeadOK
  <2> QED BY <2>1, <2>2
<1>7. ASSUME NEW m \in At(heap) PROVE m \in Base..MaxBrk /\ heap.blk[m].sz \in Nat
  <2>1. /\ m \in Int /\ m >= Base /\ heap.brk \in Int /\ heap.brk <= MaxBrk
        /\ heap.blk[m].sz \in Nat /\ m + heap.blk[m].sz <= heap.brk
    BY <1>3, TileFacts
  <2> QED BY <2>1, Halves
<1>8. ASSUME NEW m \in At(heap) PROVE {heap.blk[m].prev, heap.blk[m].next} \subseteq At(heap) \union {NULL}
  <2>1. NextOK(heap, m) /\ PrevOK(heap, m)
    BY <1>3 DEF Tile
  <2> QED BY <2>1 DEF NextOK, PrevOK
<1>9. ASSUME NEW m \in At(heap)
      PROVE  /\ heap.blk[m].nextfree \in At(heap) \union {NULL, NONE}
             /\ heap.blk[m].prevfree \in At(heap) \union {NULL, NONE, JUNK} \union Words
  <2>0. Parts(heap, A, F, NULL, L) /\ Off(heap, F, NULL)
    BY <1>2 DEF State
  <2>1. m \in A \/ m \in F \/ m = L
    BY <2>0 DEF Parts
  <2>2. CASE m \in F
    <3>1. NextfreeOK(heap, F, m) /\ PrevfreeOK(heap, F, m)
      BY <2>2, <1>3 DEF ListsOK
    <3> QED BY <3>1, <1>3 DEF NextfreeOK, PrevfreeOK
  <2>3. CASE m \notin F
    <3>1. m # NULL
      BY <1>3, NoBlockAtCode
    <3>2. heap.blk[m].nextfree = NULL
      BY <2>0, <2>3, <3>1 DEF Off
    <3>3. CASE m \in A
      <4>1. PICK p \in DOMAIN live : m = MEMBLKp(p)
        BY <3>3, <1>1 DEF Allocated
      <4>2. heap.blk[m].prevfree \in Words
        BY <4>1 DEF HInv, Inv, Agrees, Entry
      <4> QED BY <3>2, <4>2
    <3>4. CASE m = L
      <4>1. heap.blk[L].prevfree \in {NULL, JUNK}
        BY <3>1, <3>4, <1>1 DEF Stands
      <4> QED BY <3>2, <3>4, <4>1
    <3> QED BY <2>1, <2>3, <3>3, <3>4
  <2> QED BY <2>2, <2>3
<1> QED BY <1>4, <1>5, <1>6, <1>7, <1>8, <1>9 DEF TypeOK, blk, At

LEMMA HoldsTiling ==
  ASSUME HInv
  PROVE  NeverFouled /\ BlocksTile
<1>1. PICK A, F, L, one : one = One /\ Stands(heap, A, F, L, one)
  BY Standing
<1>2. State(heap, A, F, NULL, L, one) /\ heap.bad = ""
  BY <1>1 DEF Stands
<1>3. State(heap, A, F, NULL, L, one)
  BY <1>2
<1>4. heap \in Heaps /\ Tile(heap, one)
  BY <1>3, StateFacts
<1>5. \A m \in At(heap) : NextOK(heap, m) /\ PrevOK(heap, m) /\ Apart(heap, m) /\ Placed(heap, m)
  BY <1>4 DEF Tile
<1>6. BlocksTile
  BY <1>5 DEF BlocksTile, blk, At, NextOK, PrevOK, Apart, Placed
<1> QED BY <1>2, <1>6 DEF NeverFouled

LEMMA HoldsParts ==
  ASSUME HInv
  PROVE  NothingIsLost /\ Coalesced
<1>1. PICK F, L : Stands(heap, Allocated, F, L, One) /\ Free = F
  BY Standing
<1>2. State(heap, Allocated, F, NULL, L, One) /\ lastsbrk(heap) = L
  BY <1>1 DEF Stands
<1>3. Parts(heap, Allocated, F, NULL, L) /\ Apart2(heap, F, L)
  BY <1>2 DEF State
<1>4. At(heap) = Allocated \union F \union ({L} \ {NULL}) /\ Allocated \intersect F = {} /\ L \notin Allocated \union F
  BY <1>3 DEF Parts
<1>5. NothingIsLost
  BY <1>1, <1>2, <1>4 DEF NothingIsLost, blk, At
<1>6. Coalesced
  <2> SUFFICES ASSUME NEW m \in F PROVE heap.blk[m].next \notin F /\ (heap.blk[m].next # NULL => heap.blk[m].next # L)
    BY <1>1, <1>2 DEF Coalesced, blk
  <2>1. heap.blk[m].next \notin F /\ (L # NULL => heap.blk[m].next # L)
    BY <1>3 DEF Apart2
  <2> QED BY <2>1
<1> QED BY <1>5, <1>6

LEMMA HoldsLists ==
  ASSUME HInv
  PROVE  ListsHoldTheirSizes
<1>1. PICK F, L : Stands(heap, Allocated, F, L, One) /\ Free = F
  BY Standing
<1>2. State(heap, Allocated, F, NULL, L, One)
  BY <1>1 DEF Stands
<1>3. ListsOK(heap, F) /\ NONE \notin F
  BY <1>2, StateFacts
<1>4. ASSUME NEW m \in Free
      PROVE  LET b == size2bucket(blk[m].sz)
                 n == blk[m].nextfree
                 p == blk[m].prevfree
             IN  /\ IF p = NONE THEN heap.freehdrs[b] = m ELSE p \in Free /\ blk[p].nextfree = m
                 /\ n # NONE => n \in Free /\ blk[n].prevfree = m /\ size2bucket(blk[n].sz) = b
  <2>1. NextfreeOK(heap, F, m) /\ PrevfreeOK(heap, F, m)
    BY <1>1, <1>3, <1>4 DEF ListsOK
  <2> QED BY <2>1, <1>1, <1>3, Zenon DEF NextfreeOK, PrevfreeOK, B, blk
<1>5. ASSUME NEW b \in 2..(NFLISTS - 1), heap.freehdrs[b] # NULL
      PROVE  heap.freehdrs[b] \in Free /\ size2bucket(blk[heap.freehdrs[b]].sz) = b
  <2>1. b \in Buckets
    BY WidthAssumption DEF Buckets, NFLISTS
  <2>2. HeadOK(heap, F, b)
    BY <2>1, <1>3 DEF ListsOK
  <2> QED BY <2>2, <1>1, <1>5, Zenon DEF HeadOK, B, blk
<1> QED BY <1>4, <1>5, Zenon DEF ListsHoldTheirSizes

LEMMA HoldsAllocations ==
  ASSUME HInv
  PROVE  EnoughRoom /\ Aligned
<1>1. PICK F, L, A : A = Allocated /\ Stands(heap, A, F, L, One)
  BY Standing
<1>2. State(heap, A, F, NULL, L, One)
  BY <1>1 DEF Stands
<1>3. heap \in Heaps /\ Tile(heap, One) /\ A \subseteq At(heap)
  BY <1>2, StateFacts
<1>4. ASSUME NEW p \in DOMAIN live PROVE blk[MEMBLKp(p)].sz >= live[p].size + DATAOFFSET /\ p % live[p].align = 0
  <2>1. PICK m : m = MEMBLKp(p)
    OBVIOUS
  <2>2. m \in At(heap)
    BY <2>1, <1>1, <1>3 DEF Allocated
  <2>3. heap.blk[m].sz \in Nat /\ m \in Int /\ Al(m)
    BY <2>2, <1>3, TileFacts
  <2>4. /\ p \in Int /\ live[p].size \in Nat /\ live[p].align = ALIGN
        /\ heap.blk[m].sz >= Nonzero(live[p].size) + DATAOFFSET
    BY <2>1 DEF HInv, Inv, Agrees, Entry
  <2>5. heap.blk[m].sz >= live[p].size + DATAOFFSET
    BY <2>3, <2>4, OffsetAligned DEF Nonzero
  <2>6. Al(m + DATAOFFSET)
    <3>1. m \in Int /\ Al(m) /\ DATAOFFSET \in Int /\ Al(DATAOFFSET)
      BY <2>3, OffsetAligned
    <3> QED BY <3>1, AlignedSum, Zenon
  <2>7. p = m + DATAOFFSET
    BY <2>1, <2>4, OffsetAligned DEF MEMBLKp
  <2>8. p % ALIGN = 0
    BY <2>6, <2>7 DEF Al
  <2> QED BY <2>1, <2>4, <2>5, <2>8 DEF blk
<1> QED BY <1>4 DEF EnoughRoom, Aligned

LEMMA HoldsLinks ==
  ASSUME HInv, Foreign = {}
  PROVE  FreeBlocksHoldTheirLinks
<1>1. PICK F, L : Stands(heap, Allocated, F, L, One) /\ Free = F
  BY Standing
<1>2. Sized(heap, F, Lim(One))
  BY <1>1 DEF Stands, State
<1>3. Lim(One) = MINSAVE
  BY DEF Lim, One
<1> QED BY <1>1, <1>2, <1>3 DEF FreeBlocksHoldTheirLinks, Sized, blk

\* The parts of HeapOK that hold also when the program moves the break itself.
HeapStaysWhole ==
  /\ TypeOK /\ NeverFouled /\ BlocksTile /\ NothingIsLost /\ ListsHoldTheirSizes
  /\ Coalesced /\ EnoughRoom /\ Aligned

LEMMA HoldsWhole == HInv => HeapStaysWhole
BY HoldsType, HoldsTiling, HoldsParts, HoldsLists, HoldsAllocations DEF HeapStaysWhole

\* Whatever the program asks for, and wherever it moves the break between calls, no
\* function finds memory fouled, the blocks tile the areas, nothing is lost or handed out
\* twice, the lists hold the free blocks of their sizes, free neighbours are joined, and
\* an allocation has the room that was asked for and is aligned.
THEOREM HeapIsWhole ==
  ASSUME NoWrap, Alignments = {}
  PROVE  Spec => []HeapStaysWhole
<1>1. Spec => []HInv
  BY HeapInvariance
<1> QED BY <1>1, HoldsWhole, PTL

\* The heap that grows in one area is consistent after every call: a free block has also
\* room for its links.
THEOREM HeapIsOK ==
  ASSUME NoWrap, Alignments = {}, Foreign = {}
  PROVE  Spec => []HeapOK
<1>1. Spec => []HInv
  BY HeapInvariance
<1>2. HInv => HeapOK
  BY HoldsWhole, HoldsLinks DEF HeapStaysWhole, HeapOK
<1> QED BY <1>1, <1>2, PTL
-----------------------------------------------------------------------------
(* The heap implements Allocator. *)

\* The allocations as Allocator sees them.
Seen(h, l) == [p \in DOMAIN l |-> [size |-> l[p].size, word |-> h.blk[MEMBLKp(p)].prevfree]]

\* Their bytes.
Bytes(p, n) == p .. (p + Nonzero(n) - 1)

\* What the program and the heap know of an allocation.
LEMMA SeenFacts ==
  ASSUME NEW h, NEW l, Inv(h, l), NEW p \in DOMAIN l
  PROVE  /\ Seen(h, l)[p] = [size |-> l[p].size, word |-> l[p].word]
         /\ p \in Int /\ l[p].size \in Nat /\ l[p].size \in Requests /\ l[p].word \in Words
<1>1. Entry(h, l, p)
  BY DEF Inv, Agrees
<1>2. /\ p \in Int /\ l[p].size \in Nat /\ l[p].size \in Requests /\ l[p].word \in Words
      /\ h.blk[MEMBLKp(p)].prevfree = l[p].word
  BY <1>1 DEF Entry
<1>3. Seen(h, l)[p] = [size |-> l[p].size, word |-> l[p].word]
  BY <1>2 DEF Seen
<1> QED BY <1>2, <1>3

\* Field by field.
LEMMA SeenFields ==
  ASSUME NEW h, NEW l, Inv(h, l), NEW p \in DOMAIN l, NEW s, s = Seen(h, l)
  PROVE  s[p].size = l[p].size /\ s[p].word = l[p].word
<1>1. s[p] = [size |-> l[p].size, word |-> l[p].word]
  BY SeenFacts
<1> QED BY <1>1

\* An allocation lies within its block.
LEMMA Within ==
  ASSUME NEW h, NEW l, Inv(h, l), NEW p \in DOMAIN l
  PROVE  \E m \in Int, s \in Nat :
           /\ p = m + DATAOFFSET /\ p \in Int /\ s >= Nonzero(l[p].size) + DATAOFFSET /\ m + s <= MaxBrk /\ Al(p)
           /\ \A q \in DOMAIN l : q > p => q >= p + s
<1>1. PICK A : A = Owned(l) /\ Good(h, A, One)
  BY DEF Inv
<1>2. PICK m : m = MEMBLKp(p) /\ m \in A
  BY <1>1 DEF Owned
<1>3. PICK F, L : Mid(h, A, F, NULL, L, One)
  BY <1>1, <1>2, GoodFinds
<1>4. State(h, A, F, NULL, L, One)
  BY <1>3 DEF Mid
<1>5. h \in Heaps /\ Tile(h, One) /\ A \subseteq At(h)
  BY <1>4, StateFacts
<1>6. m \in At(h)
  BY <1>2, <1>5
<1>7. /\ m \in Int /\ Al(m) /\ h.brk \in Int /\ h.brk <= MaxBrk /\ h.blk[m].sz \in Nat /\ m + h.blk[m].sz <= h.brk
  BY <1>5, <1>6, TileFacts
<1>8. PICK s \in Nat : s = h.blk[m].sz /\ m + s <= MaxBrk
  BY <1>7, Halves
<1>9. p \in Int /\ s >= Nonzero(l[p].size) + DATAOFFSET
  BY <1>2, <1>8 DEF Inv, Agrees, Entry
<1>10. p = m + DATAOFFSET
  BY <1>2, <1>9, OffsetAligned DEF MEMBLKp
<1>11. Al(p)
  <2>1. m \in Int /\ Al(m) /\ DATAOFFSET \in Int /\ Al(DATAOFFSET)
    BY <1>7, OffsetAligned
  <2>2. Al(m + DATAOFFSET)
    BY <2>1, AlignedSum, Zenon
  <2> QED BY <2>2, <1>10
<1>12. ASSUME NEW q \in DOMAIN l, q > p PROVE q >= p + s
  <2>1. PICK n : n = MEMBLKp(q)
    OBVIOUS
  <2>2. n \in At(h)
    BY <2>1, <1>1, <1>5 DEF Owned
  <2>3. q \in Int
    BY DEF Inv, Agrees, Entry
  <2>4. n = q - DATAOFFSET /\ n \in Int /\ n > m
    BY <2>1, <2>3, <1>7, <1>9, <1>10, <1>12, OffsetAligned DEF MEMBLKp
  <2>5. Apart(h, m)
    BY <1>5, <1>6 DEF Tile
  <2>6. n >= m + s
    BY <2>2, <2>4, <2>5, <1>8 DEF Apart
  <2> QED BY <2>3, <2>4, <2>6, <1>7, <1>10, OffsetAligned
<1> QED BY <1>7, <1>8, <1>9, <1>10, <1>11, <1>12

\* It is aligned and within memory, and its bytes are its own.
LEMMA Granted ==
  ASSUME NEW h, NEW l, Inv(h, l), NEW p \in DOMAIN l
  PROVE  p % ALIGN = 0 /\ p + l[p].size <= MaxBrk
<1>1. PICK m \in Int, s \in Nat :
        p = m + DATAOFFSET /\ p \in Int /\ s >= Nonzero(l[p].size) + DATAOFFSET /\ m + s <= MaxBrk /\ Al(p)
  BY Within
<1>2. l[p].size \in Nat
  BY SeenFacts
<1>3. p + l[p].size <= MaxBrk
  BY <1>1, <1>2, OffsetAligned, Halves DEF Nonzero
<1> QED BY <1>1, <1>3 DEF Al

LEMMA Separate ==
  ASSUME NEW h, NEW l, Inv(h, l), NEW p \in DOMAIN l, NEW q \in DOMAIN l, p # q
  PROVE  Bytes(p, l[p].size) \intersect Bytes(q, l[q].size) = {}
<1>1. ASSUME NEW a \in DOMAIN l, NEW b \in DOMAIN l, a < b
      PROVE  Bytes(a, l[a].size) \intersect Bytes(b, l[b].size) = {}
  <2>1. PICK m \in Int, s \in Nat :
          /\ a = m + DATAOFFSET /\ a \in Int /\ s >= Nonzero(l[a].size) + DATAOFFSET
          /\ \A c \in DOMAIN l : c > a => c >= a + s
    BY Within
  <2>2. l[a].size \in Nat /\ b \in Int
    BY SeenFacts
  <2>3. b > a
    BY <1>1, <2>1, <2>2
  <2>4. b >= a + s
    BY <2>1, <2>3
  <2>5. PICK n \in Nat : n = Nonzero(l[a].size)
    BY <2>2 DEF Nonzero
  <2>6. a + n <= b
    BY <2>1, <2>2, <2>4, <2>5, OffsetAligned
  <2>7. \A i \in Bytes(a, l[a].size) : i < b /\ i \in Int
    BY <2>1, <2>2, <2>5, <2>6 DEF Bytes
  <2>8. PICK k \in Nat : k = Nonzero(l[b].size)
    <3>1. l[b].size \in Nat
      BY SeenFacts
    <3> QED BY <3>1 DEF Nonzero
  <2>9. \A i \in Bytes(b, l[b].size) : i >= b
    BY <2>2, <2>8 DEF Bytes
  <2> QED BY <2>2, <2>7, <2>9
<1>2. p \in Int /\ q \in Int
  BY SeenFacts
<1>3. p < q \/ q < p
  BY <1>2
<1> QED BY <1>1, <1>3
\* The actions of Allocator, between what is seen before and after.
Grant(p, n) == p % ALIGN = 0 /\ p + n <= MaxBrk
Disjoint(p, n, s, others) == \A q \in others : Bytes(p, n) \intersect Bytes(q, s[q].size) = {}
SeenObtain(s, t) ==
  \E p \in DOMAIN t \ DOMAIN s :
    /\ t[p].size \in Requests /\ t[p].word \in Words /\ Grant(p, t[p].size) /\ Disjoint(p, t[p].size, s, DOMAIN s)
    /\ t = [q \in DOMAIN s \union {p} |-> IF q = p THEN t[p] ELSE s[q]]
SeenFree(s, t) == \E p \in DOMAIN s : t = [q \in DOMAIN s \ {p} |-> s[q]]
SeenResize(s, t) ==
  \E p \in DOMAIN s, q \in DOMAIN t :
    /\ q \notin DOMAIN s \ {p} /\ t[q].size \in Sizes /\ Grant(q, t[q].size)
    /\ Disjoint(q, t[q].size, s, DOMAIN s \ {p})
    /\ t = [r \in (DOMAIN s \ {p}) \union {q} |->
              IF r = q THEN [size |-> t[q].size, word |-> s[p].word] ELSE s[r]]

LEMMA SeenIsFunction ==
  ASSUME NEW h, NEW l
  PROVE  DOMAIN Seen(h, l) = DOMAIN l /\ Seen(h, l) = [p \in DOMAIN l |-> Seen(h, l)[p]]
BY DEF Seen

LEMMA SeenSame ==
  ASSUME NEW h, NEW l, NEW j, NEW k, Inv(h, l), Inv(j, k), NEW q \in DOMAIN l, q \in DOMAIN k, k[q] = l[q]
  PROVE  Seen(j, k)[q] = Seen(h, l)[q]
<1>1. Seen(h, l)[q] = [size |-> l[q].size, word |-> l[q].word]
  BY SeenFacts
<1>2. Seen(j, k)[q] = [size |-> k[q].size, word |-> k[q].word]
  BY SeenFacts
<1> QED BY <1>1, <1>2, Zenon

\* A new or resized allocation p is as Allocator grants it.
LEMMA SeenGranted ==
  ASSUME NEW h, NEW l, NEW j, NEW k, Inv(h, l), Inv(j, k), NEW p \in DOMAIN k, NEW S, S \subseteq DOMAIN l, S \subseteq DOMAIN k,
         p \notin S, \A q \in S : k[q] = l[q], NEW s, s = Seen(h, l), NEW n, n = k[p].size
  PROVE  Grant(p, n) /\ Disjoint(p, n, s, S)
<1>1. Grant(p, n)
  BY Granted DEF Grant
<1>2. Disjoint(p, n, s, S)
  <2> SUFFICES ASSUME NEW q \in S PROVE Bytes(p, n) \intersect Bytes(q, s[q].size) = {}
    BY DEF Disjoint
  <2>1. q \in DOMAIN l /\ q \in DOMAIN k /\ k[q] = l[q] /\ p # q
    OBVIOUS
  <2>2. s[q].size = l[q].size
    BY <2>1, SeenFields
  <2>3. Bytes(p, k[p].size) \intersect Bytes(q, k[q].size) = {}
    BY <2>1, Separate
  <2> QED BY <2>1, <2>2, <2>3
<1> QED BY <1>1, <1>2

LEMMA GainedSeen ==
  ASSUME NEW h, NEW l, NEW j, NEW k, Inv(h, l), Inv(j, k), Gained(l, k), NEW s, s = Seen(h, l), NEW t, t = Seen(j, k)
  PROVE  SeenObtain(s, t)
<1>1. PICK p, e : p \notin DOMAIN l /\ k = Put(l, p, e)
  BY DEF Gained
<1>2. DOMAIN k = DOMAIN l \union {p} /\ \A q \in DOMAIN l : k[q] = l[q]
  BY <1>1 DEF Put
<1>3. DOMAIN s = DOMAIN l /\ DOMAIN t = DOMAIN k /\ t = [q \in DOMAIN k |-> t[q]]
  BY SeenIsFunction
<1>4. \A q \in DOMAIN l : t[q] = s[q]
  <2> SUFFICES ASSUME NEW q \in DOMAIN l PROVE t[q] = s[q]
    OBVIOUS
  <2>1. q \in DOMAIN k /\ k[q] = l[q]
    BY <1>2
  <2> QED BY <2>1, SeenSame
<1>5. t = [q \in DOMAIN s \union {p} |-> IF q = p THEN t[p] ELSE s[q]]
  <2>1. DOMAIN s \union {p} = DOMAIN k
    BY <1>2, <1>3
  <2>2. \A q \in DOMAIN k : t[q] = IF q = p THEN t[p] ELSE s[q]
    BY <1>2, <1>4
  <2> QED BY <2>1, <2>2, <1>3
<1>6. p \in DOMAIN k
  BY <1>2
<1>7. t[p].size = k[p].size /\ t[p].word = k[p].word /\ k[p].size \in Requests /\ k[p].word \in Words
  <2>1. t[p].size = k[p].size /\ t[p].word = k[p].word
    BY <1>6, SeenFields
  <2>2. k[p].size \in Requests /\ k[p].word \in Words
    BY <1>6 DEF Inv, Agrees, Entry
  <2> QED BY <2>1, <2>2
<1>8. Grant(p, t[p].size) /\ Disjoint(p, t[p].size, s, DOMAIN s)
  <2>1. PICK S : S = DOMAIN l
    OBVIOUS
  <2>2. S \subseteq DOMAIN l /\ S \subseteq DOMAIN k /\ p \notin S /\ \A q \in S : k[q] = l[q]
    BY <2>1, <1>1, <1>2
  <2>3. PICK n : n = k[p].size
    OBVIOUS
  <2>4. Grant(p, n) /\ Disjoint(p, n, s, S)
    BY <2>2, <2>3, <1>6, SeenGranted
  <2> QED BY <2>1, <2>3, <2>4, <1>3, <1>7
<1>9. p \in DOMAIN t \ DOMAIN s
  BY <1>1, <1>3, <1>6
<1> QED BY <1>5, <1>7, <1>8, <1>9 DEF SeenObtain

LEMMA LostSeen ==
  ASSUME NEW h, NEW l, NEW j, NEW k, Inv(h, l), Inv(j, k), Lost(l, k), NEW s, s = Seen(h, l), NEW t, t = Seen(j, k)
  PROVE  SeenFree(s, t)
<1>1. PICK p \in DOMAIN l : k = Forget(l, p)
  BY DEF Lost
<1>2. DOMAIN k = DOMAIN l \ {p} /\ \A q \in DOMAIN k : k[q] = l[q]
  BY <1>1 DEF Forget
<1>3. DOMAIN s = DOMAIN l /\ DOMAIN t = DOMAIN k /\ t = [q \in DOMAIN k |-> t[q]]
  BY SeenIsFunction
<1>4. \A q \in DOMAIN k : t[q] = s[q]
  <2> SUFFICES ASSUME NEW q \in DOMAIN k PROVE t[q] = s[q]
    OBVIOUS
  <2>1. q \in DOMAIN l /\ k[q] = l[q]
    BY <1>2
  <2> QED BY <2>1, SeenSame
<1>5. t = [q \in DOMAIN s \ {p} |-> s[q]]
  BY <1>2, <1>3, <1>4
<1> QED BY <1>3, <1>5 DEF SeenFree

LEMMA ResizedSeen ==
  ASSUME NEW h, NEW l, NEW j, NEW k, Inv(h, l), Inv(j, k), Resized(l, k), NEW s, s = Seen(h, l), NEW t, t = Seen(j, k)
  PROVE  SeenResize(s, t)
<1>1. PICK p, q, e :
        p \in DOMAIN l /\ q \notin DOMAIN l \ {p} /\ e.word = l[p].word /\ e.size \in Sizes /\ k = Put(Forget(l, p), q, e)
  BY DEF Resized
<1>2. PICK S : S = DOMAIN l \ {p}
  OBVIOUS
<1>3. DOMAIN k = S \union {q} /\ k[q] = e /\ \A r \in S : k[r] = l[r]
  <2>1. PICK o : o = Forget(l, p)
    OBVIOUS
  <2>2. DOMAIN o = S /\ \A r \in S : o[r] = l[r]
    BY <2>1, <1>2 DEF Forget
  <2>3. k = Put(o, q, e) /\ q \notin DOMAIN o
    BY <2>1, <2>2, <1>1, <1>2
  <2> QED BY <2>2, <2>3 DEF Put
<1>4. DOMAIN s = DOMAIN l /\ DOMAIN t = DOMAIN k /\ t = [r \in DOMAIN k |-> t[r]]
  BY SeenIsFunction
<1>5. \A r \in S : t[r] = s[r]
  <2> SUFFICES ASSUME NEW r \in S PROVE t[r] = s[r]
    OBVIOUS
  <2>1. r \in DOMAIN l /\ r \in DOMAIN k /\ k[r] = l[r]
    BY <1>2, <1>3
  <2> QED BY <2>1, SeenSame
<1>6. q \in DOMAIN k
  BY <1>3
<1>7. t[q] = [size |-> e.size, word |-> e.word]
  <2>1. t[q] = [size |-> k[q].size, word |-> k[q].word]
    BY <1>6, SeenFacts
  <2> QED BY <2>1, <1>3, Zenon
<1>8. s[p].word = l[p].word
  <2>1. s[p] = [size |-> l[p].size, word |-> l[p].word]
    BY <1>1, SeenFacts
  <2> QED BY <2>1
<1>9. t[q] = [size |-> t[q].size, word |-> s[p].word] /\ t[q].size = e.size
  <2>1. t[q].size = e.size
    BY <1>7
  <2>2. s[p].word = e.word
    BY <1>1, <1>8
  <2> QED BY <2>1, <2>2, <1>7, Zenon
<1>10. t = [r \in S \union {q} |-> IF r = q THEN [size |-> t[q].size, word |-> s[p].word] ELSE s[r]]
  <2>1. \A r \in S \union {q} : t[r] = IF r = q THEN [size |-> t[q].size, word |-> s[p].word] ELSE s[r]
    BY <1>5, <1>9, Zenon
  <2>2. t = [r \in S \union {q} |-> t[r]]
    BY <1>3, <1>4
  <2> QED BY <2>1, <2>2, Zenon
<1>11. Grant(q, t[q].size) /\ Disjoint(q, t[q].size, s, S)
  <2>1. S \subseteq DOMAIN l /\ S \subseteq DOMAIN k /\ q \notin S /\ \A r \in S : k[r] = l[r]
    BY <1>1, <1>2, <1>3
  <2>2. PICK n : n = k[q].size
    OBVIOUS
  <2>3. Grant(q, n) /\ Disjoint(q, n, s, S)
    BY <2>1, <2>2, <1>6, SeenGranted
  <2>4. n = t[q].size
    BY <2>2, <1>3, <1>9
  <2> QED BY <2>3, <2>4
<1>12. p \in DOMAIN s /\ q \in DOMAIN t /\ q \notin DOMAIN s \ {p} /\ t[q].size \in Sizes /\ S = DOMAIN s \ {p}
  BY <1>1, <1>2, <1>4, <1>6, <1>9
<1> QED BY <1>10, <1>11, <1>12, Zenon DEF SeenResize

\* Every call is an action of Allocator, or changes nothing that the program sees.
LEMMA StepSeen ==
  ASSUME HInv, HInv', Shape(live, live'), NEW s, s = Seen(heap, live), NEW t, t = Seen(heap', live')
  PROVE  SeenObtain(s, t) \/ SeenFree(s, t) \/ SeenResize(s, t) \/ t = s
<1>1. PICK h, l, j, k : h = heap /\ l = live /\ j = heap' /\ k = live'
  OBVIOUS
<1>2. Inv(h, l) /\ Inv(j, k) /\ Shape(l, k) /\ s = Seen(h, l) /\ t = Seen(j, k)
  BY <1>1 DEF HInv
<1>3. CASE Gained(l, k)
  BY <1>2, <1>3, GainedSeen
<1>4. CASE Lost(l, k)
  BY <1>2, <1>4, LostSeen
<1>5. CASE Resized(l, k)
  BY <1>2, <1>5, ResizedSeen
<1>6. CASE k = l
  <2>1. DOMAIN s = DOMAIN l /\ DOMAIN t = DOMAIN l /\ s = [q \in DOMAIN l |-> s[q]] /\ t = [q \in DOMAIN l |-> t[q]]
    BY <1>2, <1>6, SeenIsFunction
  <2>2. \A q \in DOMAIN l : t[q] = s[q]
    <3> SUFFICES ASSUME NEW q \in DOMAIN l PROVE t[q] = s[q]
      OBVIOUS
    <3>1. q \in DOMAIN k /\ k[q] = l[q]
      BY <1>6
    <3> QED BY <3>1, <1>2, SeenSame
  <2>3. t = s
    BY <2>1, <2>2
  <2> QED BY <2>3
<1> QED BY <1>2, <1>3, <1>4, <1>5, <1>6 DEF Shape

\* For any sizes, counts and breaks the heap does what Allocator promises: an allocation is
\* aligned and its bytes belong to no other one, and what the program wrote there stays
\* until it is freed, through every split, join and move of realloc.
THEOREM HeapKeepsPromises ==
  ASSUME NoWrap, Alignments = {}
  PROVE  Spec => KeepsPromises
<1>1. Init => Promise!Init
  <2> SUFFICES ASSUME Init PROVE Promise!Init
    OBVIOUS
  <2>1. live = <<>>
    BY DEF Init
  <2>2. DOMAIN live = {}
    BY <2>1
  <2> QED BY <2>2 DEF Promise!Init, Contents
<1>2. HInv /\ HInv' /\ Shape(live, live') => Promise!Next \/ UNCHANGED Contents
  <2> SUFFICES ASSUME HInv, HInv', Shape(live, live') PROVE Promise!Next \/ UNCHANGED Contents
    OBVIOUS
  <2>1. PICK s, t : s = Contents /\ t = Contents'
    OBVIOUS
  <2>2. SeenObtain(s, t) \/ SeenFree(s, t) \/ SeenResize(s, t) \/ t = s
    <3>1. s = Seen(heap, live) /\ t = Seen(heap', live')
      BY <2>1 DEF Contents, Seen, blk
    <3> QED BY <3>1, StepSeen
  <2>7. Promise!Requests = Requests
    BY DEF Promise!Requests, Requests
  <2>8. \A p, n : Grant(p, n) => Promise!Grant(p, n)
    BY DEF Grant, Promise!Grant
  <2>9. \A p, n, others : Disjoint(p, n, s, others) => Promise!Disjoint(p, n, others)
    <3>1. \A p, n : Promise!Bytes(p, n) = Bytes(p, n)
      BY DEF Promise!Bytes, Bytes, Nonzero
    <3> QED BY <2>1, <3>1, Zenon DEF Disjoint, Promise!Disjoint
  <2>3. CASE SeenObtain(s, t)
    <3>1. PICK p \in DOMAIN t \ DOMAIN s :
            /\ t[p].size \in Requests /\ t[p].word \in Words /\ Grant(p, t[p].size) /\ Disjoint(p, t[p].size, s, DOMAIN s)
            /\ t = [q \in DOMAIN s \union {p} |-> IF q = p THEN t[p] ELSE s[q]]
      BY <2>3 DEF SeenObtain
    <3>2. /\ t[p].size \in Promise!Requests /\ Promise!Grant(p, t[p].size) /\ Promise!Disjoint(p, t[p].size, DOMAIN s)
      BY <3>1, <2>7, <2>8, <2>9
    <3>3. Promise!Obtain
      BY <2>1, <3>1, <3>2, Zenon DEF Promise!Obtain
    <3> QED BY <3>3 DEF Promise!Next
  <2>4. CASE SeenFree(s, t)
    <3>1. Promise!Free
      BY <2>1, <2>4, Zenon DEF Promise!Free, SeenFree
    <3> QED BY <3>1 DEF Promise!Next
  <2>5. CASE SeenResize(s, t)
    <3>1. PICK p \in DOMAIN s, q \in DOMAIN t :
            /\ q \notin DOMAIN s \ {p} /\ t[q].size \in Sizes /\ Grant(q, t[q].size)
            /\ Disjoint(q, t[q].size, s, DOMAIN s \ {p})
            /\ t = [r \in (DOMAIN s \ {p}) \union {q} |->
                      IF r = q THEN [size |-> t[q].size, word |-> s[p].word] ELSE s[r]]
      BY <2>5 DEF SeenResize
    <3>2. Promise!Grant(q, t[q].size) /\ Promise!Disjoint(q, t[q].size, DOMAIN s \ {p})
      BY <3>1, <2>8, <2>9
    <3>3. PICK n, v : n = t[q].size /\ v = s[p].word
      OBVIOUS
    <3>4. PICK a : a = [size |-> n, word |-> v]
      OBVIOUS
    <3>5. a.size = n
      BY <3>4
    <3>6. a.size \in Sizes /\ Promise!Grant(q, a.size) /\ Promise!Disjoint(q, a.size, DOMAIN s \ {p})
      BY <3>1, <3>2, <3>3, <3>5
    <3>7. a = [size |-> t[q].size, word |-> s[p].word]
      BY <3>3, <3>4, Zenon
    <3>8. t = [r \in (DOMAIN s \ {p}) \union {q} |-> IF r = q THEN a ELSE s[r]] /\ q \notin DOMAIN s \ {p}
      BY <3>1, <3>7, Zenon
    <3>9. /\ p \in DOMAIN Contents /\ q \in DOMAIN Contents' /\ q \notin DOMAIN Contents \ {p}
          /\ a = [size |-> Contents'[q].size, word |-> Contents[p].word] /\ a.size \in Sizes
          /\ Promise!Grant(q, a.size) /\ Promise!Disjoint(q, a.size, DOMAIN Contents \ {p})
          /\ Contents' = [r \in (DOMAIN Contents \ {p}) \union {q} |-> IF r = q THEN a ELSE Contents[r]]
      BY <2>1, <3>6, <3>7, <3>8, Zenon
    <3>10. Promise!Resize
      <4>1. \E x \in DOMAIN Contents, y \in DOMAIN Contents' :
              LET others == DOMAIN Contents \ {x}
                  b == [size |-> Contents'[y].size, word |-> Contents[x].word]
              IN  /\ y \notin others /\ b.size \in Sizes
                  /\ Promise!Grant(y, b.size) /\ Promise!Disjoint(y, b.size, others)
                  /\ Contents' = [r \in others \union {y} |-> IF r = y THEN b ELSE Contents[r]]
        <5> p \in DOMAIN Contents /\ q \in DOMAIN Contents'
          BY <3>9
        <5> WITNESS p \in DOMAIN Contents, q \in DOMAIN Contents'
        <5> QED BY <3>9
      <4> QED BY <4>1, Zenon DEF Promise!Resize
    <3> QED BY <3>10 DEF Promise!Next
  <2>6. CASE t = s
    BY <2>1, <2>6
  <2> QED BY <2>2, <2>3, <2>4, <2>5, <2>6
<1>3. HInv /\ [Next]_vars => HInv' /\ Shape(live, live')
  BY HeapStep
<1>4. Spec => []HInv
  BY HeapInvariance
<1> QED BY <1>1, <1>2, <1>3, <1>4, PTL DEF Spec, KeepsPromises, Promise!Spec
=============================================================================

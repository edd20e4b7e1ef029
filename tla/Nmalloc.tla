------------------------------ MODULE Nmalloc --------------------------------
(***************************************************************************)
(* The heap: ansi/stdlib/nmalloc.c, nmalcdef.h and nmalign.c, with the     *)
(* build's SAVEMEMORY = 1.                                                 *)
(*                                                                         *)
(* The blocks of one sbrk area are linked by prev and next in the order of *)
(* their addresses; free ones are also on the list of their size's bucket; *)
(* what is left of the last area, lastsbrk, is on none.  The word after    *)
(* the header is prevfree in a free block and the program's first word in  *)
(* an allocated one, so it is one field here too.  An operator takes the   *)
(* heap and gives the heap the C function leaves behind.                   *)
(***************************************************************************)
EXTENDS Integers, FiniteSets

CONSTANTS ALIGN, DATAOFFSET, MINSBRK,
          W,          \* bits in a size_t
          MaxRequest, \* INT_MAX - 65536, scaled to W
          Base,       \* the first break
          MaxBrk,     \* the break at which sbrk fails
          Sizes,      \* arguments of malloc, realloc, memalign and calloc
          Counts,     \* first arguments of calloc
          Foreign,    \* arguments of the program's own calls of sbrk
          Alignments, \* arguments of memalign
          MaxLive     \* bound on the allocations outstanding

\* The powers of two, as far as the code needs them.
pow2[n \in 0..(W + 16)] == IF n = 0 THEN 1 ELSE 2 * pow2[n - 1]

ASSUME WidthAssumption == W \in Nat \ {0}
ASSUME LayoutAssumption ==
  /\ ALIGN \in Nat \ {0} /\ DATAOFFSET \in Nat \ {0, 1} /\ DATAOFFSET % ALIGN = 0 /\ MINSBRK \in Nat
  /\ MaxRequest \in 0..(pow2[W - 1] - 1)
\* The largest block is of less than half the address space: freehdrs has no list for more.
ASSUME BoundsAssumption ==
  /\ Base \in Nat \ {0} /\ MaxBrk \in Base..(pow2[W - 1] - 1) /\ MaxLive \in Nat
  /\ Sizes \subseteq 0..(pow2[W] - 1) /\ Foreign \subseteq Nat /\ Counts \subseteq Nat /\ Alignments \subseteq Nat

NULL == 0
NONE == -1                 \* ends a free list
JUNK == -2                 \* what memory happens to hold
Words == {-10 - i : i \in 1..MaxLive}   \* what the program writes to its allocations
MINSAVE == ALIGN + DATAOFFSET
NFLISTS == W

VARIABLES
  heap,   \* blk: the headers by address; freehdrs; brk, the end of the last sbrk;
          \* bad: "" until memory is found fouled or two headers overlap
  live    \* the program's view: what it has allocated, asked for and written

vars == <<heap, live>>

Init ==
  /\ heap = [blk |-> <<>>, freehdrs |-> [b \in 0..(NFLISTS - 1) |-> NULL], brk |-> Base, bad |-> ""]
  /\ live = <<>>

lastsbrk(h) == h.freehdrs[0]
ISFREE(h, m) == m \notin {NULL, NONE} /\ h.blk[m].nextfree # NULL /\ h.blk[m].prevfree # NULL
FOULED(h, m) == lastsbrk(h) = NULL \/ h.blk[m].nextfree # NULL
badcallabort(h, why) == [h EXCEPT !.bad = why]
Forget(blk, m) == [a \in DOMAIN blk \ {m} |-> blk[a]]
Put(f, a, e) == [x \in DOMAIN f \union {a} |-> IF x \in DOMAIN f THEN f[x] ELSE e]

-----------------------------------------------------------------------------
(* Sizes and lists. *)

\* The position of the highest bit set, counted from 1.
size2bucket(sz) == CHOOSE b \in 0..W : sz < pow2[b] /\ (b > 0 => pow2[b - 1] <= sz)

\* The block that holds sz bytes, computed in W bits.
roundup(sz) == ((((sz + ALIGN - 1) % pow2[W]) \div ALIGN) * ALIGN + DATAOFFSET) % pow2[W]

\* Mutant: takes the block for the only one of its list when it is the first.
extractfree_DropsList(h, m) ==
  LET b == size2bucket(h.blk[m].sz)
      n == h.blk[m].nextfree
      p == h.blk[m].prevfree
  IN  [h EXCEPT
        !.blk = [a \in DOMAIN @ |->
                   IF a = m THEN [@[a] EXCEPT !.nextfree = NULL, !.prevfree = NULL]
                   ELSE IF a = n THEN [@[a] EXCEPT !.prevfree = p]
                   ELSE IF a = p THEN [@[a] EXCEPT !.nextfree = n]
                   ELSE @[a]],
        !.freehdrs[b] = IF p = NONE THEN NULL ELSE @]

\* Unlinks a block from the middle of its list and marks it non-free.
extractfree(h, m) ==
  LET b == size2bucket(h.blk[m].sz)
      n == h.blk[m].nextfree
      p == h.blk[m].prevfree
  IN  [h EXCEPT
        !.blk = [a \in DOMAIN @ |->
                   IF a = m THEN [@[a] EXCEPT !.nextfree = NULL, !.prevfree = NULL]
                   ELSE IF a = n THEN [@[a] EXCEPT !.prevfree = p]
                   ELSE IF a = p THEN [@[a] EXCEPT !.nextfree = n]
                   ELSE @[a]],
        !.freehdrs[b] = IF p # NONE THEN @ ELSE IF n # NONE THEN n ELSE NULL]

\* m and its next become m; the lower block's link words are left alone.
Join(h, m) ==
  LET hi == h.blk[m].next
      after == h.blk[hi].next
      joined == [h.blk[m] EXCEPT !.next = after, !.sz = @ + h.blk[hi].sz]
      blk == [Forget(h.blk, hi) EXCEPT ![m] = joined]
  IN  [h EXCEPT !.blk = IF after # NULL THEN [blk EXCEPT ![after].prev = m] ELSE blk]

\* Gives the block that m is part of afterwards.
combinelo(h, m) ==
  LET lo == h.blk[m].prev
  IN  IF ~ISFREE(h, lo) THEN [h |-> h, m |-> m]
      ELSE IF h.blk[lo].next # m THEN [h |-> badcallabort(h, "fouled"), m |-> m]
      ELSE [h |-> Join(extractfree(h, lo), lo), m |-> lo]

combinehi(h, m) ==
  LET hi == h.blk[m].next
  IN  IF hi = NULL THEN h
      ELSE IF h.blk[hi].prev # m THEN badcallabort(h, "fouled")
      ELSE Join(IF hi # lastsbrk(h) THEN extractfree(h, hi) ELSE h, m)

JoinFreeAbove(h, m) == IF ISFREE(h, h.blk[m].next) THEN combinehi(h, m) ELSE h

PutOnList(h, m) ==
  LET b == size2bucket(h.blk[m].sz)
      head == h.freehdrs[b]
      linked == [h.blk EXCEPT ![m].nextfree = IF head # NULL THEN head ELSE NONE,
                              ![m].prevfree = NONE]
  IN  [h EXCEPT !.freehdrs[b] = m,
                !.blk = IF head # NULL THEN [linked EXCEPT ![head].prevfree = m] ELSE linked]

\* A block below lastsbrk becomes its lower end.
ToLastOrList(h, m) ==
  IF lastsbrk(h) # NULL /\ h.blk[m].next = lastsbrk(h)
  THEN [combinehi(h, m) EXCEPT !.freehdrs[0] = m, !.blk[m].nextfree = NULL,
                               !.blk[m].prevfree = NULL]
  ELSE PutOnList(h, m)

\* Joins m with a free block above it; then it becomes part of lastsbrk or is listed.
mv2freelist(h, m) == ToLastOrList(JoinFreeAbove(h, m), m)

\* Mutant: leaves the mark of a free block.
rmvfromfree_StaysMarked(h, m) ==
  LET b == size2bucket(h.blk[m].sz)
      n == h.blk[m].nextfree
  IN  [h EXCEPT !.freehdrs[b] = IF n = NONE THEN NULL ELSE n,
                !.blk = [a \in DOMAIN @ |->
                           IF a = n THEN [@[a] EXCEPT !.prevfree = NONE] ELSE @[a]]]

\* Takes the first block of its list; prevfree, now data, is left as it is.
rmvfromfree(h, m) ==
  LET b == size2bucket(h.blk[m].sz)
      n == h.blk[m].nextfree
  IN  IF m # h.freehdrs[b] THEN badcallabort(h, "fouled")
      ELSE [h EXCEPT !.freehdrs[b] = IF n = NONE THEN NULL ELSE n,
                     !.blk = [a \in DOMAIN @ |->
                                IF a = m THEN [@[a] EXCEPT !.nextfree = NULL]
                                ELSE IF a = n THEN [@[a] EXCEPT !.prevfree = NONE]
                                ELSE @[a]]]

\* Mutant: takes the first block of the bucket whatever its size.
searchfree_AnySize(h, szneed) ==
  LET b == size2bucket(szneed)
      up == {c \in b..(NFLISTS - 1) : h.freehdrs[c] # NULL}
  IN  IF up # {} THEN CHOOSE c \in up : \A d \in up : c <= d ELSE 0

\* The first bucket whose first block is certain to do; 0 when there is none.
searchfree(h, szneed) ==
  LET b == size2bucket(szneed)
      up == {c \in (b + 1)..(NFLISTS - 1) : h.freehdrs[c] # NULL}
  IN  IF h.freehdrs[b] # NULL /\ h.blk[h.freehdrs[b]].sz >= szneed THEN b
      ELSE IF up # {} THEN CHOOSE c \in up : \A d \in up : c <= d ELSE 0

\* Mutant: the lower part keeps its size.
__nmalloc_split_KeepsSize(h, m, sz) ==
  LET m1 == m + sz
      after == h.blk[m].next
      cut == Put([h.blk EXCEPT ![m].next = m1, ![m].nextfree = NULL],
                 m1, [h.blk[m] EXCEPT !.prev = m, !.sz = @ - sz, !.prevfree = JUNK])
  IN  [h EXCEPT !.blk = IF after # NULL THEN [cut EXCEPT ![after].prev = m1] ELSE cut]

\* Cuts m in two; the upper part, at m + sz, gets a copy of m's header.  A lower part
\* shorter than a header makes the two headers overlap.
__nmalloc_split(h, m, sz) ==
  LET m1 == m + sz
      after == h.blk[m].next
      cut == Put([h.blk EXCEPT ![m].next = m1, ![m].sz = sz, ![m].nextfree = NULL],
                 m1, [h.blk[m] EXCEPT !.prev = m, !.sz = @ - sz, !.prevfree = JUNK])
      split == [h EXCEPT !.blk = IF after # NULL THEN [cut EXCEPT ![after].prev = m1] ELSE cut]
  IN  IF h.blk[m].sz < sz + DATAOFFSET \/ (after # NULL /\ h.blk[after].prev # m)
      THEN badcallabort(split, "fouled")
      ELSE IF sz < DATAOFFSET THEN badcallabort(split, "overlap")
      ELSE split

\* Mutant: takes the data of what is left for its header.
SplitLast_PastHeader(h, sz) ==
  [__nmalloc_split(h, lastsbrk(h), sz) EXCEPT !.freehdrs[0] = @ + sz + DATAOFFSET]

\* lastsbrk gives up its first sz bytes.
SplitLast(h, sz) == [__nmalloc_split(h, lastsbrk(h), sz) EXCEPT !.freehdrs[0] = @ + sz]

\* Mutant: frees a rest that is a header and nothing else.
Trim_AnyRest(h, m, szneed) ==
  IF h.blk[m].sz - szneed >= DATAOFFSET
  THEN mv2freelist(__nmalloc_split(h, m, szneed), m + szneed)
  ELSE h

\* m keeps szneed bytes and the rest is freed when it is worth a block.
Trim(h, m, szneed) ==
  IF h.blk[m].sz - szneed >= MINSAVE
  THEN mv2freelist(__nmalloc_split(h, m, szneed), m + szneed)
  ELSE h

ToAligned(a) == (ALIGN - (a % ALIGN)) % ALIGN

\* sbrk continues the last area, or begins a new one: then the old lastsbrk goes to the
\* free lists.  m is NULL when sbrk fails.
extendsbrk(h, szneed) ==
  LET old == lastsbrk(h)
      expected == IF old # NULL THEN old + h.blk[old].sz ELSE NULL
      least == IF szneed + 2 * ALIGN + DATAOFFSET < MINSBRK THEN MINSBRK
               ELSE szneed + 2 * ALIGN + DATAOFFSET
      szxtra == least + ToAligned(expected)
      delta == ToAligned(h.brk)
      m == h.brk + delta
      new == [prev |-> NULL, next |-> NULL, sz |-> szxtra - delta, nextfree |-> NULL,
              prevfree |-> JUNK]
      got == [h EXCEPT !.brk = @ + szxtra]
  IN  IF h.brk + szxtra > MaxBrk THEN [h |-> h, m |-> NULL]
      ELSE IF h.brk = expected
           THEN [h |-> [got EXCEPT !.blk[old].sz = @ + szxtra], m |-> old]
      ELSE LET added == [got EXCEPT !.blk = Put(@, m, new)]
           IN  [h |-> [IF old # NULL THEN mv2freelist(added, old) ELSE added EXCEPT
                         !.freehdrs[0] = m],
                m |-> m]

-----------------------------------------------------------------------------
(* The functions the program calls.  m is NULL on failure. *)

Nonzero(size) == IF size = 0 THEN 1 ELSE size

TakeFromList(h, m1, szneed) == [h |-> Trim(rmvfromfree(h, m1), m1, szneed), m |-> m1]

\* x is what extendsbrk gave.
TakeFromSystem(x, szneed) ==
  IF x.m = NULL \/ x.h.blk[x.m].sz < szneed + MINSAVE THEN x
  ELSE [h |-> SplitLast(x.h, szneed), m |-> x.m]

\* Mutant: leaves no room for the header of what remains.
LastHolds_NoHeader(h, szneed) == lastsbrk(h) # NULL /\ h.blk[lastsbrk(h)].sz >= szneed

LastHolds(h, szneed) == lastsbrk(h) # NULL /\ h.blk[lastsbrk(h)].sz >= szneed + DATAOFFSET

nmalloc(h, size) ==
  LET szneed == roundup(Nonzero(size))
      b == searchfree(h, szneed)
  IN  IF szneed >= MaxRequest THEN [h |-> h, m |-> NULL]
      ELSE IF b # 0 THEN TakeFromList(h, h.freehdrs[b], szneed)
      ELSE IF LastHolds(h, szneed)
           THEN [h |-> SplitLast(h, szneed), m |-> lastsbrk(h)]
      ELSE TakeFromSystem(extendsbrk(h, szneed), szneed)

MarkFree(h, m) == [h EXCEPT !.blk[m].nextfree = NONE, !.blk[m].prevfree = NONE]

\* r is the block after it was joined with the one below.
FreeJoined(r) ==
  IF lastsbrk(r.h) # NULL /\ lastsbrk(r.h) = r.h.blk[r.m].prev THEN r.h
  ELSE mv2freelist(r.h, r.m)

\* Mutant: does not look at the block below.
dofree_KeepsLower(h, m) == mv2freelist(JoinFreeAbove(MarkFree(h, m), m), m)

dofree(h, m) == FreeJoined(combinelo(JoinFreeAbove(MarkFree(h, m), m), m))

nfree(h, m) == IF ISFREE(h, m) \/ FOULED(h, m) THEN badcallabort(h, "fouled") ELSE dofree(h, m)

\* Mutant: frees the old block, which overwrites its first word, before it copies.
CopyAndFree_FreesFirst(h, to, from) ==
  [h |-> [dofree(h, from) EXCEPT !.blk[to].prevfree = NONE], m |-> to]

\* memcpy(PTR(to), PTR(from), ...), then the old block is freed.
CopyAndFree(h, to, from) ==
  [h |-> dofree([h EXCEPT !.blk[to].prevfree = h.blk[from].prevfree], from), m |-> to]

\* Grows a block into lastsbrk, which lies above it.
GrowIntoLast(h, m, szneed) ==
  [h |-> [__nmalloc_split(combinehi(h, m), m, szneed) EXCEPT !.freehdrs[0] = m + szneed],
   m |-> m]

\* Grows a block into the free one below it, moving the data down.
GrowDown(h, m, szneed) ==
  LET lo == h.blk[m].prev
      joined == Join(extractfree(h, lo), lo)
  IN  [h |-> Trim([joined EXCEPT !.blk[lo].prevfree = h.blk[m].prevfree], lo, szneed), m |-> lo]

ReallocFromSystem(x, m, szneed) ==
  IF x.m = NULL THEN x
  ELSE IF lastsbrk(x.h) = x.h.blk[m].next THEN GrowIntoLast(x.h, m, szneed)
  ELSE CopyAndFree(SplitLast(x.h, szneed), lastsbrk(x.h), m)

nrealloc(h, m, size) ==
  LET szneed == roundup(Nonzero(size))
      sz == h.blk[m].sz
      hi == h.blk[m].next
      lo == h.blk[m].prev
      b == searchfree(h, szneed)
      last == lastsbrk(h)
  IN  IF ISFREE(h, m) \/ FOULED(h, m) THEN [h |-> badcallabort(h, "fouled"), m |-> NULL]
      ELSE IF szneed <= sz THEN [h |-> Trim(h, m, szneed), m |-> m]
      ELSE IF szneed > MaxRequest THEN [h |-> h, m |-> NULL]
      ELSE IF ISFREE(h, hi) /\ szneed <= sz + h.blk[hi].sz
           THEN [h |-> Trim(combinehi(h, m), m, szneed), m |-> m]
      ELSE IF last = hi /\ szneed + MINSAVE <= sz + h.blk[last].sz
           THEN GrowIntoLast(h, m, szneed)
      ELSE IF ISFREE(h, lo) /\ szneed <= sz + h.blk[lo].sz THEN GrowDown(h, m, szneed)
      ELSE IF b # 0
           THEN CopyAndFree(TakeFromList(h, h.freehdrs[b], szneed).h, h.freehdrs[b], m)
      ELSE IF last # NULL /\ szneed + MINSAVE <= h.blk[last].sz
           THEN CopyAndFree(SplitLast(h, szneed), last, m)
      ELSE ReallocFromSystem(extendsbrk(h, szneed), m, szneed)

\* r is the block got for alignment; what lies below the aligned address is cut off and
\* freed.
CutBelow(r, m1, size) ==
  IF r.h.bad # "" THEN r ELSE nrealloc(nfree(r.h, r.m), m1, size)

AlignIn(got, alignment, size) ==
  LET misalign == (got.m + DATAOFFSET) % alignment
      m1 == got.m + alignment - misalign
  IN  IF got.m = NULL THEN got
      ELSE IF misalign = 0 THEN nrealloc(got.h, got.m, size)
      ELSE CutBelow([h |-> __nmalloc_split(got.h, got.m, alignment - misalign), m |-> got.m],
                    m1, size)

\* Mutant: compares the alignment the wrong way round and ignores it.
nmemalign_Ignores(h, alignment, size) ==
  LET szneed == roundup(Nonzero(size))
  IN  IF alignment >= ALIGN THEN nmalloc(h, szneed)
      ELSE AlignIn(nmalloc(h, (szneed + alignment + 3 * ALIGN) % pow2[W]), alignment, size)

\* Asks for enough to align in, and gives the rest back through free and realloc.
nmemalign(h, alignment, size) ==
  LET szneed == roundup(Nonzero(size))
  IN  IF size >= MaxRequest \/ alignment \notin {pow2[k] : k \in 0..16}
      THEN [h |-> h, m |-> NULL]
      ELSE IF alignment <= ALIGN THEN nmalloc(h, szneed)
      ELSE AlignIn(nmalloc(h, (szneed + alignment + 3 * ALIGN) % pow2[W]), alignment, size)

\* The product is checked against overflow before it is formed.
ncalloc(h, n, size) ==
  IF n = 0 \/ (pow2[W] - 1) \div n > size THEN nmalloc(h, (n * size) % pow2[W]) ELSE [h |-> h, m |-> NULL]

-----------------------------------------------------------------------------
(* The program. *)

PTR(m) == m + DATAOFFSET
MEMBLKp(p) == p - DATAOFFSET

\* The next state of the heap; once memory is fouled the program is over.
Becomes(h) == heap' = IF h.bad = "" THEN h ELSE [heap EXCEPT !.bad = h.bad]

\* What the program does with a result: it writes a word of its own there.
Obtain(r, size, alignment) ==
  LET v == CHOOSE w \in Words : \A p \in DOMAIN live : live[p].word # w
  IN  IF r.h.bad # "" \/ r.m = NULL THEN Becomes(r.h) /\ UNCHANGED live
      ELSE /\ Becomes([r.h EXCEPT !.blk[r.m].prevfree = v])
           /\ live' = Put(live, PTR(r.m), [size |-> size, word |-> v, align |-> alignment])

CanObtain == heap.bad = "" /\ Cardinality(DOMAIN live) < MaxLive

malloc == CanObtain /\ \E size \in Sizes : Obtain(nmalloc(heap, size), size, ALIGN)

calloc == CanObtain /\ \E n \in Counts, size \in Sizes : Obtain(ncalloc(heap, n, size), n * size, ALIGN)

memalign ==
  CanObtain /\ \E a \in Alignments, size \in Sizes : Obtain(nmemalign(heap, a, size), size, a)

free ==
  /\ heap.bad = ""
  /\ \E p \in DOMAIN live :
       /\ Becomes(nfree(heap, MEMBLKp(p)))
       /\ live' = Forget(live, p)

\* On failure the old block stays allocated.
Resize(r, p, size) ==
  /\ Becomes(r.h)
  /\ IF r.h.bad # "" \/ r.m = NULL THEN UNCHANGED live
     ELSE live' = Put(Forget(live, p), PTR(r.m), [size |-> size, word |-> live[p].word, align |-> ALIGN])

realloc ==
  /\ heap.bad = ""
  /\ \E p \in DOMAIN live, size \in Sizes : Resize(nrealloc(heap, MEMBLKp(p), size), p, size)

\* The program moves the break itself, so that the next area does not continue the last.
sbrk ==
  /\ heap.bad = ""
  /\ \E n \in Foreign : heap.brk + n <= MaxBrk /\ heap' = [heap EXCEPT !.brk = @ + n]
  /\ UNCHANGED live

Next == malloc \/ calloc \/ memalign \/ free \/ realloc \/ sbrk

Spec == Init /\ [][Next]_vars

-----------------------------------------------------------------------------
(* Properties. *)

blk == heap.blk
Free == {m \in DOMAIN blk : ISFREE(heap, m)}
Allocated == {MEMBLKp(p) : p \in DOMAIN live}

\* Every address, link and list head is one that a block of the heap has.
TypeOK ==
  /\ heap.brk \in Base..MaxBrk /\ heap.bad \in {"", "fouled", "overlap"}
  /\ \A m \in DOMAIN blk :
       /\ m \in Base..MaxBrk /\ blk[m].sz \in Nat
       /\ {blk[m].prev, blk[m].next} \subseteq DOMAIN blk \union {NULL}
       /\ blk[m].nextfree \in DOMAIN blk \union {NULL, NONE}
       /\ blk[m].prevfree \in DOMAIN blk \union {NULL, NONE, JUNK} \union Words
  /\ \A b \in 0..(NFLISTS - 1) : heap.freehdrs[b] \in DOMAIN blk \union {NULL}

\* No sequence of calls makes one of the functions find memory fouled and abort, or
\* write a header over another.
NeverFouled == heap.bad = ""

\* next and prev agree with each other and with the sizes, so that the blocks of an area
\* cover it without gap or overlap, whatever was split and joined.
BlocksTile ==
  \A m \in DOMAIN blk :
    /\ blk[m].next # NULL => blk[m].next = m + blk[m].sz /\ blk[blk[m].next].prev = m
    /\ blk[m].prev # NULL => blk[blk[m].prev].next = m
    /\ \A n \in DOMAIN blk : n > m => n >= m + blk[m].sz
    /\ m + blk[m].sz <= heap.brk

\* Every block is allocated, free or lastsbrk, and only one of them: nothing is leaked
\* and nothing is handed out twice.
NothingIsLost ==
  LET last == {lastsbrk(heap)} \ {NULL}
  IN  /\ DOMAIN blk = Allocated \union Free \union last
      /\ Allocated \intersect Free = {} /\ last \intersect (Allocated \union Free) = {}

\* A list holds the free blocks of its bucket, linked both ways; a block is found from
\* its size, so one on the wrong list would corrupt another's head.
ListsHoldTheirSizes ==
  /\ \A m \in Free :
       LET b == size2bucket(blk[m].sz)
           n == blk[m].nextfree
           p == blk[m].prevfree
       IN  /\ IF p = NONE THEN heap.freehdrs[b] = m ELSE p \in Free /\ blk[p].nextfree = m
           /\ n # NONE => n \in Free /\ blk[n].prevfree = m /\ size2bucket(blk[n].sz) = b
  /\ \A b \in 2..(NFLISTS - 1) :
       heap.freehdrs[b] # NULL =>
         heap.freehdrs[b] \in Free /\ size2bucket(blk[heap.freehdrs[b]].sz) = b

\* Free blocks are joined with their neighbours at once.
Coalesced ==
  \A m \in Free : blk[m].next \notin Free /\ (blk[m].next # NULL => blk[m].next # lastsbrk(heap))

\* nmalcdef.h: prevfree lies behind the header, so a free block without data would keep
\* it in memory that is not its own.
FreeBlocksHoldTheirLinks == \A m \in Free : blk[m].sz >= MINSAVE

\* An allocation has the room that was asked for.
EnoughRoom == \A p \in DOMAIN live : blk[MEMBLKp(p)].sz >= live[p].size + DATAOFFSET

\* An allocation is aligned as it was asked to be, until realloc moves it.
Aligned == \A p \in DOMAIN live : p % live[p].align = 0

\* The heap is consistent after every call, whatever was split, joined, cut off and
\* refused before it: the parts above hold together.
HeapOK ==
  /\ TypeOK /\ NeverFouled /\ BlocksTile /\ NothingIsLost /\ ListsHoldTheirSizes
  /\ Coalesced /\ FreeBlocksHoldTheirLinks /\ EnoughRoom /\ Aligned

\* The allocations, with the contents that are in memory.
Contents == [p \in DOMAIN live |-> [size |-> live[p].size, word |-> blk[MEMBLKp(p)].prevfree]]

\* The allocator the program sees.
Promise == INSTANCE Allocator WITH live <- Contents

\* The heap implements Allocator: a pointer is aligned, disjoint from all others, and its
\* contents survive every call, realloc included, until it is freed.
KeepsPromises == Promise!Spec

=============================================================================

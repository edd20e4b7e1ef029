-------------------------------- MODULE Sbrk ---------------------------------
(***************************************************************************)
(* The break of the program (crt0/crt0.S, __sbrk, __brk and the end of     *)
(* __exit), the table of the memory blocks behind it, and the functions    *)
(* that look a block up by address (crt0/memhandl.c) to change its pages   *)
(* (dpmi/helper/setattr.c and mapmem.c, compat/mman/mprotect.c).           *)
(*                                                                         *)
(* Addresses are offsets from the base of the data segment, modulo W, in   *)
(* units of a page: W stands for 4 GB and Gran for 64 KB.  The DPMI host   *)
(* puts a block anywhere; one below the base has an offset near W.         *)
(* Locking, near pointers and the limit's low bits are left out; the race  *)
(* between the last DPMI call and a signal is in Exceptn.                  *)
(***************************************************************************)
EXTENDS Integers, Sequences, FiniteSets, FiniteSetsExt

CONSTANTS W, Gran,
          PerClass,   \* slots after which the blocks double (32)
          Slots,      \* the slot at which the table ends (255)
          Initial,    \* size of the stub's block
          End,        \* end of the program in it
          Base,       \* linear address of the stub's block
          Places,     \* offsets at which the host puts blocks
          MaxBlocks,  \* blocks the host gives in all
          Grows, Shrinks, \* amounts by which sbrk moves the break up and down
          Breaks,     \* arguments of brk
          LeftInECX,  \* what a caller of brk may leave in ECX when brk has to allocate
          SemiOK      \* does the program give back more than it got?

ASSUME SpaceAssumption ==
  /\ {W, Gran, PerClass, Slots, Initial, End, Base, MaxBlocks} \subseteq Nat \ {0} /\ Slots > 1
  /\ W % 2 = 0 /\ W % Gran = 0 /\ Base < W /\ End <= Initial /\ Initial <= W \div 2
  /\ Places \subseteq 1..(W - 1) /\ Breaks \subseteq 1..(W - 1) /\ LeftInECX \subseteq 0..(W - 1)
  /\ Grows \subseteq 0..(W \div 2 - 1) /\ Shrinks \subseteq 1..(W \div 2) /\ SemiOK \in BOOLEAN

\* The size of a block is a number for every slot.
ASSUME ClassAssumption == \A k \in 0..Slots : Gran * 2^k \in Nat \ {0}

VARIABLES
  app,     \* __what_size_app_thinks_it_is
  dpmi,    \* __what_size_dpmi_thinks_we_are
  old,     \* __what_we_return_to_app_as_old_size
  limit,   \* __djgpp_selector_limit
  seg,     \* the limit of the code and data segments
  table,   \* __djgpp_memory_handle_list and __djgpp_memory_handle_size
  ptr,     \* __djgpp_memory_handle_pointer
  unixy,   \* _CRT0_FLAG_UNIX_SBRK
  nowrap,  \* _CRT0_DISABLE_SBRK_ADDRESS_WRAP
  blocks,  \* the blocks the host gave, by handle
  pc, call, \* the step and the arguments of a call in progress
  held,    \* the memory the program took
  last     \* what the last step gave the program (took), and what it filled

vars == <<app, dpmi, old, limit, seg, table, ptr, unixy, nowrap, blocks, pc, call, held, last>>

Empty == [handle |-> 0, address |-> 0, size |-> 0]
Stub == [handle |-> 1, address |-> 0, size |-> Initial]
Nothing == [took |-> {}, filled |-> {}]
Units(from, n) == {(from + i) % W : i \in 0..(n - 1)}
Of(b) == Units(b.address, b.size)
RoundUp(n, g) == (((n + g - 1) % W) \div g) * g

\* Start-up, after the stub.
Init ==
  /\ app = End /\ dpmi = Initial /\ old = 0 /\ limit = 0 /\ seg = Initial - 1
  /\ table = [i \in 0..Slots |-> IF i = 0 THEN Stub ELSE Empty] /\ ptr = 1
  /\ unixy \in BOOLEAN /\ nowrap \in BOOLEAN
  /\ blocks = {Stub}
  /\ pc = "run" /\ call = [by |-> "sbrk", ecx |-> 0, to |-> 0]
  /\ held = Units(0, End) /\ last = Nothing

-----------------------------------------------------------------------------
(* The DPMI host. *)

\* A block lies in the linear address space, apart from the others.
Fits(at, size) ==
  /\ at + size <= W /\ ~(at < W - Base /\ at + size > W - Base)
  /\ Units(at, size) \intersect UNION {Of(b) : b \in blocks} = {}

NewBlock(at, size) == [handle |-> 1 + Max({b.handle : b \in blocks}), address |-> at, size |-> size]

\* Function 501h answers.
Gives(at, size) == size > 0 /\ Cardinality(blocks) < MaxBlocks /\ Fits(at, size)

-----------------------------------------------------------------------------
(* sbrk and brk.  The program waits in "alloc" or "resize" for the host. *)

\* What the caller takes to be its own when the call returns r.
Taken(r) == IF call.by = "sbrk" THEN Units(r, call.ecx) ELSE old..(call.to - 1)

brk_common(new, ecx, carry, by, took) ==
  /\ old' = app /\ app' = new
  /\ IF ~carry /\ new <= dpmi
     THEN /\ last' = [Nothing EXCEPT !.took = took]
          /\ held' = IF took # {} THEN held \union took ELSE held \ (new..(app - 1))
          /\ UNCHANGED <<pc, call>>
     ELSE /\ pc' = IF unixy /\ ~carry THEN "resize" ELSE "alloc"
          /\ call' = [by |-> by, ecx |-> ecx, to |-> new]
          /\ last' = Nothing /\ UNCHANGED held
  /\ UNCHANGED <<dpmi, limit, seg, table, ptr, unixy, nowrap, blocks>>

\* A program gives back memory it got.
GivesBack(new) == new < app => SemiOK \/ new..(app - 1) \subseteq held

\* Does the sum pass the end of the address space?  Mutant: it is not noticed.
Carry_Never(n) == FALSE
Carry(n) == n > 0 /\ app + n >= W

__sbrk(n) ==
  /\ pc = "run" /\ (n < 0 => GivesBack(app + n))
  /\ brk_common((app + n) % W, n % W, Carry(n), "sbrk", Units(app, n))

\* brk sets no increment: what is allocated is what happens to be in ECX.
__brk(to) ==
  /\ pc = "run" /\ GivesBack(to)
  /\ \E ecx \in IF to <= dpmi \/ unixy THEN {0} ELSE LeftInECX : brk_common(to, ecx, FALSE, "brk", app..(to - 1))

brk_error ==
  /\ pc \in {"alloc", "resize"} /\ pc' = "run" /\ app' = old
  /\ UNCHANGED <<dpmi, old, limit, seg, table, ptr, unixy, nowrap, blocks, call, held, last>>

\* The block at the base becomes larger; it may move, which no offset shows.
Resize ==
  LET size == RoundUp(app, Gran)
  IN  /\ pc = "resize" /\ size > 0 /\ size <= W \div 2
      /\ blocks' = {IF b.handle = table[0].handle THEN [b EXCEPT !.size = size] ELSE b : b \in blocks}
      /\ table' = [table EXCEPT ![0].size = size]
      /\ limit' = size - 1 /\ seg' = size - 1 /\ dpmi' = size
      /\ held' = held \union Taken(old) /\ last' = [took |-> Taken(old), filled |-> Units(dpmi, size - dpmi)]
      /\ pc' = "run" /\ UNCHANGED <<app, old, ptr, unixy, nowrap, call>>

BlockSize(n) == RoundUp(n, Gran * 2^(ptr \div PerClass))

\* A block whose address less the base is negative.
Wraps(at) == at >= W \div 2
Discarded(at) == nowrap /\ Wraps(at)

Discard(at) ==
  /\ pc = "alloc" /\ Discarded(at) /\ Gives(at, BlockSize(call.ecx))
  /\ blocks' = blocks \union {NewBlock(at, BlockSize(call.ecx))}
  /\ UNCHANGED <<app, dpmi, old, limit, seg, table, ptr, unixy, nowrap, pc, call, held, last>>

\* Where the caller's memory begins.
Result(at) == IF at = dpmi THEN old ELSE at

\* The break after it.  Mutant: the amount is not added.
NewBreak_NoAmount(r) == r
NewBreak(r) == (r + call.ecx) % W

\* The slot after this one, if there is one.  Mutant: the end is not
\* tested for.
NextSlot_NoEnd == ptr + 1
NextSlot == IF ptr + 1 = Slots THEN ptr ELSE ptr + 1

\* The limit only grows.  Mutant: it follows every block.
NewLimit_Follows(end) == end
NewLimit(end) == IF end <= limit THEN limit ELSE end

\* From dpmi, which is the beginning of the new block, to its end.
\* Mutant: to the limit of the segment.
Filled_ToLimit(at, end) == Units(at, (NewLimit(end) + 1 - at) % W)
Filled(at, end) == Units(at, (end + 1 - at) % W)

Allocate(at) ==
  LET size == BlockSize(call.ecx)
      b == NewBlock(at, size)
      end == at + size - 1
      r == Result(at)
  IN  /\ pc = "alloc" /\ ~Discarded(at) /\ Gives(at, size)
      /\ blocks' = blocks \union {b}
      /\ table' = [table EXCEPT ![ptr] = b] /\ ptr' = NextSlot
      /\ limit' = NewLimit(end) /\ seg' = IF NewLimit(end) # limit THEN NewLimit(end) ELSE seg
      /\ dpmi' = (end + 1) % W
      /\ old' = r /\ app' = NewBreak(r)
      /\ held' = held \union Taken(r) /\ last' = [took |-> Taken(r), filled |-> Filled(at, end)]
      /\ pc' = "run" /\ UNCHANGED <<unixy, nowrap, call>>

-----------------------------------------------------------------------------
(* The end of the program. *)

\* The slots freed, from the pointer down.  Mutant: the first one is forgotten.
FreedSlots_NotFirst == {0} \union 2..(ptr - 1)
FreedSlots == {0} \union 1..(ptr - 1)

__exit ==
  /\ pc = "run" /\ pc' = "gone"
  /\ blocks' = {b \in blocks : \A i \in FreedSlots : table[i].handle # b.handle}
  /\ held' = {} /\ last' = Nothing
  /\ UNCHANGED <<app, dpmi, old, limit, seg, table, ptr, unixy, nowrap, call>>

Next ==
  \/ \E n \in Grows \union {-k : k \in Shrinks} : __sbrk(n)
  \/ \E to \in Breaks : __brk(to)
  \/ \E at \in Places : Allocate(at) \/ Discard(at)
  \/ Resize \/ brk_error \/ __exit

Spec == Init /\ [][Next]_vars

-----------------------------------------------------------------------------
(* Looking up blocks. *)

\* The slots searched end before the first one without an address.
Searched == {i \in 1..Slots : \A j \in 1..i : table[j].address # 0}

\* Mutant: the first slot that begins below the address.
__djgpp_memory_handle_First(address) ==
  LET below == {i \in Searched : address >= table[i].address}
  IN  IF below = {} THEN 0 ELSE Min(below)
__djgpp_memory_handle(address) ==
  LET below == {i \in Searched : address >= table[i].address}
  IN  IF below = {} THEN 0 ELSE CHOOSE i \in below : \A j \in below : table[j].address <= table[i].address

\* The first page above p that is not changed with p: from the end of the range down, the
\* first that has the block of p.  Mutant: the whole rest of the range, as in mprotect.
HandleEnd_All(p, end) == end
HandleEnd(p, end) ==
  1 + Max({p} \union {q \in (p + 1)..(end - 1) :
             table[__djgpp_memory_handle(q)].handle = table[__djgpp_memory_handle(p)].handle})

\* The requests to the host for the pages p to end - 1.
__djgpp_set_page_attributes(p, end) ==
  LET Request(q) == LET d == table[__djgpp_memory_handle(q)]
                    IN  [handle |-> d.handle, address |-> q - d.address, size |-> HandleEnd(q, end) - q]
      From[q \in p..end] == IF q = end THEN <<>> ELSE <<Request(q)>> \o From[HandleEnd(q, end)]
  IN  From[p]

-----------------------------------------------------------------------------
(* Properties. *)

Entry == [handle : 0..MaxBlocks, address : 0..(W - 1), size : 0..W]

\* The type of the state; the last slot of the table stays empty, which ends the searches.
TypeOK ==
  /\ {app, dpmi, old} \subseteq 0..(W - 1) /\ limit \in 0..(W - 1) /\ seg \in 0..(W - 1)
  /\ table \in [0..Slots -> Entry] /\ table[Slots] = Empty /\ ptr \in 1..(Slots - 1)
  /\ unixy \in BOOLEAN /\ nowrap \in BOOLEAN /\ blocks \subseteq Entry
  /\ pc \in {"run", "alloc", "resize", "gone"}
  /\ call \in [by : {"sbrk", "brk"}, ecx : 0..(W - 1), to : 0..(W - 1)]
  /\ held \subseteq 0..(W - 1) /\ last \in [took : SUBSET (0..(W - 1)), filled : SUBSET (0..(W - 1))]

\* The table has an entry for every block: none was stored over another.
Full == Cardinality({b \in blocks : b.address # 0 /\ ~Discarded(b.address)}) > Slots - 1

\* All the program got from sbrk and brk lies in blocks the host gave and below the limit
\* of its segments, whatever blocks came in between: lower ones, such that wrap around the
\* base, and failed calls.
HeldIsOwned == held \subseteq UNION {Of(b) : b \in blocks} /\ \A u \in held : u <= seg

\* sbrk hands out memory that nobody has: after a call that returned an address the memory
\* there was not held before it.
FreshMemory == [][last'.took \intersect held = {}]_vars

\* Filling new memory changes none that the program holds, and reaches past no block.
FillsOnlyNewMemory ==
  [][last'.filled \intersect held = {} /\ last'.filled \subseteq UNION {Of(b) : b \in blocks'}]_vars

\* __djgpp_memory_handle finds the block of every address the program holds, until the table
\* is full.
HandleIsFound ==
  ~Full => \A u \in held : LET d == table[__djgpp_memory_handle(u)] IN d \in blocks /\ u \in Of(d)

\* The table ends with an empty slot and leads from every address to its block.
TableOK == TypeOK /\ HandleIsFound

\* Setting the attributes of pages, or mapping a device to them, asks for each page once, in
\* the block it lies in, for every range of pages the program holds.
RangesAreSplit ==
  ~Full => \A p \in held : \A end \in (p + 1)..W :
    p..(end - 1) \subseteq held =>
      LET rs == __djgpp_set_page_attributes(p, end)
          InBlock(r) == \E b \in blocks : r.handle = b.handle /\ r.address >= 0 /\ r.address + r.size <= b.size
          Pages(r) == UNION {Units(b.address + r.address, r.size) : b \in {c \in blocks : c.handle = r.handle}}
      IN  /\ \A i \in 1..Len(rs) : InBlock(rs[i])
          /\ UNION {Pages(rs[i]) : i \in 1..Len(rs)} = p..(end - 1)
          /\ \A i, j \in 1..Len(rs) : i # j => Pages(rs[i]) \intersect Pages(rs[j]) = {}

\* __exit returns all blocks to the host but those it discarded itself, until the last slot
\* of the table is used.
ExitFreesTheBlocks ==
  pc = "gone" /\ table[Slots - 1] = Empty => \A b \in blocks : Discarded(b.address)
==============================================================================

----------------------------- MODULE SbrkProofs ------------------------------
(* Proofs about Sbrk, for any address space, table, places and amounts. *)
EXTENDS Sbrk, TLAPS, FiniteSetTheorems, Lemmas

-----------------------------------------------------------------------------
(* The inductive invariant, while the program is not gone. *)

\* Blocks lie in the address space and apart from one another.
BlocksApart ==
  /\ \A b \in blocks : b.size > 0 /\ b.address + b.size <= W
  /\ \A b \in blocks, c \in blocks : b # c => Of(b) \intersect Of(c) = {}

\* The host numbers the blocks from 1.
HandlesCount ==
  /\ IsFiniteSet(blocks) /\ blocks # {}
  /\ {b.handle : b \in blocks} = 1..Cardinality(blocks)

\* Slot 0 is the block at the base, and no other is there.
StubIsFirst ==
  /\ table[0] \in blocks /\ table[0].address = 0 /\ table[0].size >= Initial
  /\ \A b \in blocks : b.address = 0 => b = table[0]

\* The blocks sbrk kept, in the table in the order they came, until it is full.
Listed == {b \in blocks : b.address # 0 /\ ~Discarded(b.address)}
TableFollows ==
  LET n == Cardinality(Listed)
  IN  /\ n < Slots => /\ ptr = (IF n + 1 = Slots THEN n ELSE n + 1)
                      /\ Listed = {table[i] : i \in 1..n}
                      /\ \A i \in 1..Slots : i > n => table[i] = Empty
      /\ n >= Slots => ptr = Slots - 1 /\ table[Slots - 1] \in Listed

\* What belongs to the program is below the limit.
Mine == UNION {Of(b) : b \in Listed \union {table[0]}}
LimitCovers ==
  /\ \A u \in Mine : u <= seg
  /\ seg = limit \/ (limit = 0 /\ Listed = {})

\* The break, or the one a failing call returns to.
Break == IF pc = "run" THEN app ELSE old

\* What lies between the break and the end of the last block belongs to the program, and
\* it does not hold it.  A block that ends with the address space leaves nothing there.
RestIsFree ==
  /\ held \subseteq Mine
  /\ Break <= dpmi \/ dpmi = 0
  /\ Break..(dpmi - 1) \subseteq Mine \ held

\* With the Unix flag there is one block.
UnixHasOneBlock ==
  /\ unixy => /\ blocks = {table[0]} /\ pc # "alloc"
              /\ dpmi = table[0].size /\ dpmi <= W \div 2 /\ Break <= dpmi
  /\ ~unixy => pc # "resize"

\* A call that waits for the host has handed out nothing, and knows how much it wants.
CallWaits ==
  /\ pc \in {"alloc", "resize"} => last = Nothing
  /\ pc = "alloc" => call.by = "sbrk"
  /\ pc = "resize" => app = call.to /\ app > dpmi /\ (call.by = "sbrk" => old + call.ecx = app)

Working ==
  /\ BlocksApart /\ HandlesCount /\ StubIsFirst /\ TableFollows /\ LimitCovers
  /\ RestIsFree /\ UnixHasOneBlock /\ CallWaits

IInv ==
  /\ TypeOK
  /\ pc # "gone" => Working
  /\ pc = "gone" => held = {} /\ ExitFreesTheBlocks
-----------------------------------------------------------------------------
(* Arithmetic and the operators of the model. *)

\* The constants, one by one.
LEMMA Consts ==
  /\ W \in Nat /\ W > 0 /\ Gran \in Nat /\ Gran > 0 /\ PerClass \in Nat /\ PerClass > 0
  /\ Slots \in Nat /\ Slots > 1 /\ Initial \in Nat /\ Initial > 0 /\ End \in Nat /\ End > 0
  /\ Base \in Nat /\ Base < W /\ MaxBlocks \in Nat /\ MaxBlocks > 0 /\ End <= Initial
  /\ Places \subseteq 1..(W - 1) /\ Breaks \subseteq 1..(W - 1)
  /\ Grows \subseteq 0..(W \div 2 - 1) /\ Shrinks \subseteq 1..(W \div 2)
BY SpaceAssumption

\* The half of the address space.
LEMMA Half == W \div 2 \in Nat /\ W \div 2 + W \div 2 = W /\ Initial <= W \div 2
BY SpaceAssumption

\* What % does to numbers near the address space.
LEMMA ModBelow == ASSUME NEW x \in 0..(W - 1) PROVE x % W = x
BY Consts
\* The remainder of a number that has passed the width once, ...
LEMMA ModOnce == ASSUME NEW x \in W..(2 * W - 1) PROVE x % W = x - W
BY Consts
\* ... of one that went below 0, ...
LEMMA ModUnder == ASSUME NEW x \in (-W)..(-1) PROVE x % W = x + W
BY Consts
\* ... and of any is a word.
LEMMA ModType == ASSUME NEW x \in Int PROVE x % W \in 0..(W - 1)
BY Consts

\* Division rounds down.
LEMMA DivFacts ==
  ASSUME NEW x \in Nat, NEW g \in Nat \ {0}
  PROVE  x \div g \in Nat /\ (x \div g) * g <= x /\ x < (x \div g) * g + g
OBVIOUS
\* The quotient of a number below the divisor is 0, ...
LEMMA DivSmall == ASSUME NEW x \in Nat, NEW g \in Nat \ {0}, x < g PROVE x \div g = 0
OBVIOUS
\* ... and none exceeds its dividend.
LEMMA DivBelow == ASSUME NEW x \in Nat, NEW g \in Nat \ {0} PROVE x \div g \in 0..x
OBVIOUS

\* The units of a range that ends in the address space.
LEMMA UnitsInterval ==
  ASSUME NEW from \in 0..(W - 1), NEW n \in Int, from + n <= W
  PROVE  Units(from, n) = from..(from + n - 1)
<1>1. ASSUME NEW i \in 0..(n - 1) PROVE (from + i) % W = from + i
  BY Consts, ModBelow
<1>2. Units(from, n) \subseteq from..(from + n - 1)
  <2> SUFFICES ASSUME NEW i \in 0..(n - 1) PROVE (from + i) % W \in from..(from + n - 1)
    BY DEF Units
  <2> QED BY <1>1, Consts
<1>3. ASSUME NEW u \in from..(from + n - 1) PROVE u \in Units(from, n)
  <2> DEFINE i == u - from
  <2>1. i \in 0..(n - 1) /\ from + i = u
    BY Consts
  <2>2. (from + i) % W = u
    BY <1>1, <2>1
  <2> HIDE DEF i
  <2> QED BY <2>1, <2>2 DEF Units
<1> QED BY <1>2, <1>3

\* Units are addresses.
LEMMA UnitsType == ASSUME NEW from \in Int, NEW n \in Int PROVE Units(from, n) \subseteq 0..(W - 1)
BY ModType DEF Units

\* A block has the addresses from its own on.
LEMMA OfBlock ==
  ASSUME NEW b \in Entry, b.size > 0, b.address + b.size <= W
  PROVE  Of(b) = b.address..(b.address + b.size - 1) /\ b.address \in Of(b)
<1>1. b.address \in 0..(W - 1) /\ b.size \in Int
  BY Consts DEF Entry
<1>2. Of(b) = b.address..(b.address + b.size - 1)
  BY <1>1, UnitsInterval DEF Of
<1> QED BY <1>1, <1>2, Consts

\* Rounding up makes a number larger, or 0 when the sum passes the address space.
LEMMA RoundUpFacts ==
  ASSUME NEW n \in 0..(W - 1), NEW g \in Nat \ {0}
  PROVE  RoundUp(n, g) \in 0..(W - 1) /\ (RoundUp(n, g) = 0 \/ RoundUp(n, g) >= n)
<1> DEFINE x == (n + g - 1) % W
<1>1. x \in 0..(W - 1)
  BY ModType, Consts
<1>2. x \div g \in Nat /\ (x \div g) * g <= x /\ x < (x \div g) * g + g
  BY <1>1, DivFacts, Consts
<1>3. RoundUp(n, g) = (x \div g) * g
  BY DEF RoundUp
<1>4. (x \div g) * g \in Nat
  BY <1>2
<1>5. CASE n + g - 1 < W
  <2>1. x = n + g - 1
    BY <1>5, ModBelow, Consts
  <2> QED BY <2>1, <1>1, <1>2, <1>3, <1>4, Consts
<1>6. CASE n + g - 1 >= W
  <2>1. x < g
    <3>1. CASE g > W
      BY <3>1, <1>1, Consts
    <3>2. CASE g <= W
      <4>1. x = n + g - 1 - W
        BY <1>6, <3>2, ModOnce, Consts
      <4> QED BY <4>1, Consts
    <3> QED BY <3>1, <3>2, Consts
  <2>2. x \div g = 0
    BY <2>1, <1>1, DivSmall, Consts
  <2> QED BY <2>2, <1>3, Consts
<1> QED BY <1>5, <1>6, Consts

\* The same of the size of a new block.
LEMMA BlockSizeFacts ==
  ASSUME NEW n \in 0..(W - 1), ptr \in 1..(Slots - 1)
  PROVE  BlockSize(n) \in 0..(W - 1) /\ (BlockSize(n) = 0 \/ BlockSize(n) >= n)
<1>1. ptr \div PerClass \in 0..Slots
  BY DivBelow, Consts
<1>2. Gran * 2^(ptr \div PerClass) \in Nat \ {0}
  BY <1>1, ClassAssumption
<1> QED BY <1>2, RoundUpFacts DEF BlockSize

\* The greatest of the first numbers.
LEMMA MaxOfCount == ASSUME NEW c \in Nat \ {0} PROVE Max(1..c) = c
<1>1. c \in 1..c /\ \A y \in 1..c : c >= y
  OBVIOUS
<1>2. \A x \in 1..c : (\A y \in 1..c : x >= y) => x = c
  BY <1>1
<1> QED BY <1>1, <1>2 DEF Max
-----------------------------------------------------------------------------
(* The start, and the steps that ask the host for nothing. *)

\* What a step hands out and fills is not held; what it fills belongs to a block.
Fresh ==
  /\ last'.took \intersect held = {}
  /\ last'.filled \intersect held = {} /\ last'.filled \subseteq UNION {Of(b) : b \in blocks'}

\* The types, variable by variable.
LEMMA Types ==
  ASSUME TypeOK
  PROVE  /\ app \in 0..(W - 1) /\ dpmi \in 0..(W - 1) /\ old \in 0..(W - 1)
         /\ limit \in 0..(W - 1) /\ seg \in 0..(W - 1)
         /\ table \in [0..Slots -> Entry] /\ table[Slots] = Empty /\ ptr \in 1..(Slots - 1)
         /\ unixy \in BOOLEAN /\ nowrap \in BOOLEAN /\ blocks \subseteq Entry
         /\ call \in [by : {"sbrk", "brk"}, ecx : 0..(W - 1), to : 0..(W - 1)]
         /\ held \subseteq 0..(W - 1)
         /\ last \in [took : SUBSET (0..(W - 1)), filled : SUBSET (0..(W - 1))]
BY DEF TypeOK

\* The table has a slot 0.
LEMMA SlotZero == ASSUME TypeOK PROVE table[0] \in Entry
BY Types, Consts

\* Nothing was taken and nothing filled.
LEMMA NothingType == Nothing \in [took : SUBSET (0..(W - 1)), filled : SUBSET (0..(W - 1))]
BY DEF Nothing

\* The program starts in the stub's block.
LEMMA InitIInv == Init => IInv
<1> SUFFICES ASSUME Init PROVE IInv
  OBVIOUS
<1> USE Consts
<1>1. Stub \in Entry /\ Empty \in Entry
  <2>1. Initial \in 0..W
    BY Half
  <2> QED BY <2>1 DEF Stub, Empty, Entry
<1>2. Of(Stub) = 0..(Initial - 1)
  <2>1. Stub.size > 0 /\ Stub.address = 0 /\ Stub.size = Initial /\ Stub.address + Stub.size <= W
    BY Half DEF Stub
  <2> QED BY <2>1, <1>1, OfBlock
<1>3. Units(0, End) = 0..(End - 1)
  BY UnitsInterval, Half
<1>4. table[0] = Stub /\ \A i \in 1..Slots : table[i] = Empty
  BY DEF Init
<1>5. TypeOK
  <2>1. app \in 0..(W - 1) /\ dpmi \in 0..(W - 1) /\ old \in 0..(W - 1) /\ limit \in 0..(W - 1) /\ seg \in 0..(W - 1)
    BY Half DEF Init
  <2>2. table \in [0..Slots -> Entry] /\ table[Slots] = Empty /\ ptr \in 1..(Slots - 1)
    BY <1>1, <1>4 DEF Init
  <2>3. call \in [by : {"sbrk", "brk"}, ecx : 0..(W - 1), to : 0..(W - 1)]
    BY DEF Init
  <2>4. held \subseteq 0..(W - 1)
    BY <1>3, Half DEF Init
  <2>5. unixy \in BOOLEAN /\ nowrap \in BOOLEAN /\ blocks \subseteq Entry /\ pc \in {"run", "alloc", "resize", "gone"}
    BY <1>1 DEF Init
  <2> QED BY <2>1, <2>2, <2>3, <2>4, <2>5, NothingType DEF TypeOK, Init
<1>6. blocks = {Stub} /\ Stub.address = 0 /\ Stub.size = Initial /\ Stub.handle = 1
  BY DEF Init, Stub
<1>7. Listed = {} /\ Cardinality(Listed) = 0
  BY <1>6, FS_EmptySet DEF Listed
<1>8. BlocksApart
  BY <1>6, Half DEF BlocksApart
<1>9. HandlesCount
  <2>1. IsFiniteSet(blocks) /\ Cardinality(blocks) = 1
    BY <1>6, FS_Singleton
  <2>2. {b.handle : b \in blocks} = {1}
    BY <1>6
  <2> QED BY <2>1, <2>2, <1>6 DEF HandlesCount
<1>10. StubIsFirst
  BY <1>4, <1>6 DEF StubIsFirst
<1>11. TableFollows
  <2>1. ptr = 1
    BY DEF Init
  <2>2. {table[i] : i \in 1..0} = {}
    OBVIOUS
  <2> QED BY <1>4, <1>7, <2>1, <2>2 DEF TableFollows
<1>12. Mine = 0..(Initial - 1)
  BY <1>2, <1>4, <1>7 DEF Mine
<1>13. LimitCovers
  BY <1>7, <1>12 DEF LimitCovers, Init
<1>14. RestIsFree
  BY <1>3, <1>12 DEF RestIsFree, Break, Init
<1>15. UnixHasOneBlock
  BY <1>4, <1>6, Half DEF UnixHasOneBlock, Break, Init
<1>16. CallWaits
  BY DEF CallWaits, Init
<1> QED BY <1>5, <1>8, <1>9, <1>10, <1>11, <1>13, <1>14, <1>15, <1>16 DEF IInv, Working, Init

\* The blocks, the table and the limit as a whole.
Shape == BlocksApart /\ HandlesCount /\ StubIsFirst /\ TableFollows /\ LimitCovers

\* They stay what they are while no block comes or goes.
LEMMA SameShape ==
  ASSUME Shape, UNCHANGED <<blocks, table, ptr, nowrap, limit, seg>>
  PROVE  Shape' /\ Listed' = Listed /\ Mine' = Mine
<1>1. Listed' = Listed
  BY DEF Listed, Discarded
<1>2. Mine' = Mine
  BY <1>1 DEF Mine
<1>3. BlocksApart' /\ HandlesCount' /\ StubIsFirst'
  BY DEF Shape, BlocksApart, HandlesCount, StubIsFirst
<1>4. TableFollows'
  BY <1>1 DEF Shape, TableFollows
<1>5. LimitCovers'
  BY <1>1, <1>2 DEF Shape, LimitCovers
<1> QED BY <1>1, <1>2, <1>3, <1>4, <1>5 DEF Shape

\* Moving the break, within the memory that is there or to wait for more.
LEMMA CommonStep ==
  ASSUME IInv, pc = "run", NEW new \in 0..(W - 1), NEW ecx \in 0..(W - 1), NEW carry \in BOOLEAN,
         NEW by \in {"sbrk", "brk"}, NEW took,
         ~carry /\ new >= app => took = app..(new - 1),
         ~carry /\ new < app => took = {} /\ new..(app - 1) \subseteq held,
         unixy => ~carry /\ (new > dpmi /\ by = "sbrk" => app + ecx = new),
         ~unixy /\ (carry \/ new > dpmi) => by = "sbrk",
         brk_common(new, ecx, carry, by, took)
  PROVE  IInv' /\ Fresh
<1> USE Consts
<1>1. Working /\ TypeOK
  BY DEF IInv
<1>2. UNCHANGED <<blocks, table, ptr, nowrap, unixy, limit, seg, dpmi>> /\ old' = app /\ app' = new
  BY DEF brk_common
<1>3. Shape' /\ Listed' = Listed /\ Mine' = Mine
  BY <1>1, <1>2, SameShape DEF Working, Shape
<1>4. CASE ~carry /\ new <= dpmi
  <2>1. /\ last' = [Nothing EXCEPT !.took = took] /\ UNCHANGED <<pc, call>>
        /\ held' = IF took # {} THEN held \union took ELSE held \ (new..(app - 1))
    BY <1>4 DEF brk_common
  <2>2. last'.took = took /\ last'.filled = {} /\ last' = [took |-> took, filled |-> {}]
    BY <2>1 DEF Nothing
  <2>3. RestIsFree /\ app..(dpmi - 1) \subseteq Mine \ held /\ held \subseteq Mine
    BY <1>1 DEF Working, RestIsFree, Break
  <2>4. /\ held' \subseteq 0..(W - 1) /\ held' \subseteq Mine /\ took \subseteq 0..(W - 1)
        /\ new..(dpmi - 1) \subseteq Mine \ held' /\ took \intersect held = {}
    <3>1. CASE new >= app
      <4>1. took = app..(new - 1)
        BY <1>4, <3>1
      <4>2. held' = held \union took
        <5>1. CASE took = {}
          <6>1. new = app
            BY <4>1, <5>1, <3>1, <1>1, Types
          <6>2. new..(app - 1) = {}
            BY <6>1, <1>1, Types
          <6>3. held' = held \ (new..(app - 1))
            BY <2>1, <5>1
          <6> QED BY <5>1, <6>2, <6>3
        <5> QED BY <5>1, <2>1
      <4>3. took \subseteq app..(dpmi - 1) /\ took \subseteq 0..(W - 1)
        BY <4>1, <1>4, <1>1, Types
      <4>4. (new..(dpmi - 1)) \intersect took = {} /\ new..(dpmi - 1) \subseteq app..(dpmi - 1)
        BY <4>1, <3>1, <1>1, Types
      <4> QED BY <4>2, <4>3, <4>4, <2>3, <1>1, Types
    <3>2. CASE new < app
      <4>1. took = {} /\ new..(app - 1) \subseteq held
        BY <1>4, <3>2
      <4>2. held' = held \ (new..(app - 1))
        BY <4>1, <2>1
      <4>3. \A u \in new..(dpmi - 1) : u \in new..(app - 1) \/ u \in app..(dpmi - 1)
        BY <1>1, Types
      <4> QED BY <4>1, <4>2, <4>3, <2>3, <1>1, Types
    <3> QED BY <3>1, <3>2, <1>1, Types
  <2>5. TypeOK'
    <3>1. last' \in [took : SUBSET (0..(W - 1)), filled : SUBSET (0..(W - 1))]
      BY <2>2, <2>4
    <3> QED BY <3>1, <1>1, <1>2, <2>1, <2>4, Types DEF TypeOK
  <2>6. RestIsFree' /\ UnixHasOneBlock' /\ CallWaits'
    <3>1. Break' = new
      BY <2>1, <1>2 DEF Break
    <3>2. RestIsFree'
      BY <3>1, <2>4, <1>2, <1>3, <1>4 DEF RestIsFree
    <3>3. UnixHasOneBlock'
      BY <3>1, <1>1, <1>2, <1>3, <1>4, <2>1 DEF UnixHasOneBlock, Working
    <3> QED BY <3>2, <3>3, <2>1 DEF CallWaits
  <2>7. Fresh
    BY <2>2, <2>4 DEF Fresh
  <2> QED BY <2>1, <2>5, <2>6, <2>7, <1>3 DEF IInv, Working, Shape
<1>5. CASE ~(~carry /\ new <= dpmi)
  <2>1. /\ pc' = (IF unixy /\ ~carry THEN "resize" ELSE "alloc") /\ call' = [by |-> by, ecx |-> ecx, to |-> new]
        /\ last' = Nothing /\ UNCHANGED held
    BY <1>5 DEF brk_common
  <2>2. pc' = IF unixy THEN "resize" ELSE "alloc"
    BY <2>1
  <2>3. TypeOK'
    <3>1. call' \in [by : {"sbrk", "brk"}, ecx : 0..(W - 1), to : 0..(W - 1)]
      BY <2>1
    <3> QED BY <3>1, <1>1, <1>2, <2>1, <2>2, NothingType, Types DEF TypeOK
  <2>4. Break' = Break
    BY <2>2, <1>2 DEF Break
  <2>5. RestIsFree'
    BY <2>1, <2>4, <1>1, <1>2, <1>3 DEF RestIsFree, Working
  <2>6. UnixHasOneBlock'
    BY <2>2, <2>4, <1>1, <1>2, <1>3 DEF UnixHasOneBlock, Working
  <2>7. CallWaits'
    <3>1. unixy => new > dpmi
      BY <1>5, <1>1, Types
    <3>2. call'.by = by /\ call'.ecx = ecx /\ call'.to = new
      BY <2>1
    <3> QED BY <3>1, <3>2, <2>1, <2>2, <1>2, <1>5, <1>1, Types DEF CallWaits
  <2>8. Fresh
    BY <2>1 DEF Fresh, Nothing
  <2> QED BY <2>2, <2>3, <2>5, <2>6, <2>7, <2>8, <1>3 DEF IInv, Working, Shape
<1> QED BY <1>4, <1>5
-----------------------------------------------------------------------------
(* The calls of sbrk and brk, and their failure. *)

\* sbrk moves the break by n.
LEMMA SbrkStep ==
  ASSUME ~SemiOK, IInv, NEW n \in Grows \union {-k : k \in Shrinks}, __sbrk(n)
  PROVE  IInv' /\ Fresh
<1> USE Consts
<1> DEFINE new == (app + n) % W
           ecx == n % W
           took == Units(app, n)
<1>1. TypeOK /\ Working /\ pc = "run" /\ app \in 0..(W - 1) /\ dpmi \in 0..(W - 1) /\ held \subseteq 0..(W - 1)
  BY Types DEF IInv, __sbrk
<1>2. n \in Int /\ n <= W \div 2 - 1 /\ n >= -(W \div 2)
  BY Half
<1>3. new \in 0..(W - 1) /\ ecx \in 0..(W - 1)
  BY <1>1, <1>2, ModType
<1>4. unixy => dpmi <= W \div 2 /\ app <= dpmi
  BY <1>1 DEF Working, UnixHasOneBlock, Break
<1>5. Carry(n) \in BOOLEAN /\ (unixy => ~Carry(n))
  BY <1>1, <1>2, <1>4, Half DEF Carry
<1>6. CASE n >= 0
  <2>1. ecx = n
    BY <1>2, <1>6, ModBelow, Half
  <2>2. ~Carry(n) => new = app + n /\ took = app..(new - 1)
    <3> SUFFICES ASSUME ~Carry(n) PROVE new = app + n /\ took = app..(new - 1)
      OBVIOUS
    <3>1. app + n \in 0..(W - 1)
      BY <1>1, <1>2, <1>6 DEF Carry
    <3>2. new = app + n
      BY <3>1, ModBelow
    <3>3. took = app..(app + n - 1)
      BY <3>1, <1>1, <1>2, UnitsInterval
    <3> HIDE DEF new, took
    <3> QED BY <3>2, <3>3, <1>1, <1>2
  <2>3. ~Carry(n) => ~(new < app)
    BY <2>2, <1>1, <1>2, <1>6
  <2> HIDE DEF new, ecx, took
  <2>4. brk_common(new, ecx, Carry(n), "sbrk", took)
    BY DEF __sbrk, new, ecx, took
  <2> QED BY <2>1, <2>2, <2>3, <2>4, <1>1, <1>3, <1>5, CommonStep
<1>7. CASE n < 0
  <2>1. app + n < app /\ (app + n)..(app - 1) \subseteq held
    BY <1>1, <1>2, <1>7 DEF __sbrk, GivesBack
  <2>2. app + n \in (app + n)..(app - 1)
    BY <1>1, <1>2, <1>7
  <2>3. app + n \in 0..(W - 1)
    BY <2>1, <2>2, <1>1
  <2>4. new = app + n
    BY <2>3, ModBelow
  <2>5. took = {}
    BY <1>2, <1>7 DEF Units
  <2>6. ~Carry(n)
    BY <1>2, <1>7 DEF Carry
  <2>7. unixy => ~(new > dpmi)
    BY <2>1, <2>4, <1>1, <1>2, <1>4
  <2>8. new < app /\ new..(app - 1) \subseteq held
    BY <2>1, <2>4
  <2> HIDE DEF new, ecx, took
  <2>9. brk_common(new, ecx, Carry(n), "sbrk", took)
    BY DEF __sbrk, new, ecx, took
  <2>10. ~(new >= app)
    BY <2>8, <1>1, <1>3
  <2> QED BY <2>5, <2>6, <2>7, <2>8, <2>9, <2>10, <1>1, <1>3, <1>5, CommonStep
<1> QED BY <1>2, <1>6, <1>7

\* brk moves the break to an address.
LEMMA BrkStep ==
  ASSUME LeftInECX = {}, ~SemiOK, IInv, NEW to \in Breaks, __brk(to)
  PROVE  IInv' /\ Fresh
<1> USE Consts
<1>1. TypeOK /\ Working /\ pc = "run" /\ app \in 0..(W - 1) /\ dpmi \in 0..(W - 1)
  BY Types DEF IInv, __brk
<1>2. to \in 0..(W - 1)
  OBVIOUS
<1>3. PICK ecx \in (IF to <= dpmi \/ unixy THEN {0} ELSE LeftInECX) :
        brk_common(to, ecx, FALSE, "brk", app..(to - 1))
  BY DEF __brk
<1>4. (to <= dpmi \/ unixy) /\ ecx \in 0..(W - 1)
  BY <1>3
<1>5. to < app => app..(to - 1) = {} /\ to..(app - 1) \subseteq held
  BY <1>1, <1>2 DEF __brk, GivesBack
<1>6. ~unixy => ~(to > dpmi)
  BY <1>4, <1>1, <1>2
<1> DEFINE took == app..(to - 1)
<1>7. took = app..(to - 1)
  OBVIOUS
<1> HIDE DEF took
<1> QED BY <1>1, <1>2, <1>3, <1>4, <1>5, <1>6, <1>7, CommonStep

\* A call that fails puts the break back.
LEMMA ErrorStep == ASSUME IInv, brk_error PROVE IInv' /\ Fresh
<1> USE Consts
<1>1. TypeOK /\ Working /\ pc \in {"alloc", "resize"} /\ last = Nothing
  BY DEF IInv, brk_error, Working, CallWaits
<1>2. /\ UNCHANGED <<dpmi, old, limit, seg, table, ptr, unixy, nowrap, blocks, call, held, last>>
      /\ app' = old /\ pc' = "run"
  BY DEF brk_error
<1>3. Shape' /\ Listed' = Listed /\ Mine' = Mine
  BY <1>1, <1>2, SameShape DEF Working, Shape
<1>4. TypeOK'
  BY <1>1, <1>2, Types DEF TypeOK
<1>5. Break' = Break
  BY <1>1, <1>2 DEF Break
<1>6. RestIsFree'
  BY <1>1, <1>2, <1>3, <1>5 DEF RestIsFree, Working
<1>7. UnixHasOneBlock'
  BY <1>1, <1>2, <1>3, <1>5 DEF UnixHasOneBlock, Working
<1>8. CallWaits'
  BY <1>2 DEF CallWaits
<1>9. Fresh
  BY <1>1, <1>2 DEF Fresh, Nothing
<1> QED BY <1>2, <1>3, <1>4, <1>6, <1>7, <1>8, <1>9 DEF IInv, Working, Shape

\* The block at the base becomes larger.
LEMMA ResizeStep == ASSUME IInv, Resize PROVE IInv' /\ Fresh
<1> USE Consts
<1> DEFINE size == RoundUp(app, Gran)
           stub == table[0]
           b == [table[0] EXCEPT !.size = size]
<1>1. TypeOK /\ Working /\ pc = "resize" /\ app \in 0..(W - 1) /\ dpmi \in 0..(W - 1) /\ old \in 0..(W - 1)
  BY Types DEF IInv, Resize
<1>2. unixy /\ blocks = {stub} /\ dpmi = stub.size /\ old <= dpmi
  BY <1>1 DEF Working, UnixHasOneBlock, Break, TypeOK
<1>3. app = call.to /\ app > dpmi /\ (call.by = "sbrk" => old + call.ecx = app) /\ last = Nothing
  BY <1>1 DEF Working, CallWaits
<1>4. size > 0 /\ size <= W \div 2 /\ size >= app /\ size \in 0..(W - 1)
  BY <1>1, RoundUpFacts DEF Resize
<1>5. stub \in Entry /\ stub.address = 0 /\ stub.size \in 0..W /\ stub.size >= Initial
  BY <1>1, SlotZero DEF Working, StubIsFirst, Entry
<1>6. b \in Entry /\ b.size = size /\ b.address = 0 /\ b.handle = stub.handle
  BY <1>4, <1>5 DEF Entry
<1> HIDE DEF b
<1>7. Of(b) = 0..(size - 1) /\ Of(stub) = 0..(dpmi - 1)
  <2>1. Of(b) = b.address..(b.address + b.size - 1)
    BY <1>4, <1>6, OfBlock
  <2>2. Of(stub) = stub.address..(stub.address + stub.size - 1)
    BY <1>1, <1>2, <1>5, OfBlock
  <2> QED BY <2>1, <2>2, <1>1, <1>2, <1>4, <1>5, <1>6
<1>8. blocks' = {b}
  <2>1. blocks' = {IF c.handle = table[0].handle THEN [c EXCEPT !.size = size] ELSE c : c \in blocks}
    BY DEF Resize
  <2> QED BY <2>1, <1>2 DEF b
<1>9. table' = [table EXCEPT ![0] = b]
  <2>1. table' = [table EXCEPT ![0].size = size]
    BY DEF Resize
  <2> QED BY <2>1, <1>1, Types DEF b
<1>10. table'[0] = b /\ \A i \in 1..Slots : table'[i] = table[i]
  BY <1>9, <1>1, Types
<1>11. /\ limit' = size - 1 /\ seg' = size - 1 /\ dpmi' = size /\ pc' = "run"
       /\ UNCHANGED <<app, old, ptr, unixy, nowrap, call>>
       /\ held' = held \union Taken(old)
       /\ last' = [took |-> Taken(old), filled |-> Units(dpmi, size - dpmi)]
  BY DEF Resize
<1>12. Taken(old) = old..(app - 1)
  <2>1. CASE call.by = "sbrk"
    <3>1. call.ecx \in Int /\ old + call.ecx = app /\ old + call.ecx <= W
      BY <2>1, <1>1, <1>3, Types
    <3>2. Units(old, call.ecx) = old..(old + call.ecx - 1)
      BY <3>1, <1>1, UnitsInterval
    <3>3. Units(old, call.ecx) = old..(app - 1)
      BY <3>1, <3>2, <1>1
    <3> QED BY <3>3, <2>1 DEF Taken
  <2> QED BY <2>1, <1>3 DEF Taken
<1>13. Units(dpmi, size - dpmi) = dpmi..(size - 1)
  <2>1. dpmi + (size - dpmi) <= W /\ dpmi + (size - dpmi) - 1 = size - 1 /\ size - dpmi \in Int
    BY <1>1, <1>4, Half
  <2> QED BY <2>1, <1>1, UnitsInterval
<1> HIDE DEF size
<1>14. Listed = {} /\ Listed' = {}
  BY <1>2, <1>5, <1>6, <1>8 DEF Listed
<1>15. Mine = 0..(dpmi - 1) /\ Mine' = 0..(size - 1)
  BY <1>7, <1>10, <1>14 DEF Mine
<1>16. held \subseteq Mine /\ (old..(dpmi - 1)) \intersect held = {}
  BY <1>1 DEF Working, RestIsFree, Break
<1>17. TypeOK'
  <2>1. table' \in [0..Slots -> Entry] /\ table'[Slots] = Empty
    BY <1>1, <1>6, <1>9, <1>10, Types
  <2>2. limit' \in 0..(W - 1) /\ seg' \in 0..(W - 1) /\ dpmi' \in 0..(W - 1)
    BY <1>4, <1>11
  <2>3. held' \subseteq 0..(W - 1)
    BY <1>1, <1>11, <1>12, Types
  <2>4. last' \in [took : SUBSET (0..(W - 1)), filled : SUBSET (0..(W - 1))]
    <3>1. old..(app - 1) \subseteq 0..(W - 1) /\ dpmi..(size - 1) \subseteq 0..(W - 1)
      BY <1>1, <1>4
    <3> QED BY <3>1, <1>11, <1>12, <1>13
  <2>5. blocks' \subseteq Entry
    BY <1>6, <1>8
  <2> QED BY <2>1, <2>2, <2>3, <2>4, <2>5, <1>1, <1>11, Types DEF TypeOK
<1>18. BlocksApart' /\ StubIsFirst'
  <2>1. BlocksApart'
    BY <1>4, <1>6, <1>8 DEF BlocksApart
  <2>2. StubIsFirst'
    BY <1>1, <1>2, <1>3, <1>4, <1>5, <1>6, <1>8, <1>10 DEF StubIsFirst
  <2> QED BY <2>1, <2>2
<1>19. HandlesCount'
  <2>1. IsFiniteSet(blocks') /\ Cardinality(blocks') = 1 /\ Cardinality(blocks) = 1
    BY <1>2, <1>8, FS_Singleton
  <2>2. {c.handle : c \in blocks'} = {c.handle : c \in blocks}
    BY <1>2, <1>6, <1>8
  <2> QED BY <2>1, <2>2, <1>1, <1>8 DEF HandlesCount, Working
<1>20. TableFollows'
  <2>1. Cardinality(Listed) = 0 /\ Cardinality(Listed') = 0
    BY <1>14, FS_EmptySet
  <2>2. {table'[i] : i \in 1..0} = {}
    OBVIOUS
  <2>3. TableFollows
    BY <1>1 DEF Working
  <2> QED BY <2>1, <2>2, <2>3, <1>10, <1>11, <1>14 DEF TableFollows
<1>21. LimitCovers'
  BY <1>4, <1>11, <1>15 DEF LimitCovers
<1>22. RestIsFree'
  <2>1. Break' = app
    BY <1>11 DEF Break
  <2>2. held' \subseteq Mine'
    <3>1. 0..(dpmi - 1) \subseteq 0..(size - 1) /\ old..(app - 1) \subseteq 0..(size - 1)
      BY <1>1, <1>3, <1>4
    <3> QED BY <3>1, <1>11, <1>12, <1>15, <1>16
  <2>3. app..(size - 1) \subseteq Mine' \ held'
    BY <1>1, <1>3, <1>4, <1>11, <1>12, <1>15, <1>16
  <2> QED BY <2>1, <2>2, <2>3, <1>1, <1>4, <1>11 DEF RestIsFree
<1>23. UnixHasOneBlock'
  BY <1>2, <1>4, <1>6, <1>8, <1>10, <1>11 DEF UnixHasOneBlock, Break
<1>24. CallWaits'
  BY <1>11 DEF CallWaits
<1>25. Fresh
  <2>1. last'.took = old..(app - 1) /\ last'.filled = dpmi..(size - 1)
    BY <1>11, <1>12, <1>13
  <2>2. (old..(app - 1)) \intersect held = {} /\ (dpmi..(size - 1)) \intersect held = {}
    BY <1>1, <1>3, <1>15, <1>16
  <2>3. dpmi..(size - 1) \subseteq UNION {Of(c) : c \in blocks'}
    BY <1>1, <1>7, <1>8
  <2> QED BY <2>1, <2>2, <2>3 DEF Fresh
<1> QED BY <1>11, <1>17, <1>18, <1>19, <1>20, <1>21, <1>22, <1>23, <1>24, <1>25 DEF IInv, Working
-----------------------------------------------------------------------------
(* The host gives a block. *)

\* A new block has a number of its own, is large enough, and lies apart from the others.
LEMMA NewBlockFacts ==
  ASSUME IInv, pc = "alloc", NEW at \in Places, NEW size, size = BlockSize(call.ecx), Gives(at, size),
         NEW b, b = NewBlock(at, size)
  PROVE  /\ b \in Entry /\ b.address = at /\ b.size = size /\ b.handle = Cardinality(blocks) + 1
         /\ size \in 1..(W - 1) /\ size >= call.ecx /\ at \in 1..(W - 1) /\ at + size <= W
         /\ Of(b) = at..(at + size - 1) /\ b \notin blocks
         /\ \A c \in blocks : Of(c) \intersect Of(b) = {}
<1> USE Consts
<1>1. TypeOK /\ Working /\ call.ecx \in 0..(W - 1) /\ ptr \in 1..(Slots - 1)
  BY Types DEF IInv
<1>2. size \in 1..(W - 1) /\ size >= call.ecx
  BY <1>1, BlockSizeFacts DEF Gives
<1>3. at + size <= W /\ Units(at, size) \intersect UNION {Of(c) : c \in blocks} = {}
  BY DEF Gives, Fits
<1>4. Cardinality(blocks) \in Nat /\ Cardinality(blocks) # 0 /\ Cardinality(blocks) < MaxBlocks
  BY <1>1, FS_CardinalityType, FS_EmptySet DEF Working, HandlesCount, Gives
<1>5. Max({c.handle : c \in blocks}) = Cardinality(blocks)
  BY <1>1, <1>4, MaxOfCount DEF Working, HandlesCount
<1>6. b = [handle |-> 1 + Cardinality(blocks), address |-> at, size |-> size]
  BY <1>5 DEF NewBlock
<1>7. b \in Entry /\ b.address = at /\ b.size = size /\ b.handle = Cardinality(blocks) + 1
  BY <1>2, <1>4, <1>6 DEF Entry
<1>8. b \notin blocks
  <2>1. Cardinality(blocks) + 1 \notin 1..Cardinality(blocks)
    BY <1>4
  <2> QED BY <2>1, <1>1, <1>7 DEF Working, HandlesCount
<1>9. Of(b) = Units(at, size)
  BY <1>7 DEF Of
<1>10. Of(b) = at..(at + size - 1)
  <2>1. at \in 0..(W - 1) /\ size \in Int
    BY <1>2
  <2>2. Units(at, size) = at..(at + size - 1)
    BY <2>1, <1>3, UnitsInterval
  <2> QED BY <2>2, <1>9
<1>11. \A c \in blocks : Of(c) \intersect Of(b) = {}
  BY <1>3, <1>9
<1> QED BY <1>2, <1>3, <1>7, <1>8, <1>10, <1>11

\* The blocks with the new one.
LEMMA BlocksGrow ==
  ASSUME IInv, pc = "alloc", NEW b \in Entry, b.address # 0, b.size > 0, b.address + b.size <= W,
         b.handle = Cardinality(blocks) + 1, b \notin blocks,
         \A c \in blocks : Of(c) \intersect Of(b) = {},
         blocks' = blocks \union {b}, table'[0] = table[0]
  PROVE  BlocksApart' /\ HandlesCount' /\ StubIsFirst'
<1>1. BlocksApart /\ HandlesCount /\ StubIsFirst
  BY DEF IInv, Working
<1>2. BlocksApart'
  BY <1>1 DEF BlocksApart
<1>3. HandlesCount'
  <2>1. Cardinality(blocks) \in Nat
    BY <1>1, FS_CardinalityType DEF HandlesCount
  <2>2. IsFiniteSet(blocks') /\ Cardinality(blocks') = Cardinality(blocks) + 1
    BY <1>1, FS_AddElement DEF HandlesCount
  <2>3. {c.handle : c \in blocks'} = {c.handle : c \in blocks} \union {Cardinality(blocks) + 1}
    OBVIOUS
  <2>4. (1..Cardinality(blocks)) \union {Cardinality(blocks) + 1} = 1..(Cardinality(blocks) + 1)
    BY <2>1
  <2> QED BY <1>1, <2>2, <2>3, <2>4 DEF HandlesCount
<1>4. StubIsFirst'
  BY <1>1 DEF StubIsFirst
<1> QED BY <1>2, <1>3, <1>4

\* The blocks of sbrk are finitely many.
LEMMA ListedFinite == ASSUME Working PROVE IsFiniteSet(Listed) /\ Cardinality(Listed) \in Nat
<1>1. Listed \subseteq blocks /\ IsFiniteSet(blocks)
  BY DEF Listed, Working, HandlesCount
<1> QED BY <1>1, FS_Subset, FS_CardinalityType

\* A block below the base is thrown away, and the host asked again.
LEMMA DiscardStep == ASSUME IInv, NEW at \in Places, Discard(at) PROVE IInv' /\ Fresh
<1> USE Consts
<1> DEFINE size == BlockSize(call.ecx)
           b == NewBlock(at, size)
<1>1. TypeOK /\ Working /\ pc = "alloc" /\ last = Nothing
  BY DEF IInv, Discard, Working, CallWaits
<1>2. /\ UNCHANGED <<app, dpmi, old, limit, seg, table, ptr, unixy, nowrap, pc, call, held, last>>
      /\ blocks' = blocks \union {b} /\ Gives(at, size) /\ Discarded(at)
  BY DEF Discard
<1> HIDE DEF size, b
<1>3. /\ b \in Entry /\ b.address = at /\ b.size = size /\ b.handle = Cardinality(blocks) + 1
      /\ size \in 1..(W - 1) /\ at \in 1..(W - 1) /\ at + size <= W
      /\ b \notin blocks /\ \A c \in blocks : Of(c) \intersect Of(b) = {}
  BY <1>1, <1>2, NewBlockFacts DEF size, b
<1>4. BlocksApart' /\ HandlesCount' /\ StubIsFirst'
  BY <1>1, <1>2, <1>3, BlocksGrow
<1>5. Listed' = Listed
  BY <1>2, <1>3 DEF Listed, Discarded
<1>6. Mine' = Mine /\ Break' = Break
  BY <1>2, <1>5 DEF Mine, Break
<1>7. TableFollows' /\ LimitCovers'
  BY <1>1, <1>2, <1>5, <1>6 DEF Working, TableFollows, LimitCovers
<1>8. RestIsFree' /\ CallWaits'
  BY <1>1, <1>2, <1>6 DEF Working, RestIsFree, CallWaits
<1>9. UnixHasOneBlock'
  BY <1>1, <1>2 DEF Working, UnixHasOneBlock
<1>10. TypeOK'
  BY <1>1, <1>2, <1>3 DEF TypeOK
<1>11. Fresh
  BY <1>1, <1>2 DEF Fresh, Nothing
<1> QED BY <1>1, <1>2, <1>4, <1>7, <1>8, <1>9, <1>10, <1>11 DEF IInv, Working
\* Allocating puts the block in the next slot, or over the last one when the table is full.
LEMMA TableGrows ==
  ASSUME IInv, pc = "alloc", NEW b, b \notin Listed, Listed' = Listed \union {b},
         table' = [table EXCEPT ![ptr] = b], ptr' = NextSlot
  PROVE  TableFollows'
<1> USE Consts
<1> DEFINE n == Cardinality(Listed)
<1>1. TypeOK /\ Working /\ TableFollows /\ ptr \in 1..(Slots - 1) /\ table \in [0..Slots -> Entry]
  BY Types DEF IInv, Working
<1>2. IsFiniteSet(Listed) /\ n \in Nat
  BY <1>1, ListedFinite
<1>3. Cardinality(Listed') = n + 1
  BY <1>2, FS_AddElement
<1>4. table'[ptr] = b /\ \A i \in 1..Slots : i # ptr => table'[i] = table[i]
  BY <1>1
<1>5. /\ n < Slots => /\ ptr = (IF n + 1 = Slots THEN n ELSE n + 1)
                      /\ Listed = {table[i] : i \in 1..n}
                      /\ \A i \in 1..Slots : i > n => table[i] = Empty
      /\ n >= Slots => ptr = Slots - 1
  BY <1>1 DEF TableFollows
<1> HIDE DEF n
<1>6. CASE n + 1 < Slots
  <2>1. ptr = n + 1
    BY <1>2, <1>5, <1>6
  <2>2. ptr' = IF n + 1 + 1 = Slots THEN n + 1 ELSE n + 1 + 1
    BY <2>1 DEF NextSlot
  <2>3. \A i \in 1..Slots : i > n + 1 => table'[i] = Empty
    BY <1>2, <1>4, <1>5, <1>6, <2>1
  <2>4. \A i \in 1..n : table'[i] = table[i]
    BY <1>2, <1>4, <1>6, <2>1
  <2>5. {table'[i] : i \in 1..(n + 1)} = {table[i] : i \in 1..n} \union {b}
    <3>1. \A i \in 1..(n + 1) : i \in 1..n \/ i = n + 1
      BY <1>2
    <3>2. 1..n \subseteq 1..(n + 1) /\ n + 1 \in 1..(n + 1)
      BY <1>2
    <3> QED BY <3>1, <3>2, <2>1, <2>4, <1>4
  <2>6. Listed' = {table'[i] : i \in 1..(n + 1)}
    BY <2>5, <1>2, <1>5, <1>6
  <2>7. ~(n + 1 >= Slots)
    BY <1>2, <1>6
  <2> QED BY <2>2, <2>3, <2>6, <2>7, <1>3 DEF TableFollows
<1>7. CASE n + 1 >= Slots
  <2>1. ptr = Slots - 1
    BY <1>2, <1>5, <1>7
  <2>2. ptr' = Slots - 1
    BY <2>1 DEF NextSlot
  <2>3. table'[Slots - 1] = b
    BY <2>1, <1>4
  <2> QED BY <2>2, <2>3, <1>2, <1>3, <1>7 DEF TableFollows
<1> QED BY <1>2, <1>6, <1>7

\* A block the program keeps.
LEMMA AllocateStep == ASSUME IInv, NEW at \in Places, Allocate(at) PROVE IInv' /\ Fresh
<1> USE Consts
<1> DEFINE size == BlockSize(call.ecx)
           b == NewBlock(at, size)
           end == at + size - 1
           r == Result(at)
           ecx == call.ecx
<1>1. /\ TypeOK /\ Working /\ pc = "alloc" /\ last = Nothing /\ call.by = "sbrk" /\ ~unixy
      /\ old \in 0..(W - 1) /\ dpmi \in 0..(W - 1) /\ ecx \in 0..(W - 1)
      /\ limit \in 0..(W - 1) /\ seg \in 0..(W - 1) /\ ptr \in 1..(Slots - 1)
  BY Types DEF IInv, Allocate, Working, CallWaits, UnixHasOneBlock
<1>2. /\ Gives(at, size) /\ ~Discarded(at) /\ blocks' = blocks \union {b}
      /\ table' = [table EXCEPT ![ptr] = b] /\ ptr' = NextSlot
      /\ limit' = NewLimit(end) /\ seg' = (IF NewLimit(end) # limit THEN NewLimit(end) ELSE seg)
      /\ dpmi' = (end + 1) % W /\ old' = r /\ app' = (r + ecx) % W
      /\ held' = held \union Taken(r) /\ last' = [took |-> Taken(r), filled |-> Filled(at, end)]
      /\ pc' = "run" /\ UNCHANGED <<unixy, nowrap, call>>
  BY DEF Allocate, NewBreak
<1>3. Taken(r) = Units(r, ecx)
  BY <1>1 DEF Taken
<1> HIDE DEF b
<1>4. /\ b \in Entry /\ b.address = at /\ b.size = size /\ b.handle = Cardinality(blocks) + 1
      /\ size \in 1..(W - 1) /\ size >= ecx /\ at \in 1..(W - 1) /\ at + size <= W
      /\ Of(b) = at..(at + size - 1) /\ b \notin blocks
      /\ \A c \in blocks : Of(c) \intersect Of(b) = {}
  <2> HIDE DEF size
  <2> QED BY <1>1, <1>2, NewBlockFacts DEF b, size
<1> HIDE DEF size
<1>5. table'[0] = table[0]
  BY <1>1, <1>2, Types
<1>6. BlocksApart' /\ HandlesCount' /\ StubIsFirst'
  BY <1>1, <1>2, <1>4, <1>5, BlocksGrow
<1>7. Listed' = Listed \union {b} /\ b \notin Listed
  BY <1>2, <1>4 DEF Listed, Discarded
<1>8. TableFollows'
  BY <1>1, <1>2, <1>7, TableGrows
<1>9. Mine' = Mine \union Of(b)
  BY <1>5, <1>7 DEF Mine
<1>10. Mine \intersect Of(b) = {} /\ held \subseteq Mine
  <2>1. Listed \union {table[0]} \subseteq blocks
    BY <1>1 DEF Listed, Working, StubIsFirst
  <2>2. Mine \intersect Of(b) = {}
    BY <2>1, <1>4 DEF Mine
  <2> QED BY <2>2, <1>1 DEF Working, RestIsFree
<1>11. end \in 1..(W - 1) /\ Of(b) = at..end /\ end + 1 = at + size
  BY <1>4
<1>12. NewLimit(end) \in 0..(W - 1) /\ NewLimit(end) >= end /\ NewLimit(end) >= limit
  BY <1>1, <1>11 DEF NewLimit
<1>13. LimitCovers'
  <2>1. CASE seg = limit
    <3>1. seg' = NewLimit(end)
      BY <2>1, <1>2
    <3>2. \A u \in Mine : u <= seg
      BY <1>1 DEF Working, LimitCovers
    <3>3. Mine \subseteq 0..seg
      <4>1. \A c \in blocks : Of(c) \subseteq 0..(W - 1)
        BY <1>1, UnitsType, Types DEF Of, Entry
      <4>2. Mine \subseteq 0..(W - 1)
        BY <4>1, <1>1 DEF Mine, Listed, Working, StubIsFirst
      <4> QED BY <4>2, <3>2, <1>1
    <3>4. \A u \in Mine' : u <= seg'
      BY <3>1, <3>3, <1>9, <1>11, <1>12, <2>1, <1>1
    <3> QED BY <3>1, <3>4, <1>2 DEF LimitCovers
  <2>2. CASE limit = 0 /\ Listed = {}
    <3>1. NewLimit(end) = end /\ seg' = end /\ limit' = end
      BY <2>2, <1>2, <1>11 DEF NewLimit
    <3>2. Mine = Of(table[0])
      BY <2>2 DEF Mine
    <3>3. /\ table[0] \in Entry /\ table[0] \in blocks /\ table[0].address = 0 /\ table[0].size > 0
          /\ table[0].size \in Int /\ table[0].size <= W
      BY <1>1, SlotZero DEF Working, StubIsFirst, Entry
    <3>4. Of(table[0]) = 0..(table[0].size - 1)
      BY <3>3, OfBlock
    <3>5. at \notin Of(table[0])
      BY <3>3, <1>4, <1>11
    <3>6. \A u \in Mine' : u <= seg'
      BY <3>1, <3>2, <3>3, <3>4, <3>5, <1>4, <1>9, <1>11
    <3> QED BY <3>1, <3>6 DEF LimitCovers
  <2> QED BY <2>1, <2>2, <1>1 DEF Working, LimitCovers
<1>14. /\ r \in 0..(W - 1) /\ r + ecx <= at + size /\ (r = at \/ (at = dpmi /\ r = old /\ old <= at))
       /\ r..(at + size - 1) \subseteq Mine' \ held
  <2>1. old <= dpmi \/ dpmi = 0
    BY <1>1 DEF Working, RestIsFree, Break
  <2>2. old..(dpmi - 1) \subseteq Mine \ held
    BY <1>1 DEF Working, RestIsFree, Break
  <2>3. at..(at + size - 1) \subseteq Mine' \ held
    BY <1>4, <1>9, <1>10
  <2>4. CASE at = dpmi
    <3>1. r = old /\ old <= at
      BY <2>1, <2>4, <1>1, <1>4 DEF Result
    <3>2. \A u \in old..(at + size - 1) : u \in old..(dpmi - 1) \/ u \in at..(at + size - 1)
      BY <2>4, <1>1, <1>4
    <3>3. old..(at + size - 1) \subseteq Mine' \ held
      BY <3>2, <2>2, <2>3, <1>9
    <3> HIDE DEF r
    <3> QED BY <3>1, <3>3, <2>4, <1>1, <1>4
  <2>5. CASE at # dpmi
    <3>1. r = at
      BY <2>5 DEF Result
    <3> HIDE DEF r
    <3> QED BY <3>1, <2>3, <1>1, <1>4
  <2> QED BY <2>4, <2>5
<1> HIDE DEF r, ecx
<1>ends. r \in 0..(W - 1) /\ ecx \in 0..(W - 1) /\ r + ecx <= at + size /\ at + size <= W
  BY <1>1, <1>4, <1>14
<1>sizes. at \in 1..(W - 1) /\ size \in 1..(W - 1)
  BY <1>4
<1>15. Taken(r) = r..(r + ecx - 1)
  <2>1. r + ecx <= W /\ ecx \in Int
    BY <1>ends, <1>sizes
  <2> QED BY <2>1, <1>3, <1>ends, UnitsInterval
<1>16. Filled(at, end) = at..(at + size - 1)
  <2>1. end + 1 - at = size /\ size % W = size
    BY <1>4, ModBelow
  <2>2. Units(at, size) = at..(at + size - 1)
    BY <1>4, UnitsInterval
  <2> QED BY <2>1, <2>2 DEF Filled
<1> HIDE DEF end
<1>17. dpmi' = IF at + size = W THEN 0 ELSE at + size
  <2>1. CASE at + size = W
    BY <2>1, <1>2, <1>11, ModOnce
  <2>2. CASE at + size # W
    BY <2>2, <1>2, <1>4, <1>11, ModBelow
  <2> QED BY <2>1, <2>2
<1>18. app' = IF r + ecx = W THEN 0 ELSE r + ecx
  <2>1. CASE r + ecx = W
    BY <2>1, <1>2, ModOnce
  <2>2. CASE r + ecx # W
    <3>1. r + ecx \in 0..(W - 1)
      BY <2>2, <1>ends, <1>sizes
    <3> QED BY <3>1, <2>2, <1>2, ModBelow
  <2> QED BY <2>1, <2>2
<1>19. Taken(r) \subseteq r..(at + size - 1) /\ Taken(r) \subseteq 0..(W - 1)
  BY <1>15, <1>ends, <1>sizes
<1>20. TypeOK'
  <2>1. table' \in [0..Slots -> Entry] /\ table'[Slots] = Empty
    BY <1>1, <1>2, <1>4, Types
  <2>2. limit' \in 0..(W - 1) /\ seg' \in 0..(W - 1)
    BY <1>1, <1>2, <1>12
  <2>3. dpmi' \in 0..(W - 1) /\ app' \in 0..(W - 1) /\ old' \in 0..(W - 1)
    BY <1>2, <1>17, <1>18, <1>ends, <1>sizes
  <2>4. held' \subseteq 0..(W - 1)
    BY <1>1, <1>2, <1>19, Types
  <2>5. last' \in [took : SUBSET (0..(W - 1)), filled : SUBSET (0..(W - 1))]
    <3>1. at..(at + size - 1) \subseteq 0..(W - 1)
      BY <1>4
    <3> QED BY <3>1, <1>2, <1>16, <1>19
  <2>6. blocks' \subseteq Entry
    BY <1>1, <1>2, <1>4, Types
  <2>7. ptr' \in 1..(Slots - 1)
    BY <1>1, <1>2 DEF NextSlot
  <2> QED BY <2>1, <2>2, <2>3, <2>4, <2>5, <2>6, <2>7, <1>1, <1>2, Types DEF TypeOK
<1>21. RestIsFree'
  <2>1. Break' = app'
    BY <1>2 DEF Break
  <2>2. held' \subseteq Mine'
    BY <1>2, <1>9, <1>10, <1>14, <1>19
  <2>3. app' <= dpmi' \/ dpmi' = 0
    BY <1>1, <1>4, <1>14, <1>17, <1>18
  <2>4. app'..(dpmi' - 1) \subseteq Mine' \ held'
    <3>1. CASE at + size = W
      <4>1. dpmi' = 0 /\ app' \in Nat
        BY <3>1, <1>17, <1>18, <1>1, <1>14
      <4>2. app'..(dpmi' - 1) = {}
        BY <4>1
      <4> QED BY <4>2
    <3>2. CASE at + size # W
      <4>1. dpmi' = at + size /\ app' = r + ecx
        BY <3>2, <1>17, <1>18, <1>ends, <1>sizes
      <4>2. /\ (r + ecx)..(at + size - 1) \subseteq r..(at + size - 1)
            /\ ((r + ecx)..(at + size - 1)) \intersect (r..(r + ecx - 1)) = {}
        BY <1>ends, <1>sizes
      <4>3. (r + ecx)..(at + size - 1) \subseteq Mine' \ held'
        BY <4>2, <1>2, <1>14, <1>15
      <4> QED BY <4>1, <4>3, <1>ends, <1>sizes
    <3> QED BY <3>1, <3>2
  <2> QED BY <2>1, <2>2, <2>3, <2>4 DEF RestIsFree
<1>22. UnixHasOneBlock' /\ CallWaits'
  BY <1>1, <1>2 DEF UnixHasOneBlock, CallWaits
<1>23. Fresh
  <2>1. last'.took = Taken(r) /\ last'.filled = at..(at + size - 1)
    BY <1>2, <1>16
  <2>2. Taken(r) \intersect held = {}
    BY <1>14, <1>19
  <2>3. (at..(at + size - 1)) \intersect held = {}
    BY <1>4, <1>10
  <2>4. at..(at + size - 1) \subseteq UNION {Of(c) : c \in blocks'}
    BY <1>2, <1>4
  <2> QED BY <2>1, <2>2, <2>3, <2>4 DEF Fresh
<1> QED BY <1>2, <1>6, <1>8, <1>13, <1>20, <1>21, <1>22, <1>23 DEF IInv, Working
-----------------------------------------------------------------------------
(* The end, and the theorems. *)

\* __exit frees the slots up to the pointer.
LEMMA ExitStep == ASSUME IInv, __exit PROVE IInv' /\ Fresh
<1> USE Consts
<1> DEFINE n == Cardinality(Listed)
<1>1. TypeOK /\ Working /\ pc = "run"
  BY DEF IInv, __exit
<1>2. /\ UNCHANGED <<app, dpmi, old, limit, seg, table, ptr, unixy, nowrap, call>>
      /\ pc' = "gone" /\ held' = {} /\ last' = Nothing /\ blocks' \subseteq blocks
  BY DEF __exit
<1>3. TypeOK'
  BY <1>1, <1>2, NothingType, Types DEF TypeOK
<1>4. Fresh
  BY <1>2 DEF Fresh, Nothing
<1>5. ASSUME table[Slots - 1] = Empty, NEW b \in blocks' PROVE Discarded(b.address)
  <2>1. b \in blocks /\ b.handle # table[0].handle /\ \A i \in 1..(ptr - 1) : table[i].handle # b.handle
    BY <1>5 DEF __exit, FreedSlots
  <2>2. b.address # 0
    BY <2>1, <1>1 DEF Working, StubIsFirst
  <2>3. \A c \in Listed : c # Empty
    BY DEF Listed, Empty
  <2>4. n \in Nat /\ TableFollows
    BY <1>1, ListedFinite DEF Working
  <2>5. n < Slots - 1
    <3>1. ~(n >= Slots)
      BY <1>5, <2>3, <2>4 DEF TableFollows
    <3>2. n # Slots - 1
      <4> SUFFICES ASSUME n = Slots - 1 PROVE FALSE
        OBVIOUS
      <4>1. Listed = {table[i] : i \in 1..n} /\ n \in 1..n
        BY <3>1, <2>4 DEF TableFollows
      <4> QED BY <4>1, <1>5, <2>3
    <3> QED BY <3>1, <3>2, <2>4
  <2>6. ptr = n + 1 /\ Listed = {table[i] : i \in 1..n}
    BY <2>4, <2>5 DEF TableFollows
  <2> HIDE DEF n
  <2>7. 1..(ptr - 1) = 1..n
    BY <2>4, <2>6
  <2>8. b \notin Listed
    BY <2>1, <2>6, <2>7
  <2> QED BY <2>1, <2>2, <2>8 DEF Listed
<1>6. ExitFreesTheBlocks'
  BY <1>2, <1>5 DEF ExitFreesTheBlocks, Discarded
<1> QED BY <1>2, <1>3, <1>4, <1>6 DEF IInv

\* Every step keeps the invariant and hands out and fills only fresh memory.
LEMMA NextIInv == ASSUME LeftInECX = {}, ~SemiOK, IInv, Next PROVE IInv' /\ Fresh
<1>1. ASSUME NEW n \in Grows \union {-k : k \in Shrinks}, __sbrk(n) PROVE IInv' /\ Fresh
  BY <1>1, SbrkStep
<1>2. ASSUME NEW to \in Breaks, __brk(to) PROVE IInv' /\ Fresh
  BY <1>2, BrkStep
<1>3. ASSUME NEW at \in Places, Allocate(at) \/ Discard(at) PROVE IInv' /\ Fresh
  BY <1>3, AllocateStep, DiscardStep
<1>4. CASE Resize
  BY <1>4, ResizeStep
<1>5. CASE brk_error
  BY <1>5, ErrorStep
<1>6. CASE __exit
  BY <1>6, ExitStep
<1> QED BY <1>1, <1>2, <1>3, <1>4, <1>5, <1>6 DEF Next

\* Nothing changes in a step that leaves the state alone.
LEMMA StutterIInv == ASSUME IInv, UNCHANGED vars PROVE IInv'
<1>1. UNCHANGED <<app, dpmi, old, limit, seg, table, ptr, unixy, nowrap, blocks, pc, call, held, last>>
  BY DEF vars
<1>2. TypeOK'
  BY <1>1 DEF IInv, TypeOK
<1>3. pc = "gone" => held' = {} /\ ExitFreesTheBlocks'
  BY <1>1 DEF IInv, ExitFreesTheBlocks, Discarded
<1>4. ASSUME pc # "gone" PROVE Working'
  <2>1. Working
    BY <1>4 DEF IInv
  <2>2. Shape' /\ Listed' = Listed /\ Mine' = Mine
    BY <2>1, <1>1, SameShape DEF Working, Shape
  <2>3. RestIsFree' /\ UnixHasOneBlock' /\ CallWaits'
    BY <2>1, <2>2, <1>1 DEF Working, RestIsFree, UnixHasOneBlock, CallWaits, Break
  <2> QED BY <2>2, <2>3 DEF Working, Shape
<1> QED BY <1>1, <1>2, <1>3, <1>4 DEF IInv

\* The invariant of a program that calls brk only for memory it has, and gives back only
\* what it got (crt0.S, __sbrk and __brk): blocks, table, limit and break agree.
THEOREM BreakInvariance == ASSUME LeftInECX = {}, ~SemiOK PROVE Spec => []IInv
<1>1. IInv /\ [Next]_vars => IInv'
  BY NextIInv, StutterIInv
<1> QED BY <1>1, InitIInv, PTL DEF Spec

\* Memory the program took lies in blocks the host gave it, below the limit of its segments
\* (crt0.S: brk_common keeps the limit at the highest end seen).
THEOREM MemoryIsOwned == ASSUME LeftInECX = {}, ~SemiOK PROVE Spec => []HeldIsOwned
<1>1. IInv => HeldIsOwned
  <2> SUFFICES ASSUME IInv PROVE HeldIsOwned
    OBVIOUS
  <2>1. CASE pc = "gone"
    BY <2>1 DEF IInv, HeldIsOwned
  <2>2. CASE pc # "gone"
    <3>1. Working
      BY <2>2 DEF IInv
    <3>2. Listed \union {table[0]} \subseteq blocks
      BY <3>1 DEF Listed, Working, StubIsFirst
    <3>3. Mine \subseteq UNION {Of(b) : b \in blocks}
      BY <3>2 DEF Mine
    <3> QED BY <3>1, <3>3 DEF HeldIsOwned, Working, RestIsFree, LimitCovers
  <2> QED BY <2>1, <2>2
<1> QED BY <1>1, BreakInvariance, PTL

\* __exit gives every block back that it did not throw away, until the last slot is used
\* (crt0.S: the loop over __djgpp_memory_handle_list).
THEOREM BlocksAreFreed == ASSUME LeftInECX = {}, ~SemiOK PROVE Spec => []ExitFreesTheBlocks
<1>1. IInv => ExitFreesTheBlocks
  BY DEF IInv, ExitFreesTheBlocks
<1> QED BY <1>1, BreakInvariance, PTL

\* What sbrk and brk hand out nobody held (crt0.S: the old break, or the new block).
THEOREM HandsOutFreshMemory == ASSUME LeftInECX = {}, ~SemiOK PROVE Spec => FreshMemory
<1>1. IInv /\ [Next]_vars => [last'.took \intersect held = {}]_vars
  BY NextIInv DEF Fresh
<1> QED BY <1>1, BreakInvariance, PTL DEF Spec, FreshMemory

\* The fill of a new block overwrites nothing the program holds and stays in the block
\* (crt0.S: the loop from the old end to the new one).
THEOREM FillsFreshMemory == ASSUME LeftInECX = {}, ~SemiOK PROVE Spec => FillsOnlyNewMemory
<1>1. IInv /\ [Next]_vars =>
        [last'.filled \intersect held = {} /\ last'.filled \subseteq UNION {Of(b) : b \in blocks'}]_vars
  BY NextIInv DEF Fresh
<1> QED BY <1>1, BreakInvariance, PTL DEF Spec, FillsOnlyNewMemory

\* The block that has address u begins at the greatest address at or below u.
LEMMA Lookup ==
  ASSUME TypeOK, Working, ~Full, NEW u \in held
  PROVE  LET d == table[__djgpp_memory_handle(u)] IN d \in blocks /\ u \in Of(d)
<1> USE Consts
<1> DEFINE n == Cardinality(Listed)
           below == {i \in Searched : u >= table[i].address}
           first == __djgpp_memory_handle(u)
<1>1. n \in Nat /\ n < Slots
  <2>1. n \in Nat
    BY ListedFinite
  <2>2. ~(n > Slots - 1)
    BY DEF Full, Listed
  <2> QED BY <2>1, <2>2
<1>2. Listed = {table[i] : i \in 1..n} /\ \A i \in 1..Slots : i > n => table[i] = Empty
  BY <1>1 DEF Working, TableFollows
<1> HIDE DEF n
<1>3. Searched = 1..n
  <2>1. \A i \in 1..n : table[i].address # 0
    BY <1>2 DEF Listed
  <2>2. \A i \in 1..Slots : i > n => table[i].address = 0
    BY <1>2 DEF Empty
  <2>3. ASSUME NEW i \in 1..n PROVE i \in Searched
    <3>1. i \in 1..Slots /\ \A j \in 1..i : j \in 1..n
      BY <1>1
    <3> QED BY <3>1, <2>1 DEF Searched
  <2>4. ASSUME NEW i \in Searched PROVE i \in 1..n
    <3>1. i \in 1..Slots /\ \A j \in 1..i : table[j].address # 0
      BY DEF Searched
    <3>2. i \in 1..i /\ table[i].address # 0
      BY <3>1
    <3> QED BY <3>1, <3>2, <2>2, <1>1
  <2> QED BY <2>3, <2>4
<1>4. /\ \A b \in blocks : /\ b.address \in 0..(W - 1) /\ b.size \in 0..W /\ b.size > 0
                           /\ Of(b) = b.address..(b.address + b.size - 1)
      /\ \A b \in blocks, c \in blocks : b # c => Of(b) \intersect Of(c) = {}
  <2>1. blocks \subseteq Entry /\ BlocksApart
    BY Types DEF Working
  <2>2. ASSUME NEW b \in blocks PROVE /\ b.address \in 0..(W - 1) /\ b.size \in 0..W /\ b.size > 0
                                      /\ Of(b) = b.address..(b.address + b.size - 1)
    BY <2>1, OfBlock DEF BlocksApart, Entry
  <2> QED BY <2>1, <2>2 DEF BlocksApart
<1>5. table[0] \in blocks /\ table[0].address = 0
  BY DEF Working, StubIsFirst
<1>6. \A i \in 1..n : table[i] \in blocks /\ table[i].address # 0
  BY <1>2 DEF Listed
<1>7. PICK c \in Listed \union {table[0]} : u \in Of(c)
  BY DEF Working, RestIsFree, Mine
<1>8. c \in blocks /\ u \in Nat /\ c.address <= u /\ c.address \in Nat
  <2>1. c \in blocks
    BY <1>5, <1>7 DEF Listed
  <2> QED BY <2>1, <1>4, <1>7
<1>9. ASSUME NEW b \in blocks, c.address <= b.address, b.address <= u PROVE b = c
  <2>1. b.address \in Of(c)
    BY <1>4, <1>7, <1>8, <1>9
  <2>2. b.address \in Of(b)
    BY <1>4
  <2> QED BY <2>1, <2>2, <1>4, <1>8
<1>10. first = IF below = {} THEN 0
               ELSE CHOOSE i \in below : \A j \in below : table[j].address <= table[i].address
  BY DEF __djgpp_memory_handle
<1>11. below = {i \in 1..n : u >= table[i].address}
  BY <1>3
<1> HIDE DEF below, first
<1>12. CASE c = table[0]
  <2>1. below = {}
    <3> SUFFICES ASSUME NEW i \in below PROVE FALSE
      OBVIOUS
    <3>1. table[i] \in blocks /\ table[i].address # 0 /\ table[i].address <= u /\ table[i].address \in Nat
      BY <1>4, <1>6, <1>8, <1>11
    <3>2. table[i] = c
      BY <3>1, <1>5, <1>9, <1>12
    <3> QED BY <3>1, <3>2, <1>5, <1>12
  <2>2. table[first] = c
    BY <2>1, <1>10, <1>12
  <2> QED BY <2>2, <1>7, <1>8 DEF first
<1>13. CASE c # table[0]
  <2>1. PICK k \in 1..n : table[k] = c
    BY <1>2, <1>7, <1>13
  <2>2. k \in below
    BY <2>1, <1>8, <1>11
  <2>3. ASSUME NEW i \in below, ~(table[i].address <= table[k].address) PROVE FALSE
    <3>1. table[i] \in blocks /\ table[i].address <= u /\ table[i].address \in Nat
      BY <1>4, <1>6, <1>8, <1>11, <2>3
    <3>2. table[i] = c
      BY <3>1, <2>1, <2>3, <1>8, <1>9
    <3> QED BY <3>1, <3>2, <2>1, <2>3
  <2>4. first \in below /\ \A j \in below : table[j].address <= table[first].address
    BY <2>2, <2>3, <1>10
  <2>5. /\ table[first] \in blocks /\ table[first].address <= u /\ table[first].address \in Nat
        /\ c.address <= table[first].address
    BY <2>1, <2>2, <2>4, <1>4, <1>6, <1>8, <1>11
  <2>6. table[first] = c
    BY <2>5, <1>9
  <2> QED BY <2>6, <1>7, <1>8 DEF first
<1> QED BY <1>12, <1>13

\* The types are kept, and until the table is full __djgpp_memory_handle (memhandl.c) finds
\* the block of every address the program holds, although blocks come in any order.
THEOREM TableLeadsToBlocks == ASSUME LeftInECX = {}, ~SemiOK PROVE Spec => []TableOK
<1>1. IInv => TableOK
  <2> SUFFICES ASSUME IInv PROVE TableOK
    OBVIOUS
  <2>1. CASE pc = "gone"
    BY <2>1 DEF IInv, TableOK, HandleIsFound
  <2>2. CASE pc # "gone"
    BY <2>2, Lookup DEF IInv, TableOK, HandleIsFound
  <2> QED BY <2>1, <2>2
<1> QED BY <1>1, BreakInvariance, PTL
-----------------------------------------------------------------------------
(* The requests of __djgpp_set_page_attributes. *)

\* Every handle names one block.
LEMMA OneHandle ==
  ASSUME Working, NEW b \in blocks, NEW c \in blocks, b.handle = c.handle
  PROVE  b = c
<1>1. PICK f, T : f = [x \in blocks |-> x.handle] /\ T = {x.handle : x \in blocks}
  OBVIOUS
<1>2. IsFiniteSet(blocks) /\ T = 1..Cardinality(blocks)
  BY <1>1 DEF Working, HandlesCount
<1>3. f \in Surjection(blocks, T)
  BY <1>1 DEF Surjection
<1>4. Cardinality(T) = Cardinality(blocks)
  <2>1. Cardinality(blocks) \in Nat
    BY <1>2, FS_CardinalityType
  <2>2. PICK k : k = Cardinality(blocks)
    OBVIOUS
  <2>3. Cardinality(1..k) = k
    <3>1. k \in Nat /\ 1 \in Int /\ k \in Int
      BY <2>1, <2>2
    <3>2. Cardinality(1..k) = IF 1 > k THEN 0 ELSE k - 1 + 1
      BY <3>1, FS_Interval
    <3> QED BY <3>1, <3>2
  <2> QED BY <2>2, <2>3, <1>2
<1>5. f \in Injection(blocks, T)
  BY <1>2, <1>3, <1>4, FS_Surjection
<1> QED BY <1>1, <1>5 DEF Injection, IsInjective

\* The block of an address the program holds.
LEMMA BlockOf ==
  ASSUME TypeOK, Working, ~Full, NEW u \in held
  PROVE  \E d \in blocks : /\ d = table[__djgpp_memory_handle(u)]
                           /\ d.address \in Nat /\ d.size \in Nat /\ d.handle \in Nat
                           /\ u \in d.address..(d.address + d.size - 1)
                           /\ d.address + d.size <= W
<1> USE Consts
<1>1. PICK d : d = table[__djgpp_memory_handle(u)]
  OBVIOUS
<1>2. d \in blocks /\ u \in Of(d)
  BY <1>1, Lookup
<1>3. d \in Entry /\ d.size > 0 /\ d.address + d.size <= W
  BY <1>2, Types DEF Working, BlocksApart
<1>4. Of(d) = d.address..(d.address + d.size - 1)
  BY <1>3, OfBlock
<1>5. d.address \in Nat /\ d.size \in Nat /\ d.handle \in Nat
  BY <1>3 DEF Entry
<1> QED BY <1>1, <1>2, <1>3, <1>4, <1>5

\* What one request asks for: from q on, the pages of the range that lie in the block of q.
LEMMA OneRequest ==
  ASSUME TypeOK, Working, ~Full, NEW p \in held, NEW end \in (p + 1)..W,
         p..(end - 1) \subseteq held, NEW q \in p..(end - 1)
  PROVE  LET d == table[__djgpp_memory_handle(q)]
             h == HandleEnd(q, end)
         IN  /\ d \in blocks /\ d.address \in Nat /\ d.size \in Nat /\ d.handle \in Nat
             /\ h \in (q + 1)..end /\ d.address <= q /\ h <= d.address + d.size
             /\ d.address + d.size <= W
<1> USE Consts
<1>0. p \in 0..(W - 1) /\ q \in held /\ q \in Nat /\ end \in Nat /\ end <= W
  BY Types
<1>1. PICK d \in blocks : /\ d = table[__djgpp_memory_handle(q)]
                          /\ d.address \in Nat /\ d.size \in Nat /\ d.handle \in Nat
                          /\ q \in d.address..(d.address + d.size - 1)
                          /\ d.address + d.size <= W
  BY <1>0, BlockOf
<1>2. PICK M : M = {q} \union {x \in (q + 1)..(end - 1) : table[__djgpp_memory_handle(x)].handle = d.handle}
  OBVIOUS
<1>3. HandleEnd(q, end) = 1 + Max(M)
  BY <1>1, <1>2 DEF HandleEnd
<1>4. PICK e : e = Max(M)
  OBVIOUS
<1>5. e \in M
  <2>1. M \subseteq q..end /\ M # {} /\ q \in Int /\ end \in Int
    BY <1>0, <1>2
  <2>2. \E x \in M : \A y \in M : x >= y
    BY <2>1, GreatestExists, Zenon
  <2> QED BY <2>2, <1>4 DEF Max
<1>6. e \in q..(end - 1)
  BY <1>0, <1>2, <1>5
<1>7. table[__djgpp_memory_handle(e)].handle = d.handle
  BY <1>1, <1>2, <1>5
<1>8. e \in d.address..(d.address + d.size - 1)
  <2>1. e \in held
    BY <1>0, <1>6
  <2>2. PICK c \in blocks : /\ c = table[__djgpp_memory_handle(e)]
                            /\ e \in c.address..(c.address + c.size - 1)
    BY <2>1, BlockOf
  <2>3. c = d
    BY <2>2, <1>1, <1>7, OneHandle
  <2> QED BY <2>2, <2>3
<1>9. e + 1 \in (q + 1)..end /\ d.address <= q /\ e + 1 <= d.address + d.size
  BY <1>0, <1>1, <1>6, <1>8
<1>10. HandleEnd(q, end) = e + 1
  BY <1>3, <1>4, <1>6, <1>0
<1> QED BY <1>1, <1>9, <1>10, Zenon

\* A request the host can serve, and the pages it is for.
InBlock(r) == \E b \in blocks : r.handle = b.handle /\ r.address >= 0 /\ r.address + r.size <= b.size
Pages(r) == UNION {Units(b.address + r.address, r.size) : b \in {c \in blocks : c.handle = r.handle}}
Requests == [handle : Nat, address : Int, size : Int]
Request(q, end) ==
  LET d == table[__djgpp_memory_handle(q)]
  IN  [handle |-> d.handle, address |-> q - d.address, size |-> HandleEnd(q, end) - q]

\* One request is in a block, and for the pages up to the next one.
LEMMA RequestFacts ==
  ASSUME TypeOK, Working, ~Full, NEW p \in held, NEW end \in (p + 1)..W,
         p..(end - 1) \subseteq held, NEW q \in p..(end - 1)
  PROVE  /\ Request(q, end) \in Requests /\ InBlock(Request(q, end))
         /\ HandleEnd(q, end) \in (q + 1)..end
         /\ Pages(Request(q, end)) = q..(HandleEnd(q, end) - 1)
<1> USE Consts
<1>0. p \in 0..(W - 1) /\ q \in Nat /\ end \in Nat /\ end <= W
  BY Types
<1>1. PICK d, h, r : d = table[__djgpp_memory_handle(q)] /\ h = HandleEnd(q, end) /\ r = Request(q, end)
  OBVIOUS
<1>2. /\ d \in blocks /\ d.address \in Nat /\ d.size \in Nat /\ d.handle \in Nat
      /\ h \in (q + 1)..end /\ d.address <= q /\ h <= d.address + d.size
      /\ d.address + d.size <= W
  BY <1>1, OneRequest, Zenon
<1>3. r = [handle |-> d.handle, address |-> q - d.address, size |-> h - q]
  BY <1>1 DEF Request
<1>4. /\ r.handle = d.handle /\ r.address = q - d.address /\ r.size = h - q
      /\ q - d.address \in Nat /\ h - q \in Nat /\ h \in Nat
  BY <1>0, <1>2, <1>3
<1>5. r \in Requests
  BY <1>2, <1>3, <1>4 DEF Requests
<1>6. InBlock(r)
  <2>1. r.address >= 0 /\ r.address + r.size <= d.size
    BY <1>0, <1>2, <1>4
  <2> QED BY <1>2, <1>4, <2>1 DEF InBlock
<1>7. {c \in blocks : c.handle = r.handle} = {d}
  BY <1>2, <1>4, OneHandle
<1>8. Pages(r) = Units(d.address + r.address, r.size)
  BY <1>7 DEF Pages
<1>9. d.address + r.address = q /\ q \in 0..(W - 1) /\ q + (h - q) <= W /\ q + (h - q) = h
  BY <1>0, <1>2, <1>4
<1>10. Units(q, h - q) = q..(q + (h - q) - 1)
  <2>1. h - q \in Int
    BY <1>4
  <2> QED BY <2>1, <1>9, UnitsInterval
<1>11. Pages(r) = q..(h - 1)
  BY <1>4, <1>8, <1>9, <1>10
<1> QED BY <1>1, <1>2, <1>5, <1>6, <1>11, Zenon

\* Requests are for the pages q to end - 1, each once and in its block.
Covers(rs, q, end) ==
  /\ \A i \in 1..Len(rs) : InBlock(rs[i])
  /\ UNION {Pages(rs[i]) : i \in 1..Len(rs)} = q..(end - 1)
  /\ \A i, j \in 1..Len(rs) : i # j => Pages(rs[i]) \intersect Pages(rs[j]) = {}

\* A request in front of requests that cover the rest covers all.
LEMMA CoversMore ==
  ASSUME NEW r \in Requests, NEW s \in Seq(Requests), NEW q \in Nat, NEW h \in Nat, NEW end \in Nat,
         q < h, h <= end, InBlock(r), Pages(r) = q..(h - 1), Covers(s, h, end)
  PROVE  Covers(<<r>> \o s, q, end)
<1>1. PICK t : t = <<r>> \o s
  OBVIOUS
<1>2. Len(s) \in Nat /\ Len(t) = Len(s) + 1 /\ t[1] = r /\ \A i \in 1..Len(s) : t[i + 1] = s[i]
  BY <1>1
<1>3. ASSUME NEW i \in 1..Len(t) PROVE i = 1 \/ (i - 1 \in 1..Len(s) /\ t[i] = s[i - 1])
  <2>1. CASE i = 1
    BY <2>1
  <2>2. CASE i # 1
    <3>1. i - 1 \in 1..Len(s) /\ (i - 1) + 1 = i
      BY <1>2, <2>2
    <3> QED BY <3>1, <1>2
  <2> QED BY <2>1, <2>2
<1>4. \A i \in 1..Len(t) : InBlock(t[i])
  BY <1>2, <1>3 DEF Covers
<1> DEFINE A == UNION {Pages(t[i]) : i \in 1..Len(t)}
<1>5. Pages(t[1]) \subseteq A
  <2>1. 1 \in 1..Len(t)
    BY <1>2
  <2> QED BY <2>1
<1>6. \A i \in 1..Len(s) : Pages(s[i]) \subseteq A
  <2> SUFFICES ASSUME NEW i \in 1..Len(s) PROVE Pages(s[i]) \subseteq A
    OBVIOUS
  <2>1. i + 1 \in 1..Len(t) /\ t[i + 1] = s[i]
    BY <1>2
  <2>2. Pages(t[i + 1]) \subseteq A
    BY <2>1
  <2> QED BY <2>1, <2>2
<1>7. A \subseteq Pages(r) \union UNION {Pages(s[i]) : i \in 1..Len(s)}
  <2> SUFFICES ASSUME NEW i \in 1..Len(t), NEW x \in Pages(t[i])
               PROVE  x \in Pages(r) \union UNION {Pages(s[j]) : j \in 1..Len(s)}
    OBVIOUS
  <2>1. CASE i = 1
    BY <2>1, <1>2
  <2>2. CASE i - 1 \in 1..Len(s) /\ t[i] = s[i - 1]
    BY <2>2
  <2> QED BY <2>1, <2>2, <1>3
<1>8. A = (q..(h - 1)) \union UNION {Pages(s[i]) : i \in 1..Len(s)}
  BY <1>2, <1>5, <1>6, <1>7
<1>9. (q..(h - 1)) \union (h..(end - 1)) = q..(end - 1)
  OBVIOUS
<1>10. A = q..(end - 1)
  BY <1>8, <1>9 DEF Covers
<1>11. \A i \in 1..Len(s) : Pages(s[i]) \subseteq h..(end - 1)
  <2>1. UNION {Pages(s[i]) : i \in 1..Len(s)} = h..(end - 1)
    BY DEF Covers
  <2> QED BY <2>1
<1>12. \A i \in 1..Len(s) : Pages(r) \intersect Pages(s[i]) = {}
  <2>1. (q..(h - 1)) \intersect (h..(end - 1)) = {}
    OBVIOUS
  <2> QED BY <2>1, <1>11
<1>13. ASSUME NEW i \in 1..Len(t), NEW j \in 1..Len(t), i # j
       PROVE  Pages(t[i]) \intersect Pages(t[j]) = {}
  <2>1. CASE i = 1
    <3>1. j - 1 \in 1..Len(s) /\ t[j] = s[j - 1] /\ t[i] = r
      BY <2>1, <1>2, <1>3, <1>13
    <3> QED BY <3>1, <1>12
  <2>2. CASE j = 1
    <3>1. i - 1 \in 1..Len(s) /\ t[i] = s[i - 1] /\ t[j] = r
      BY <2>2, <1>2, <1>3, <1>13
    <3>2. Pages(r) \intersect Pages(s[i - 1]) = {}
      BY <3>1, <1>12
    <3> QED BY <3>1, <3>2
  <2>3. CASE i # 1 /\ j # 1
    <3>1. /\ i - 1 \in 1..Len(s) /\ t[i] = s[i - 1] /\ j - 1 \in 1..Len(s) /\ t[j] = s[j - 1]
          /\ i - 1 # j - 1
      BY <2>3, <1>2, <1>3, <1>13
    <3> QED BY <3>1 DEF Covers
  <2> QED BY <2>1, <2>2, <2>3
<1> QED BY <1>1, <1>4, <1>10, <1>13 DEF Covers
\* The requests as __djgpp_set_page_attributes makes them, page by page from the end.
LEMMA RequestsWalk ==
  ASSUME TypeOK, Working, ~Full, NEW p \in held, NEW end \in (p + 1)..W, p..(end - 1) \subseteq held
  PROVE  \E f : /\ __djgpp_set_page_attributes(p, end) = f[p]
                /\ f[end] = <<>>
                /\ \A q \in p..(end - 1) : f[q] = <<Request(q, end)>> \o f[HandleEnd(q, end)]
<1> USE Consts
<1> DEFINE Cell(f, q) == IF q = end THEN <<>> ELSE <<Request(q, end)>> \o f[HandleEnd(q, end)]
           Solves(f) == f = [q \in p..end |-> Cell(f, q)]
<1>0. p \in Int /\ end \in Int /\ p <= end /\ end \in p..end
  BY Types
<1>1. PICK S, c : S = Seq(Requests) /\ c = <<>>
  OBVIOUS
<1>2. c \in S
  BY <1>1
<1>3. PICK next : next = [q \in p..(end - 1) |-> HandleEnd(q, end)]
  OBVIOUS
<1>4. next \in Jumps(p, end)
  <2>1. \A q \in p..(end - 1) : HandleEnd(q, end) \in (q + 1)..end
    BY RequestFacts
  <2>2. \A q \in p..(end - 1) : HandleEnd(q, end) \in p..end /\ HandleEnd(q, end) > q
    BY <2>1, <1>0
  <2> QED BY <2>2, <1>3 DEF Jumps
<1>5. PICK step : step = [q \in p..(end - 1) |-> [s \in S |-> <<Request(q, end)>> \o s]]
  OBVIOUS
<1>6. step \in [p..(end - 1) -> [S -> S]]
  <2>1. \A q \in p..(end - 1) : Request(q, end) \in Requests
    BY RequestFacts
  <2>2. ASSUME NEW r \in Requests, NEW s \in S PROVE <<r>> \o s \in S
    BY <1>1
  <2> QED BY <1>5, <2>1, <2>2
<1>7. PICK f : Backs(f, S, c, p, end, next, step)
  BY <1>0, <1>2, <1>4, <1>6, WalkExists
<1>8. f \in [p..end -> S] /\ f[end] = c /\ \A q \in p..(end - 1) : f[q] = step[q][f[next[q]]]
  BY <1>7 DEF Backs
<1>9. ASSUME NEW q \in p..(end - 1) PROVE f[q] = <<Request(q, end)>> \o f[HandleEnd(q, end)]
  <2>1. next[q] = HandleEnd(q, end) /\ next[q] \in p..end
    BY <1>3, <1>4 DEF Jumps
  <2>2. f[next[q]] \in S
    BY <2>1, <1>8
  <2>3. step[q][f[next[q]]] = <<Request(q, end)>> \o f[next[q]]
    BY <2>2, <1>5
  <2> QED BY <2>1, <2>3, <1>8
<1>10. Solves(f)
  <2>1. ASSUME NEW q \in p..end PROVE f[q] = Cell(f, q)
    <3>1. CASE q = end
      BY <3>1, <1>1, <1>8, Zenon
    <3>2. CASE q # end
      <4>1. q \in p..(end - 1)
        BY <3>2, <1>0
      <4> QED BY <3>2, <4>1, <1>9, Zenon
    <3> QED BY <3>1, <3>2
  <2> HIDE DEF Cell
  <2> QED BY <1>8, <2>1
<1>11. __djgpp_set_page_attributes(p, end) = (CHOOSE g : Solves(g))[p]
  BY DEF __djgpp_set_page_attributes, Request
<1>12. PICK g : g = CHOOSE x : Solves(x)
  OBVIOUS
<1>13. Solves(g)
  <2> HIDE DEF Solves
  <2> QED BY <1>10, <1>12
<1>14. \A q \in p..end : g[q] = Cell(g, q)
  <2> HIDE DEF Cell
  <2> QED BY <1>13
<1>15. g[end] = <<>>
  BY <1>0, <1>14, Zenon
<1>16. ASSUME NEW q \in p..(end - 1) PROVE g[q] = <<Request(q, end)>> \o g[HandleEnd(q, end)]
  <2>1. q \in p..end /\ q # end
    BY <1>0
  <2> QED BY <2>1, <1>14, Zenon
<1> HIDE DEF Solves
<1> QED BY <1>11, <1>12, <1>15, <1>16, Zenon

\* From every page on, the requests cover the rest of the range.
LEMMA RequestsCover ==
  ASSUME TypeOK, Working, ~Full, NEW p \in held, NEW end \in (p + 1)..W, p..(end - 1) \subseteq held
  PROVE  Covers(__djgpp_set_page_attributes(p, end), p, end)
<1> USE Consts
<1>0. p \in Nat /\ end \in Nat /\ p < end
  BY Types
<1>1. PICK f : /\ __djgpp_set_page_attributes(p, end) = f[p]
               /\ f[end] = <<>>
               /\ \A q \in p..(end - 1) : f[q] = <<Request(q, end)>> \o f[HandleEnd(q, end)]
  BY RequestsWalk
<1> DEFINE Good(q) == f[q] \in Seq(Requests) /\ Covers(f[q], q, end)
           T == {d \in Nat : \A q \in p..end : end - q <= d => Good(q)}
<1>2. Good(end)
  <2>1. f[end] \in Seq(Requests) /\ Len(f[end]) = 0 /\ end..(end - 1) = {} /\ 1..0 = {}
    BY <1>0, <1>1
  <2>2. Covers(f[end], end, end)
    BY <2>1 DEF Covers
  <2> QED BY <2>1, <2>2
<1>3. ASSUME NEW q \in p..(end - 1), Good(HandleEnd(q, end)) PROVE Good(q)
  <2>1. PICK r, h, s : r = Request(q, end) /\ h = HandleEnd(q, end) /\ s = f[h]
    OBVIOUS
  <2>2. r \in Requests /\ InBlock(r) /\ h \in (q + 1)..end /\ Pages(r) = q..(h - 1)
    BY <2>1, RequestFacts
  <2>3. q \in Nat /\ h \in Nat /\ q < h /\ h <= end
    BY <2>2, <1>0
  <2>4. s \in Seq(Requests) /\ Covers(s, h, end)
    BY <2>1, <1>3
  <2>5. f[q] = <<r>> \o s
    BY <2>1, <1>1
  <2>6. Covers(<<r>> \o s, q, end)
    BY <2>2, <2>3, <2>4, <1>0, CoversMore
  <2>7. <<r>> \o s \in Seq(Requests)
    BY <2>2, <2>4
  <2> QED BY <2>5, <2>6, <2>7
<1> HIDE DEF Good
<1>4. 0 \in T
  <2>1. \A q \in p..end : end - q <= 0 => q = end
    BY <1>0
  <2> QED BY <2>1, <1>2
<1>5. ASSUME NEW d \in Nat, d \in T PROVE d + 1 \in T
  <2> SUFFICES ASSUME NEW q \in p..end, end - q <= d + 1 PROVE Good(q)
    OBVIOUS
  <2>1. CASE q = end
    BY <2>1, <1>2
  <2>2. CASE q \in p..(end - 1)
    <3>1. HandleEnd(q, end) \in (q + 1)..end
      BY <2>2, RequestFacts
    <3>2. HandleEnd(q, end) \in p..end /\ end - HandleEnd(q, end) <= d
      BY <3>1, <2>2, <1>0
    <3> QED BY <3>2, <2>2, <1>3, <1>5
  <2> QED BY <2>1, <2>2, <1>0
<1> HIDE DEF T
<1>6. end - p \in Nat /\ p \in p..end /\ end - p <= end - p
  BY <1>0
<1>7. end - p \in T
  BY <1>4, <1>5, <1>6, SetInduction
<1>8. Good(p)
  BY <1>6, <1>7 DEF T
<1> QED BY <1>1, <1>8 DEF Good

\* __djgpp_set_page_attributes (setattr.c, mapmem.c) asks the host for every page of a range
\* the program holds, each in the block it lies in, however the blocks came together.
THEOREM PagesAreAskedInTheirBlocks ==
  ASSUME LeftInECX = {}, ~SemiOK PROVE Spec => []RangesAreSplit
<1>1. IInv => RangesAreSplit
  <2> SUFFICES ASSUME IInv, ~Full, NEW p \in held, NEW end \in (p + 1)..W, p..(end - 1) \subseteq held
               PROVE  Covers(__djgpp_set_page_attributes(p, end), p, end)
    BY Zenon DEF RangesAreSplit, Covers, InBlock, Pages
  <2>1. TypeOK /\ Working
    BY DEF IInv
  <2> QED BY <2>1, RequestsCover
<1> QED BY <1>1, BreakInvariance, PTL
=============================================================================

---------------------------- MODULE FdPropsProofs ----------------------------
(***************************************************************************)
(* Proofs about FdProps: the tables that are indexed by a descriptor agree,*)
(* a temporary file goes away with its last descriptor and the contexts of *)
(* the zero device are counted, for any number of descriptors, of files and*)
(* of calls.  The lists of objects may be in any disorder: no argument     *)
(* below needs more of a link than that it leads to an object.             *)
(***************************************************************************)
EXTENDS FdProps, FiniteSetTheorems, Lemmas

Fields == {"jft", "sft", "disk", "props", "obj", "active", "cached", "func", "data", "dup_count", "nul", "ret",
           "fate", "wish"}

\* The descriptors with the entry v in a table.
Count(f, v) == Cardinality({fd \in Fds : f[fd] = v})

-----------------------------------------------------------------------------
(* What holds of every state, of one in which a call has failed to return  *)
(* too.  No pointer leads beyond the object n: malloc gives the lowest one.*)
(* Each part is a predicate of the tables it is about.                     *)

FileNames == Names \union {"tmp", ""}
Entries(n) == [ref_count : 0..NFds, filename : FileNames, flags : SUBSET Flags, prev : 0..n, next : 0..n]

DiskTyped(disk, wish) == disk \subseteq Disk /\ wish \subseteq Disk
ObjTyped(obj, n) == obj \in [Objs -> Entries(n)]
DataTyped(data, dup_count) == data \in [Fds -> Data \union {NULL}] /\ dup_count \in [Data -> Nat]
Held(data, dup_count) == \A d \in Data : dup_count[d] >= Count(data, d)

Base(t, n) ==
  /\ DOMAIN t = Fields /\ t.fate \in {"running", "fault", "hang", "exited"}
  /\ t.jft \in [Fds -> 0..NFds] /\ DiskTyped(t.disk, t.wish)
  /\ t.props \in [Fds -> 0..n] /\ ObjTyped(t.obj, n) /\ t.active \in 0..n /\ t.cached \in 0..n
  /\ t.func \in [Fds -> BOOLEAN] /\ DataTyped(t.data, t.dup_count) /\ t.nul \in Fds \union {-1}
  /\ Held(t.data, t.dup_count)

-----------------------------------------------------------------------------
(* What holds of a state in which the program runs. *)

\* Every open file has a handle and a name.
DosOK(jft, sft) ==
  /\ DOMAIN sft = 1..NFds
  /\ \A fd \in Fds : jft[fd] # NULL => sft[jft[fd]] # ""
  /\ \A i \in 1..NFds : sft[i] # "" => \E fd \in Fds : jft[fd] = i

\* The descriptors of extensions are handles of the null device.
FuncOK(jft, sft, func) == \A fd \in Fds : func[fd] => jft[fd] # NULL /\ sft[jft[fd]] = "nul"

\* The one the library keeps for itself has no extension and no properties.
NulOK(jft, sft, func, data, props, nul) ==
  IF nul = -1 THEN \A fd \in Fds : data[fd] = NULL
  ELSE jft[nul] # NULL /\ sft[jft[nul]] = "nul" /\ func[nul] = FALSE /\ data[nul] = NULL /\ props[nul] = NULL

\* Objects are counted, and one that nothing refers to has no name.
CountOK(props, obj) ==
  \A o \in Objs : obj[o].ref_count = Count(props, o) /\ (obj[o].filename # "" => obj[o].ref_count # 0)
CachedOK(props, cached) == cached # NULL => \A fd \in Fds : props[fd] # cached

\* The properties of a descriptor are those of its handle.
Fits(filename, name) == filename \in {"", name} \union (IF name = "nul" THEN Special ELSE {})
FollowOK(jft, sft, props, obj) ==
  \A fd \in Fds : props[fd] # NULL =>
    /\ jft[fd] # NULL /\ Fits(obj[props[fd]].filename, sft[jft[fd]])
    /\ \A other \in Fds : props[other] = props[fd] => jft[other] = jft[fd]

\* A file that is to go away has an object that says so.
WishOK(disk, wish, obj) ==
  wish \subseteq disk /\ \A name \in wish : \E o \in Objs : obj[o].filename = name /\ "TEMPORARY" \in obj[o].flags

Sound(t, n) ==
  /\ Base(t, n) /\ Runs(t)
  /\ DosOK(t.jft, t.sft) /\ FuncOK(t.jft, t.sft, t.func) /\ NulOK(t.jft, t.sft, t.func, t.data, t.props, t.nul)
  /\ CountOK(t.props, t.obj) /\ CachedOK(t.props, t.cached) /\ FollowOK(t.jft, t.sft, t.props, t.obj)
  /\ WishOK(t.disk, t.wish, t.obj)

IInv == calls \in 0..MaxCalls /\ Base(s, 2 * calls) /\ (Runs(s) => Sound(s, 2 * calls))

-----------------------------------------------------------------------------
(* Frames. *)

\* u is t but for the fields of K.
Only(t, u, K) == DOMAIN u = Fields /\ \A k \in Fields \ K : u[k] = t[k]

LEMMA OnlyMore == ASSUME NEW t, NEW u, NEW K, NEW L, Only(t, u, K), K \subseteq L PROVE Only(t, u, L)
BY DEF Only

LEMMA OnlyTwice ==
  ASSUME NEW t, NEW u, NEW v, NEW K, NEW L, Only(t, u, K), Only(u, v, L)
  PROVE  Only(t, v, K \union L)
BY DEF Only

LEMMA ReturnsOnly ==
  ASSUME NEW t, DOMAIN t = Fields, NEW r
  PROVE  Only(t, Returns(t, r), {"ret"}) /\ Returns(t, r).ret = r
BY DEF Only, Returns, Fields

LEMMA FunctionOnly ==
  ASSUME NEW t, DOMAIN t = Fields, NEW fd, NEW f
  PROVE  Only(t, set_function(t, fd, f), {"func"}) /\ set_function(t, fd, f).func = [t.func EXCEPT ![fd] = f]
BY DEF Only, set_function, Fields

\* A result is no part of any invariant.
LEMMA BaseSame ==
  ASSUME NEW t, NEW u, NEW n, Base(t, n), Only(t, u, {"ret"})
  PROVE  Base(u, n)
<1>1. /\ DOMAIN u = Fields /\ u.jft = t.jft /\ u.disk = t.disk /\ u.wish = t.wish /\ u.props = t.props /\ u.obj = t.obj
      /\ u.active = t.active /\ u.cached = t.cached /\ u.func = t.func /\ u.data = t.data
      /\ u.dup_count = t.dup_count /\ u.nul = t.nul /\ u.fate = t.fate
  BY DEF Only, Fields
<1> QED BY <1>1 DEF Base

LEMMA SoundSame ==
  ASSUME NEW t, NEW u, NEW n, Sound(t, n), Only(t, u, {"ret"})
  PROVE  Sound(u, n)
<1>1. /\ DOMAIN u = Fields /\ u.jft = t.jft /\ u.disk = t.disk /\ u.wish = t.wish /\ u.props = t.props /\ u.obj = t.obj
      /\ u.active = t.active /\ u.cached = t.cached /\ u.func = t.func /\ u.data = t.data
      /\ u.dup_count = t.dup_count /\ u.nul = t.nul /\ u.fate = t.fate /\ u.sft = t.sft
  BY DEF Only, Fields
<1>2. Base(u, n)
  BY BaseSame DEF Sound
<1> QED BY <1>1, <1>2 DEF Sound, Runs

-----------------------------------------------------------------------------
(* Numbers and counting. *)

LEMMA LeastExists ==
  ASSUME NEW S, S \subseteq Nat, S # {}
  PROVE  Min(S) \in S /\ \A y \in S : Min(S) <= y
<1>1. PICK x \in S : \A y \in S : ~ (<<y, x>> \in OpToRel(<, Nat))
  BY NatLessThanWellFounded, WFMin
<1>2. \A y \in S : y < x => <<y, x>> \in OpToRel(<, Nat)
  BY DEF OpToRel
<1>3. \A y \in S : x <= y
  <2>1. \A y \in S : ~ (y < x)
    BY <1>1, <1>2
  <2> QED BY <2>1
<1>4. \E z \in S : \A y \in S : z <= y
  BY <1>3
<1> QED BY <1>4 DEF Min

LEMMA Bounds == NFds \in Nat /\ NFds > 0 /\ NObjs \in Nat /\ MaxCalls \in Nat
BY BoundsAssumption

LEMMA FdsFinite == IsFiniteSet(Fds) /\ Cardinality(Fds) = NFds
<1>1. NFds - 1 \in Int /\ 0 \in Int /\ ~ (0 > NFds - 1) /\ (NFds - 1) - 0 + 1 = NFds
  BY Bounds
<1> QED BY <1>1, FS_Interval DEF Fds

LEMMA CountType == ASSUME NEW f, NEW v PROVE Count(f, v) \in 0..NFds
<1>1. PICK S : S = {fd \in Fds : f[fd] = v}
  OBVIOUS
<1>2. IsFiniteSet(S) /\ Cardinality(S) <= Cardinality(Fds)
  BY <1>1, FdsFinite, FS_Subset
<1>3. Cardinality(S) \in Nat
  BY <1>2, FS_CardinalityType
<1> QED BY <1>1, <1>2, <1>3, FdsFinite, Bounds DEF Count

LEMMA CountZero == ASSUME NEW f, NEW v PROVE Count(f, v) = 0 <=> \A fd \in Fds : f[fd] # v
<1>1. PICK S : S = {fd \in Fds : f[fd] = v}
  OBVIOUS
<1>2. IsFiniteSet(S)
  BY <1>1, FdsFinite, FS_Subset
<1>3. Cardinality(S) = 0 <=> S = {}
  BY <1>2, FS_EmptySet
<1> QED BY <1>1, <1>3 DEF Count

\* One entry is changed: its old value is counted once less, its new value once more.
With(f, fd, w) == [f EXCEPT ![fd] = w]

LEMMA CountSet ==
  ASSUME NEW f, DOMAIN f = Fds, NEW fd \in Fds, NEW w, NEW g, g = With(f, fd, w), f[fd] # w
  PROVE  /\ Count(g, w) = Count(f, w) + 1 /\ Count(g, f[fd]) = Count(f, f[fd]) - 1
         /\ \A v : v # w /\ v # f[fd] => Count(g, v) = Count(f, v)
<1>1. g[fd] = w /\ \A x \in Fds : x # fd => g[x] = f[x]
  BY DEF With
<1>2. Count(g, w) = Count(f, w) + 1
  <2>1. PICK S : S = {x \in Fds : f[x] = w}
    OBVIOUS
  <2>2. {x \in Fds : g[x] = w} = S \union {fd} /\ fd \notin S
    BY <1>1, <2>1
  <2>3. IsFiniteSet(S)
    BY <2>1, FdsFinite, FS_Subset
  <2>4. Cardinality(S \union {fd}) = Cardinality(S) + 1
    BY <2>2, <2>3, FS_AddElement
  <2> QED BY <2>1, <2>2, <2>4 DEF Count
<1>3. Count(g, f[fd]) = Count(f, f[fd]) - 1
  <2>1. PICK S : S = {x \in Fds : f[x] = f[fd]}
    OBVIOUS
  <2>2. {x \in Fds : g[x] = f[fd]} = S \ {fd} /\ fd \in S
    BY <1>1, <2>1
  <2>3. IsFiniteSet(S)
    BY <2>1, FdsFinite, FS_Subset
  <2>4. Cardinality(S \ {fd}) = Cardinality(S) - 1
    BY <2>2, <2>3, FS_RemoveElement
  <2> QED BY <2>1, <2>2, <2>4 DEF Count
<1>4. ASSUME NEW v, v # w, v # f[fd] PROVE Count(g, v) = Count(f, v)
  <2>1. {x \in Fds : g[x] = v} = {x \in Fds : f[x] = v}
    BY <1>1, <1>4
  <2> QED BY <2>1 DEF Count
<1> QED BY <1>2, <1>3, <1>4

\* A table with a NULL in it does not have all the numbers.
LEMMA Pigeon ==
  ASSUME NEW f, NEW x \in Fds, f[x] = NULL
  PROVE  \E j \in 1..NFds : \A fd \in Fds : f[fd] # j
<1>1. SUFFICES ASSUME \A j \in 1..NFds : \E fd \in Fds : f[fd] = j PROVE FALSE
  OBVIOUS
<1> DEFINE T == Fds \ {x}
           h == [j \in 1..NFds |-> CHOOSE fd \in T : f[fd] = j]
<1>2. \A j \in 1..NFds : h[j] \in T /\ f[h[j]] = j
  <2> SUFFICES ASSUME NEW j \in 1..NFds PROVE h[j] \in T /\ f[h[j]] = j
    OBVIOUS
  <2>1. \E fd \in T : f[fd] = j
    BY <1>1 DEF NULL
  <2> QED BY <2>1
<1>3. \A i, j \in 1..NFds : h[i] = h[j] => i = j
  BY <1>2
<1>4. h \in [1..NFds -> T]
  BY <1>2
<1> HIDE DEF h
<1>5. h \in Injection(1..NFds, T)
  <2>1. IsInjective(h)
    BY <1>3, <1>4 DEF IsInjective
  <2> QED BY <2>1, <1>4 DEF Injection
<1>6. IsFiniteSet(T) /\ Cardinality(T) = NFds - 1
  BY FdsFinite, FS_RemoveElement
<1> HIDE DEF T
<1>7. Cardinality(1..NFds) <= Cardinality(T)
  BY <1>5, <1>6, FS_Injection
<1>8. Cardinality(1..NFds) = NFds
  BY Bounds, FS_Interval
<1> QED BY <1>6, <1>7, <1>8, Bounds

-----------------------------------------------------------------------------
(* The handles of DOS. *)

\* j and k are well-formed tables in which the handles other than fd are as in jft and sft.
Others(jft, sft, j, k, fd) ==
  /\ j \in [Fds -> 0..NFds] /\ DosOK(j, k)
  /\ \A x \in Fds : x # fd => j[x] = jft[x] /\ (j[x] # NULL => k[j[x]] = sft[jft[x]])

LEMMA Handle == ASSUME NEW v PROVE v \in 1..NFds <=> v \in 0..NFds /\ v # NULL
BY Bounds DEF NULL

LEMMA OneTo == 1..NFds \subseteq Nat
BY Bounds

Opening(jft, sft, j, k, fd, i, name) ==
  /\ jft \in [Fds -> 0..NFds] /\ DosOK(jft, sft) /\ fd \in Fds /\ jft[fd] = NULL /\ i \in 1..NFds /\ sft[i] = ""
  /\ name # "" /\ j = [jft EXCEPT ![fd] = i] /\ k = [sft EXCEPT ![i] = name]

Opened(jft, sft, j, k, fd, name) ==
  Others(jft, sft, j, k, fd) /\ j[fd] # NULL /\ k[j[fd]] = name /\ \A x \in Fds : x # fd => j[x] # j[fd]

LEMMA OpenTables ==
  ASSUME NEW jft, NEW sft, NEW j, NEW k, NEW fd, NEW i, NEW name, Opening(jft, sft, j, k, fd, i, name)
  PROVE  Opened(jft, sft, j, k, fd, name)
<1> USE DEF Opening
<1>0. i \in 0..NFds /\ i # NULL
  BY Handle
<1>1. j \in [Fds -> 0..NFds] /\ j[fd] = i /\ \A x \in Fds : x # fd => j[x] = jft[x]
  BY <1>0
<1>2. DOMAIN k = 1..NFds /\ k[i] = name /\ \A x \in 1..NFds : x # i => k[x] = sft[x]
  BY DEF DosOK
<1>3. \A x \in Fds : jft[x] # NULL => jft[x] # i /\ jft[x] \in 1..NFds
  <2> SUFFICES ASSUME NEW x \in Fds, jft[x] # NULL PROVE jft[x] # i /\ jft[x] \in 1..NFds
    OBVIOUS
  <2>1. jft[x] \in 1..NFds
    BY Handle
  <2>2. sft[jft[x]] # ""
    BY DEF DosOK
  <2> QED BY <2>1, <2>2
<1>4. \A x \in Fds : x # fd /\ j[x] # NULL => k[j[x]] = sft[jft[x]]
  BY <1>1, <1>2, <1>3
<1>5. DosOK(j, k)
  <2>1. ASSUME NEW x \in Fds, j[x] # NULL PROVE k[j[x]] # ""
    <3>1. CASE x = fd
      BY <3>1, <1>1, <1>2
    <3>2. CASE x # fd
      BY <3>2, <2>1, <1>1, <1>4 DEF DosOK
    <3> QED BY <3>1, <3>2
  <2>2. ASSUME NEW x \in 1..NFds, k[x] # "" PROVE \E y \in Fds : j[y] = x
    <3>1. CASE x = i
      BY <3>1, <1>1
    <3>2. CASE x # i
      <4>1. PICK y \in Fds : jft[y] = x
        BY <3>2, <2>2, <1>2 DEF DosOK
      <4>2. y # fd
        BY <4>1, Handle
      <4> QED BY <4>1, <4>2, <1>1
    <3> QED BY <3>1, <3>2
  <2> QED BY <2>1, <2>2, <1>2 DEF DosOK
<1>6. \A x \in Fds : x # fd => j[x] # i
  BY <1>0, <1>1, <1>3
<1> QED BY <1>0, <1>1, <1>2, <1>4, <1>5, <1>6 DEF Others, Opened

LEMMA DupTables ==
  ASSUME NEW jft \in [Fds -> 0..NFds], NEW sft, DosOK(jft, sft), NEW fd \in Fds, jft[fd] = NULL, NEW from \in Fds,
         jft[from] # NULL, NEW j, j = [jft EXCEPT ![fd] = jft[from]]
  PROVE  Others(jft, sft, j, sft, fd) /\ from # fd /\ j[fd] = j[from] /\ j[fd] = jft[from]
<1>1. from # fd /\ j \in [Fds -> 0..NFds] /\ j[fd] = jft[from] /\ \A x \in Fds : x # fd => j[x] = jft[x]
  OBVIOUS
<1>2. DosOK(j, sft)
  <2>1. \A x \in Fds : j[x] # NULL => sft[j[x]] # ""
    BY <1>1 DEF DosOK
  <2>2. ASSUME NEW x \in 1..NFds, sft[x] # "" PROVE \E y \in Fds : j[y] = x
    <3>1. PICK y \in Fds : jft[y] = x
      BY <2>2 DEF DosOK
    <3>2. y # fd
      BY <3>1 DEF NULL
    <3> QED BY <3>1, <3>2, <1>1
  <2> QED BY <2>1, <2>2 DEF DosOK
<1> QED BY <1>1, <1>2 DEF Others

Pruned(j, sft) == [i \in DOMAIN sft |-> IF \E fd \in Fds : j[fd] = i THEN sft[i] ELSE ""]

Pruning(jft, sft, j, k, fd, v) ==
  /\ jft \in [Fds -> 0..NFds] /\ DosOK(jft, sft) /\ fd \in Fds /\ (v = NULL \/ \E from \in Fds : v = jft[from])
  /\ j = [jft EXCEPT ![fd] = v] /\ k = Pruned(j, sft)

LEMMA PruneTables ==
  ASSUME NEW jft, NEW sft, NEW j, NEW k, NEW fd, NEW v, Pruning(jft, sft, j, k, fd, v)
  PROVE  Others(jft, sft, j, k, fd) /\ j[fd] = v /\ (v # NULL => k[v] = sft[v])
<1> USE DEF Pruning
<1>1. v \in 0..NFds
  BY Bounds DEF NULL
<1>2. j \in [Fds -> 0..NFds] /\ j[fd] = v /\ \A x \in Fds : x # fd => j[x] = jft[x]
  BY <1>1
<1>3. DOMAIN k = 1..NFds /\ \A i \in 1..NFds : k[i] = IF \E x \in Fds : j[x] = i THEN sft[i] ELSE ""
  BY DEF DosOK, Pruned
<1>4. \A x \in Fds : j[x] # NULL => j[x] \in 1..NFds
  BY <1>2 DEF NULL
<1>5. \A x \in Fds : j[x] # NULL => k[j[x]] = sft[j[x]]
  BY <1>3, <1>4
<1>6. \A x \in Fds : j[x] # NULL => \E y \in Fds : j[x] = jft[y]
  BY <1>2
<1>7. DosOK(j, k)
  <2>1. ASSUME NEW x \in Fds, j[x] # NULL PROVE k[j[x]] # ""
    <3>1. PICK y \in Fds : j[x] = jft[y]
      BY <2>1, <1>6
    <3>2. sft[jft[y]] # ""
      BY <2>1, <3>1 DEF DosOK
    <3> QED BY <2>1, <3>1, <3>2, <1>5
  <2>2. \A i \in 1..NFds : k[i] # "" => \E y \in Fds : j[y] = i
    BY <1>3
  <2> QED BY <2>1, <2>2, <1>3 DEF DosOK
<1> QED BY <1>2, <1>5, <1>7 DEF Others

Tables(t) == DOMAIN t = Fields /\ t.jft \in [Fds -> 0..NFds] /\ DosOK(t.jft, t.sft)

LEMMA SoundTables == ASSUME NEW t, NEW n, Sound(t, n) PROVE Tables(t)
BY DEF Sound, Base, Tables

LEMMA FdSet == Fds \subseteq Nat /\ \A fd \in Fds : fd # -1
BY Bounds DEF Fds

\* A call has returned a handle that was free.
Gets(t, u, name) ==
  /\ u.ret \in Fds /\ t.jft[u.ret] = NULL /\ Only(t, u, {"jft", "sft", "ret"})
  /\ Others(t.jft, t.sft, u.jft, u.sft, u.ret) /\ u.jft[u.ret] # NULL /\ u.sft[u.jft[u.ret]] = name

LEMMA LowestFree ==
  ASSUME NEW t, FreeHandles(t) # {}, NEW fd, fd = Min(FreeHandles(t))
  PROVE  fd \in Fds /\ t.jft[fd] = NULL
<1>1. FreeHandles(t) \subseteq Nat
  BY FdSet DEF FreeHandles
<1>2. fd \in FreeHandles(t)
  BY <1>1, LeastExists
<1> QED BY <1>2 DEF FreeHandles

LEMMA DosOpenFacts ==
  ASSUME NEW t, Tables(t), NEW name, name # "", NEW u, u = DosOpen(t, name)
  PROVE  \/ u.ret = -1 /\ Only(t, u, {"ret"})
         \/ Gets(t, u, name) /\ \A x \in Fds : x # u.ret => u.jft[x] # u.jft[u.ret]
<1>1. CASE FreeHandles(t) = {}
  BY <1>1, ReturnsOnly DEF DosOpen, Tables
<1>2. CASE FreeHandles(t) # {}
  <2>1. PICK fd : fd = Min(FreeHandles(t))
    OBVIOUS
  <2>2. fd \in Fds /\ t.jft[fd] = NULL
    BY <1>2, <2>1, LowestFree
  <2>3. PICK S : S = {j \in DOMAIN t.sft : t.sft[j] = ""}
    OBVIOUS
  <2>4. PICK i : i = Min(S)
    OBVIOUS
  <2>5. DOMAIN t.sft = 1..NFds
    BY DEF Tables, DosOK
  <2>6. S # {}
    <3>1. PICK j \in 1..NFds : \A x \in Fds : t.jft[x] # j
      BY <2>2, Pigeon
    <3>2. t.sft[j] = ""
      BY <3>1 DEF Tables, DosOK
    <3> QED BY <2>3, <2>5, <3>2
  <2>7. i \in 1..NFds /\ t.sft[i] = ""
    <3>1. S \subseteq Nat
      BY <2>3, <2>5, OneTo
    <3>2. i \in S
      BY <2>4, <2>6, <3>1, LeastExists
    <3> QED BY <2>3, <2>5, <3>2
  <2>8. u = [t EXCEPT !.jft[fd] = i, !.sft[i] = name, !.ret = fd]
    BY <1>2, <2>1, <2>3, <2>4 DEF DosOpen
  <2>9. /\ Only(t, u, {"jft", "sft", "ret"}) /\ u.ret = fd /\ u.jft = [t.jft EXCEPT ![fd] = i]
        /\ u.sft = [t.sft EXCEPT ![i] = name]
    <3>1. DOMAIN t = Fields
      BY DEF Tables
    <3> QED BY <3>1, <2>8 DEF Only, Fields
  <2>10. /\ Others(t.jft, t.sft, u.jft, u.sft, fd) /\ u.jft[fd] # NULL /\ u.sft[u.jft[fd]] = name
         /\ \A x \in Fds : x # fd => u.jft[x] # u.jft[fd]
    <3>1. t.jft \in [Fds -> 0..NFds] /\ DosOK(t.jft, t.sft)
      BY DEF Tables
    <3>2. PICK jft, sft, j, k : jft = t.jft /\ sft = t.sft /\ j = u.jft /\ k = u.sft
      OBVIOUS
    <3>3. Opening(jft, sft, j, k, fd, i, name)
      BY <3>1, <3>2, <2>2, <2>7, <2>9 DEF Opening
    <3>4. Opened(jft, sft, j, k, fd, name)
      BY <3>3, OpenTables
    <3> QED BY <3>2, <3>4 DEF Opened
  <2> QED BY <2>2, <2>9, <2>10 DEF Gets
<1> QED BY <1>1, <1>2

LEMMA DosDupFacts ==
  ASSUME NEW t, Tables(t), NEW fd \in Fds, NEW u, u = DosDup(t, fd)
  PROVE  \/ u.ret = -1 /\ Only(t, u, {"ret"})
         \/ t.jft[fd] # NULL /\ Gets(t, u, t.sft[t.jft[fd]]) /\ u.ret # fd /\ u.jft[u.ret] = u.jft[fd]
<1>1. CASE t.jft[fd] = NULL \/ FreeHandles(t) = {}
  BY <1>1, ReturnsOnly DEF DosDup, Open, Tables
<1>2. CASE t.jft[fd] # NULL /\ FreeHandles(t) # {}
  <2>1. PICK new : new = Min(FreeHandles(t))
    OBVIOUS
  <2>2. new \in Fds /\ t.jft[new] = NULL
    BY <1>2, <2>1, LowestFree
  <2>3. u = [t EXCEPT !.jft[new] = t.jft[fd], !.ret = new]
    BY <1>2, <2>1 DEF DosDup, Open
  <2>4. Only(t, u, {"jft", "sft", "ret"}) /\ u.ret = new /\ u.jft = [t.jft EXCEPT ![new] = t.jft[fd]] /\ u.sft = t.sft
    <3>1. DOMAIN t = Fields
      BY DEF Tables
    <3> QED BY <3>1, <2>3 DEF Only, Fields
  <2>5. Others(t.jft, t.sft, u.jft, t.sft, new) /\ fd # new /\ u.jft[new] = u.jft[fd] /\ u.jft[new] = t.jft[fd]
    <3>1. t.jft \in [Fds -> 0..NFds] /\ DosOK(t.jft, t.sft)
      BY DEF Tables
    <3> QED BY <3>1, <1>2, <2>2, <2>4, DupTables
  <2> QED BY <1>2, <2>2, <2>4, <2>5 DEF Gets
<1> QED BY <1>1, <1>2

LEMMA PruneFacts ==
  ASSUME NEW t, Tables(t), NEW fd \in Fds, NEW v, v = NULL \/ \E from \in Fds : v = t.jft[from],
         NEW u, u = Prune([t EXCEPT !.jft[fd] = v])
  PROVE  /\ Only(t, u, {"jft", "sft"}) /\ Others(t.jft, t.sft, u.jft, u.sft, fd) /\ u.jft[fd] = v
         /\ (v # NULL => u.sft[v] = t.sft[v])
<1>1. DOMAIN t = Fields /\ t.jft \in [Fds -> 0..NFds] /\ DosOK(t.jft, t.sft)
  BY DEF Tables
<1>2. PICK w : w = [t EXCEPT !.jft[fd] = v]
  OBVIOUS
<1>3. Only(t, w, {"jft"}) /\ w.jft = [t.jft EXCEPT ![fd] = v] /\ w.sft = t.sft
  BY <1>1, <1>2 DEF Only, Fields
<1>4. Only(w, u, {"sft"}) /\ u.sft = Pruned(w.jft, w.sft)
  <2>1. DOMAIN w = Fields /\ u = Prune(w)
    BY <1>2, <1>3 DEF Only
  <2> QED BY <2>1 DEF Only, Fields, Prune, Pruned
<1>5. u.jft = w.jft
  BY <1>4 DEF Only, Fields
<1>6. Only(t, u, {"jft", "sft"})
  BY <1>3, <1>4, OnlyTwice, OnlyMore
<1>7. Others(t.jft, t.sft, u.jft, u.sft, fd) /\ u.jft[fd] = v /\ (v # NULL => u.sft[v] = t.sft[v])
  <2>1. PICK jft, sft, j, k : jft = t.jft /\ sft = t.sft /\ j = u.jft /\ k = u.sft
    OBVIOUS
  <2>2. Pruning(jft, sft, j, k, fd, v)
    BY <2>1, <1>1, <1>3, <1>4, <1>5 DEF Pruning
  <2>3. Others(jft, sft, j, k, fd) /\ j[fd] = v /\ (v # NULL => k[v] = sft[v])
    BY <2>2, PruneTables
  <2> QED BY <2>1, <2>3
<1> QED BY <1>6, <1>7

-----------------------------------------------------------------------------
(* What one handle more, less or moved does to the tables that follow. *)

LEMMA FuncKept ==
  ASSUME NEW jft, NEW sft, NEW func, FuncOK(jft, sft, func), NEW j, NEW k, NEW fd, Others(jft, sft, j, k, fd), NEW f,
         \A x \in Fds : x # fd => f[x] = func[x], f[fd] => j[fd] # NULL /\ k[j[fd]] = "nul"
  PROVE  FuncOK(j, k, f)
BY DEF FuncOK, Others

NulSame(fd, func, data, props, f, d, q, nul) ==
  /\ nul # -1 => nul \in Fds /\ nul # fd /\ f[nul] = func[nul] /\ d[nul] = data[nul] /\ q[nul] = props[nul]
  /\ nul = -1 => d = data

LEMMA NulKept ==
  ASSUME NEW jft, NEW sft, NEW func, NEW data, NEW props, NEW nul, NulOK(jft, sft, func, data, props, nul),
         NEW j, NEW k, NEW fd, Others(jft, sft, j, k, fd), NEW f, NEW d, NEW q,
         NulSame(fd, func, data, props, f, d, q, nul)
  PROVE  NulOK(j, k, f, d, q, nul)
<1>1. CASE nul = -1
  BY <1>1 DEF NulOK, NulSame
<1>2. CASE nul # -1
  <2>1. nul \in Fds /\ nul # fd /\ f[nul] = func[nul] /\ d[nul] = data[nul] /\ q[nul] = props[nul]
    BY <1>2 DEF NulSame
  <2>2. j[nul] = jft[nul] /\ (j[nul] # NULL => k[j[nul]] = sft[jft[nul]])
    BY <2>1 DEF Others
  <2> QED BY <1>2, <2>1, <2>2 DEF NulOK
<1> QED BY <1>1, <1>2

\* The properties of the other descriptors are as they were.
PropsSame(fd, props, obj, q, ob) ==
  \A x \in Fds : x # fd => q[x] = props[x] /\ (q[x] # NULL => ob[q[x]].filename = obj[q[x]].filename)

\* Those of fd follow its handle.
PropsFollow(fd, j, k, q, ob) ==
  q[fd] # NULL => /\ j[fd] # NULL /\ Fits(ob[q[fd]].filename, k[j[fd]])
                  /\ \A x \in Fds : q[x] = q[fd] => j[x] = j[fd]

LEMMA FollowKept ==
  ASSUME NEW jft, NEW sft, NEW props, NEW obj, FollowOK(jft, sft, props, obj), NEW j, NEW k, NEW fd,
         Others(jft, sft, j, k, fd), NEW q, NEW ob, PropsSame(fd, props, obj, q, ob), PropsFollow(fd, j, k, q, ob)
  PROVE  FollowOK(j, k, q, ob)
<1> SUFFICES ASSUME NEW x \in Fds, q[x] # NULL
             PROVE  /\ j[x] # NULL /\ Fits(ob[q[x]].filename, k[j[x]])
                    /\ \A other \in Fds : q[other] = q[x] => j[other] = j[x]
  BY DEF FollowOK
<1>1. CASE x = fd
  BY <1>1 DEF PropsFollow
<1>2. CASE x # fd
  <2>1. q[x] = props[x] /\ ob[q[x]].filename = obj[props[x]].filename
    BY <1>2 DEF PropsSame
  <2>2. jft[x] # NULL /\ Fits(obj[props[x]].filename, sft[jft[x]]) /\ \A y \in Fds : props[y] = props[x] => jft[y] = jft[x]
    BY <2>1 DEF FollowOK
  <2>3. j[x] = jft[x] /\ k[j[x]] = sft[jft[x]]
    BY <1>2, <2>2 DEF Others
  <2>4. ASSUME NEW y \in Fds, q[y] = q[x] PROVE j[y] = j[x]
    <3>1. CASE y = fd
      BY <3>1, <2>4 DEF PropsFollow
    <3>2. CASE y # fd
      <4>1. q[y] = props[y] /\ j[y] = jft[y]
        BY <3>2 DEF PropsSame, Others
      <4> QED BY <4>1, <2>1, <2>2, <2>3, <2>4
    <3> QED BY <3>1, <3>2
  <2> QED BY <2>1, <2>2, <2>3, <2>4
<1> QED BY <1>1, <1>2

-----------------------------------------------------------------------------
(* Lists of objects. *)

\* Only links differ.
SameData(obj, ob) ==
  \A o \in Objs : ob[o].ref_count = obj[o].ref_count /\ ob[o].filename = obj[o].filename /\ ob[o].flags = obj[o].flags

LEMMA SameTwice ==
  ASSUME NEW obj, NEW ob, NEW oc, SameData(obj, ob), SameData(ob, oc) PROVE SameData(obj, oc)
BY DEF SameData

LEMMA SetLink ==
  ASSUME NEW obj, NEW n, ObjTyped(obj, n), NEW o \in Objs, NEW v \in 0..n, NEW ob,
         ob = [obj EXCEPT ![o].next = v] \/ ob = [obj EXCEPT ![o].prev = v]
  PROVE  ObjTyped(ob, n) /\ SameData(obj, ob)
<1>1. CASE ob = [obj EXCEPT ![o].next = v]
  <2>1. ObjTyped(ob, n)
    BY <1>1 DEF ObjTyped, Entries
  <2>2. SameData(obj, ob)
    BY <1>1 DEF SameData, ObjTyped, Entries
  <2> QED BY <2>1, <2>2
<1>2. CASE ob = [obj EXCEPT ![o].prev = v]
  <2>1. ObjTyped(ob, n)
    BY <1>2 DEF ObjTyped, Entries
  <2>2. SameData(obj, ob)
    BY <1>2 DEF SameData, ObjTyped, Entries
  <2> QED BY <2>1, <2>2
<1> QED BY <1>1, <1>2

Lists == {"active", "cached"}

LEMMA Pointer == ASSUME NEW n \in 0..NObjs, NEW v \in 0..n, v # NULL PROVE v \in Objs /\ v \in 1..n
BY Bounds DEF Objs, NULL

LEMMA NullPointer == ASSUME NEW n \in 0..NObjs PROVE NULL \in 0..n
BY Bounds DEF NULL

LEMMA Index == ASSUME NEW n \in 0..NObjs, NEW o \in 1..n PROVE o \in Objs /\ o \in 0..n /\ o # NULL
BY Bounds DEF Objs, NULL

LEMMA OnlyChain ==
  ASSUME NEW t, NEW u, NEW v, NEW K, NEW L, NEW M, Only(t, u, K), Only(u, v, L), K \subseteq M, L \subseteq M
  PROVE  Only(t, v, M)
BY DEF Only

\* insert_list puts the object at the head and touches nothing but links.
LEMMA InsertFacts ==
  ASSUME NEW t, NEW n \in 0..NObjs, NEW list \in Lists, NEW item \in 1..n, DOMAIN t = Fields, ObjTyped(t.obj, n),
         t[list] \in 0..n, NEW u, u = insert_list(t, list, item)
  PROVE  Only(t, u, {"obj", list}) /\ u[list] = item /\ ObjTyped(u.obj, n) /\ SameData(t.obj, u.obj)
<1>1. PICK h : h = t[list]
  OBVIOUS
<1>2. item \in Objs /\ item \in 0..n
  BY Bounds DEF Objs
<1>3. PICK w : w = [t EXCEPT ![list] = item, !.obj[item].next = h, !.obj[item].prev = NULL]
  OBVIOUS
<1>4. PICK a : a = [t.obj EXCEPT ![item].next = h]
  OBVIOUS
<1>5. Only(t, w, {"obj", list}) /\ w[list] = item /\ w.obj = [a EXCEPT ![item].prev = NULL]
  BY <1>3, <1>4 DEF Only, Fields, Lists
<1>6. ObjTyped(a, n) /\ SameData(t.obj, a)
  BY <1>1, <1>2, <1>4, SetLink
<1>7. ObjTyped(w.obj, n) /\ SameData(t.obj, w.obj)
  <2>1. PICK b : b = w.obj
    OBVIOUS
  <2>2. ObjTyped(b, n) /\ SameData(a, b)
    <3>1. NULL \in 0..n
      BY NullPointer
    <3>2. b = [a EXCEPT ![item].prev = NULL]
      BY <2>1, <1>5
    <3> HIDE <2>1
    <3> QED BY <3>1, <3>2, <1>2, <1>6, SetLink
  <2> QED BY <2>1, <2>2, <1>6, SameTwice
<1>8. CASE h = NULL
  <2>1. u = w
    BY <1>1, <1>3, <1>8 DEF insert_list
  <2> QED BY <2>1, <1>5, <1>7
<1>9. CASE h # NULL
  <2>1. u = [w EXCEPT !.obj[h].prev = item]
    BY <1>1, <1>3, <1>9 DEF insert_list
  <2>2. DOMAIN w = Fields
    BY <1>5 DEF Only
  <2>3. Only(w, u, {"obj"}) /\ u[list] = w[list] /\ u.obj = [w.obj EXCEPT ![h].prev = item]
    BY <2>1, <2>2 DEF Only, Fields, Lists
  <2>4. Only(t, u, {"obj", list})
    BY <2>3, <1>5, OnlyTwice, OnlyMore
  <2>5. PICK b, c : b = w.obj /\ c = u.obj
    OBVIOUS
  <2>6. h \in Objs
    BY <1>1, <1>9, Pointer
  <2>7. ObjTyped(c, n) /\ SameData(b, c)
    BY <2>3, <2>5, <2>6, <1>2, <1>7, SetLink
  <2> QED BY <2>3, <2>4, <2>5, <2>7, <1>5, <1>7, SameTwice
<1> QED BY <1>8, <1>9

LEMMA CutFacts ==
  ASSUME NEW t, NEW n \in 0..NObjs, NEW item \in 1..n, DOMAIN t = Fields, ObjTyped(t.obj, n),
         NEW u, u = CutPrev(t, item) \/ u = CutNext(t, item)
  PROVE  Only(t, u, {"obj"}) /\ ObjTyped(u.obj, n) /\ SameData(t.obj, u.obj)
<1>1. PICK b, p, q : b = t.obj /\ p = b[item].prev /\ q = b[item].next
  OBVIOUS
<1>2. item \in Objs /\ p \in 0..n /\ q \in 0..n
  <2>1. item \in Objs
    BY Bounds DEF Objs
  <2> QED BY <2>1, <1>1 DEF ObjTyped, Entries
<1>3. CASE u = t
  BY <1>3 DEF Only, SameData
<1>4. CASE p # NULL /\ u = [t EXCEPT !.obj[p].next = q, !.obj[item].prev = NULL]
  <2>1. PICK a : a = [b EXCEPT ![p].next = q]
    OBVIOUS
  <2>2. Only(t, u, {"obj"}) /\ u.obj = [a EXCEPT ![item].prev = NULL]
    BY <1>1, <1>4, <2>1 DEF Only, Fields
  <2>3. ObjTyped(a, n) /\ SameData(b, a)
    BY <1>1, <1>2, <1>4, <2>1, Pointer, SetLink
  <2>4. PICK c : c = u.obj
    OBVIOUS
  <2>5. ObjTyped(c, n) /\ SameData(a, c)
    BY <1>2, <2>2, <2>3, <2>4, NullPointer, SetLink
  <2> QED BY <1>1, <2>2, <2>3, <2>4, <2>5, SameTwice
<1>5. CASE q # NULL /\ u = [t EXCEPT !.obj[q].prev = p, !.obj[item].next = NULL]
  <2>1. PICK a : a = [b EXCEPT ![q].prev = p]
    OBVIOUS
  <2>2. Only(t, u, {"obj"}) /\ u.obj = [a EXCEPT ![item].next = NULL]
    BY <1>1, <1>5, <2>1 DEF Only, Fields
  <2>3. ObjTyped(a, n) /\ SameData(b, a)
    BY <1>1, <1>2, <1>5, <2>1, Pointer, SetLink
  <2>4. PICK c : c = u.obj
    OBVIOUS
  <2>5. ObjTyped(c, n) /\ SameData(a, c)
    BY <1>2, <2>2, <2>3, <2>4, NullPointer, SetLink
  <2> QED BY <1>1, <2>2, <2>3, <2>4, <2>5, SameTwice
<1> QED BY <1>1, <1>3, <1>4, <1>5 DEF CutPrev, CutNext

Removed(t, u, n, list, item) ==
  /\ Only(t, u, {"obj", list}) /\ u[list] = (IF t[list] = item THEN NULL ELSE t[list])
  /\ ObjTyped(u.obj, n) /\ SameData(t.obj, u.obj)

\* remove_list touches nothing but links, and empties the list if the object is its head.
LEMMA RemoveFacts ==
  ASSUME NEW t, NEW n \in 0..NObjs, NEW list \in Lists, NEW item \in 1..n, DOMAIN t = Fields, ObjTyped(t.obj, n),
         t[list] \in 0..n, NEW u, u = remove_list(t, list, item)
  PROVE  Removed(t, u, n, list, item)
<1>1. PICK v, w : v = CutPrev(t, item) /\ w = CutNext(v, item)
  OBVIOUS
<1>2. Only(t, v, {"obj"}) /\ ObjTyped(v.obj, n) /\ SameData(t.obj, v.obj)
  BY <1>1, CutFacts
<1>3. DOMAIN v = Fields
  BY <1>2 DEF Only
<1>4. Only(v, w, {"obj"}) /\ ObjTyped(w.obj, n) /\ SameData(v.obj, w.obj)
  BY <1>1, <1>2, <1>3, CutFacts
<1>5. DOMAIN w = Fields /\ w[list] = t[list]
  BY <1>2, <1>4 DEF Only, Fields, Lists
<1>6. w.obj[item].next = NULL
  <2>1. CASE v.obj[item].next = NULL
    BY <2>1, <1>1 DEF CutNext
  <2>2. CASE v.obj[item].next # NULL
    <3>1. w = [v EXCEPT !.obj[v.obj[item].next].prev = v.obj[item].prev, !.obj[item].next = NULL]
      BY <2>2, <1>1 DEF CutNext
    <3>2. item \in Objs
      BY Bounds DEF Objs
    <3>3. PICK b, p, q : b = v.obj /\ p = b[item].prev /\ q = b[item].next
      OBVIOUS
    <3>4. PICK a : a = [b EXCEPT ![q].prev = p]
      OBVIOUS
    <3>5. w.obj = [a EXCEPT ![item].next = NULL]
      BY <3>1, <3>3, <3>4, <1>3 DEF Fields
    <3>6. p \in 0..n /\ q \in 0..n
      BY <3>2, <3>3, <1>2 DEF ObjTyped, Entries
    <3>7. ObjTyped(a, n)
      BY <3>3, <3>4, <3>6, <2>2, <1>2, Pointer, SetLink
    <3>8. DOMAIN a = Objs /\ DOMAIN a[item] = {"ref_count", "filename", "flags", "prev", "next"}
      BY <3>2, <3>7 DEF ObjTyped, Entries
    <3>9. PICK c : c = [a EXCEPT ![item].next = NULL]
      OBVIOUS
    <3>10. c[item].next = NULL
      BY <3>2, <3>8, <3>9
    <3> QED BY <3>5, <3>9, <3>10
  <2> QED BY <2>1, <2>2
<1>7. u = [w EXCEPT ![list] = IF w[list] = item THEN NULL ELSE w[list]]
  BY <1>1, <1>6 DEF remove_list
<1>8. Only(w, u, {list}) /\ u.obj = w.obj /\ u[list] = (IF t[list] = item THEN NULL ELSE t[list])
  BY <1>5, <1>7 DEF Only, Fields, Lists
<1>9. Only(t, u, {"obj", list})
  BY <1>2, <1>4, <1>8, OnlyTwice, OnlyMore
<1> QED BY <1>2, <1>4, <1>8, <1>9, SameTwice DEF Removed

-----------------------------------------------------------------------------
(* malloc. *)

LinkedTo(obj, S) == S \union UNION {{obj[o].prev, obj[o].next} : o \in S \ {NULL}}
Roots(t) == {t.props[fd] : fd \in Fds} \union {t.active, t.cached}

Pointers(t, n) ==
  DOMAIN t = Fields /\ t.props \in [Fds -> 0..n] /\ ObjTyped(t.obj, n) /\ t.active \in 0..n /\ t.cached \in 0..n

LEMMA LinkedType ==
  ASSUME NEW obj, NEW n \in 0..NObjs, ObjTyped(obj, n), NEW S, S \in SUBSET (0..n)
  PROVE  LinkedTo(obj, S) \in SUBSET (0..n) /\ S \subseteq LinkedTo(obj, S)
<1>1. ASSUME NEW o \in S \ {NULL} PROVE {obj[o].prev, obj[o].next} \subseteq 0..n
  <2>1. o \in 0..n /\ o # NULL
    BY <1>1
  <2>2. o \in Objs
    BY <2>1, Pointer
  <2> QED BY <2>2 DEF ObjTyped, Entries
<1>2. ASSUME NEW x \in UNION {{obj[o].prev, obj[o].next} : o \in S \ {NULL}} PROVE x \in 0..n
  <2>1. PICK o \in S \ {NULL} : x \in {obj[o].prev, obj[o].next}
    BY <1>2
  <2> QED BY <2>1, <1>1
<1>3. PICK U : U = UNION {{obj[o].prev, obj[o].next} : o \in S \ {NULL}}
  OBVIOUS
<1>4. U \subseteq 0..n
  BY <1>2, <1>3
<1>5. LinkedTo(obj, S) = S \union U
  BY <1>3 DEF LinkedTo
<1> QED BY <1>4, <1>5

\* What no pointer leads to lies beyond n or is free, and descriptors have no such object.
LEMMA LiveFacts ==
  ASSUME NEW t, NEW n \in 0..NObjs, Pointers(t, n)
  PROVE  Live(t) \subseteq 1..n /\ \A fd \in Fds : t.props[fd] # NULL => t.props[fd] \in Live(t)
<1> DEFINE Cell(f, i) == IF i = 0 THEN Roots(t) ELSE LinkedTo(t.obj, f[i - 1])
           Solves(f) == f = [i \in 0..NObjs |-> Cell(f, i)]
<1>1. PICK S, c : S = SUBSET (0..n) /\ c = Roots(t)
  OBVIOUS
<1>2. c \in S
  BY <1>1 DEF Roots, Pointers
<1>3. PICK step : step = [i \in Nat |-> [x \in S |-> LinkedTo(t.obj, x)]]
  OBVIOUS
<1>4. ASSUME NEW x \in S PROVE LinkedTo(t.obj, x) \in S /\ x \subseteq LinkedTo(t.obj, x)
  BY <1>1, LinkedType DEF Pointers
<1>5. step \in Steps(S) /\ \A x \in S, i \in Nat : step[i][x] = LinkedTo(t.obj, x)
  BY <1>3, <1>4 DEF Steps
<1>6. PICK f : Follows(f, S, c, NObjs, step)
  BY <1>2, <1>5, Bounds, RecursionExists
<1>7. f \in [0..NObjs -> S] /\ f[0] = c /\ \A i \in 1..NObjs : f[i] = step[i][f[i - 1]]
  BY <1>6 DEF Follows
<1>8. ASSUME NEW i \in 1..NObjs PROVE f[i] = LinkedTo(t.obj, f[i - 1])
  <2>1. f[i - 1] \in S /\ i \in Nat
    BY <1>7, Bounds
  <2> QED BY <2>1, <1>5, <1>7
<1>9. Solves(f)
  <2>1. ASSUME NEW i \in 0..NObjs PROVE f[i] = Cell(f, i)
    <3>1. CASE i = 0
      BY <3>1, <1>1, <1>7, Zenon
    <3>2. CASE i \in 1..NObjs
      <4>1. i # 0
        BY <3>2, Bounds
      <4> QED BY <3>2, <4>1, <1>8, Zenon
    <3> QED BY <3>1, <3>2, Bounds
  <2> HIDE DEF Cell
  <2> QED BY <1>7, <2>1
<1>10. Live(t) = (CHOOSE g : Solves(g))[NObjs] \ {NULL}
  BY DEF Live, LinkedTo, Roots
<1>11. PICK g : g = CHOOSE x : Solves(x)
  OBVIOUS
<1>12. Solves(g)
  <2> HIDE DEF Solves
  <2> QED BY <1>9, <1>11
<1>13. \A i \in 0..NObjs : g[i] = Cell(g, i)
  <2> HIDE DEF Cell
  <2> QED BY <1>12
<1>14. ASSUME NEW i \in Nat, i + 1 \in 0..NObjs PROVE g[i + 1] = LinkedTo(t.obj, g[i])
  <2>1. i + 1 # 0 /\ (i + 1) - 1 = i
    OBVIOUS
  <2> QED BY <2>1, <1>13, <1>14
<1> DEFINE T == {i \in Nat : i \in 0..NObjs => g[i] \in S /\ c \subseteq g[i]}
<1>15. 0 \in T
  BY <1>1, <1>2, <1>13
<1>16. ASSUME NEW i \in Nat, i \in T PROVE i + 1 \in T
  <2> SUFFICES ASSUME i + 1 \in 0..NObjs PROVE g[i + 1] \in S /\ c \subseteq g[i + 1]
    OBVIOUS
  <2>1. g[i] \in S /\ c \subseteq g[i]
    BY <1>16, Bounds
  <2>2. g[i + 1] = LinkedTo(t.obj, g[i])
    BY <1>14
  <2> QED BY <2>1, <2>2, <1>4
<1> HIDE DEF T
<1>17. Nat \subseteq T
  BY <1>15, <1>16, SetInduction
<1>18. g[NObjs] \in S /\ c \subseteq g[NObjs]
  BY <1>17, Bounds DEF T
<1>19. Live(t) = g[NObjs] \ {NULL}
  BY <1>10, <1>11, Zenon
<1>20. Live(t) \subseteq 1..n
  <2>1. \A x \in 0..n : x # NULL => x \in 1..n
    BY Pointer
  <2> QED BY <2>1, <1>1, <1>18, <1>19
<1>21. \A fd \in Fds : t.props[fd] \in c
  BY <1>1 DEF Roots
<1> QED BY <1>18, <1>19, <1>20, <1>21

\* Nothing but links differs except in the object o.
DataBut(obj, ob, o) ==
  \A p \in Objs : p # o => /\ ob[p].ref_count = obj[p].ref_count /\ ob[p].filename = obj[p].filename
                           /\ ob[p].flags = obj[p].flags

LEMMA SameBut ==
  ASSUME NEW obj, NEW ob, NEW oc, NEW o
  PROVE  /\ SameData(obj, ob) => DataBut(obj, ob, o)
         /\ DataBut(obj, ob, o) /\ DataBut(ob, oc, o) => DataBut(obj, oc, o)
BY DEF SameData, DataBut

LEMMA TypedMore ==
  ASSUME NEW obj, NEW n \in 0..NObjs, n + 1 \in 0..NObjs, ObjTyped(obj, n) PROVE ObjTyped(obj, n + 1)
<1>1. 0..n \subseteq 0..(n + 1)
  BY Bounds
<1>2. Entries(n) \subseteq Entries(n + 1)
  BY <1>1 DEF Entries
<1> QED BY <1>2 DEF ObjTyped

WithCount(obj, o, v) == [obj EXCEPT ![o].ref_count = v]
WithName(obj, o, v) == [obj EXCEPT ![o].filename = v]
WithFlags(obj, o, v) == [obj EXCEPT ![o].flags = v]

LEMMA SetCount ==
  ASSUME NEW obj, NEW n, ObjTyped(obj, n), NEW o \in Objs, NEW v \in 0..NFds, NEW ob, ob = WithCount(obj, o, v)
  PROVE  /\ ObjTyped(ob, n) /\ DataBut(obj, ob, o) /\ ob[o].ref_count = v /\ ob[o].filename = obj[o].filename
         /\ ob[o].flags = obj[o].flags
<1> USE DEF WithCount
<1>1. ObjTyped(ob, n)
  BY DEF ObjTyped, Entries
<1>2. DataBut(obj, ob, o)
  BY DEF ObjTyped, Entries, DataBut
<1> QED BY <1>1, <1>2 DEF ObjTyped, Entries

LEMMA SetName ==
  ASSUME NEW obj, NEW n, ObjTyped(obj, n), NEW o \in Objs, NEW v \in FileNames, NEW ob,
         ob = WithName(obj, o, v)
  PROVE  /\ ObjTyped(ob, n) /\ DataBut(obj, ob, o) /\ ob[o].ref_count = obj[o].ref_count /\ ob[o].filename = v
         /\ ob[o].flags = obj[o].flags
<1> USE DEF WithName
<1>1. ObjTyped(ob, n)
  BY DEF ObjTyped, Entries
<1>2. DataBut(obj, ob, o)
  BY DEF ObjTyped, Entries, DataBut
<1> QED BY <1>1, <1>2 DEF ObjTyped, Entries

LEMMA SetFlags ==
  ASSUME NEW obj, NEW n, ObjTyped(obj, n), NEW o \in Objs, NEW v \in SUBSET Flags, NEW ob,
         ob = WithFlags(obj, o, v)
  PROVE  /\ ObjTyped(ob, n) /\ DataBut(obj, ob, o) /\ ob[o].ref_count = obj[o].ref_count
         /\ ob[o].filename = obj[o].filename /\ ob[o].flags = v
<1> USE DEF WithFlags
<1>1. ObjTyped(ob, n)
  BY DEF ObjTyped, Entries
<1>2. DataBut(obj, ob, o)
  BY DEF ObjTyped, Entries, DataBut
<1> QED BY <1>1, <1>2 DEF ObjTyped, Entries

Freshened(obj, ob, o) == ob = [obj EXCEPT ![o].prev = NULL, ![o].next = NULL, ![o].ref_count = 1]

LEMMA FreshEntry ==
  ASSUME NEW obj, NEW n \in 0..NObjs, ObjTyped(obj, n), NEW o \in Objs, NEW ob, Freshened(obj, ob, o)
  PROVE  ObjTyped(ob, n) /\ DataBut(obj, ob, o) /\ ob[o].ref_count = 1
<1>1. NULL \in 0..n /\ 1 \in 0..NFds
  BY NullPointer, Bounds
<1>2. PICK a : a = [obj EXCEPT ![o].prev = NULL]
  OBVIOUS
<1>3. PICK b : b = [a EXCEPT ![o].next = NULL]
  OBVIOUS
<1>4. ob = [b EXCEPT ![o].ref_count = 1]
  BY <1>2, <1>3 DEF Freshened
<1>5. ObjTyped(a, n) /\ SameData(obj, a)
  BY <1>1, <1>2, SetLink
<1>6. ObjTyped(b, n) /\ SameData(a, b)
  BY <1>1, <1>3, <1>5, SetLink
<1>7. ObjTyped(ob, n) /\ DataBut(b, ob, o) /\ ob[o].ref_count = 1
  <2>1. PICK v : v = 1
    OBVIOUS
  <2>2. v \in 0..NFds /\ ob = WithCount(b, o, v)
    BY <2>1, <1>1, <1>4 DEF WithCount
  <2>3. ObjTyped(ob, n) /\ DataBut(b, ob, o) /\ ob[o].ref_count = v
    BY <2>2, <1>6, SetCount
  <2> QED BY <2>1, <2>3
<1> QED BY <1>5, <1>6, <1>7, SameBut

\* alloc_fd_properties returns an object that no descriptor has, and the cache is empty.
Allocated(t, u, n) ==
  /\ Only(t, u, {"obj", "cached", "ret"}) /\ Pointers(u, n + 1) /\ u.cached = NULL
  /\ u.ret \in 1..(n + 1) /\ (\A fd \in Fds : t.props[fd] # u.ret)
  /\ DataBut(t.obj, u.obj, u.ret) /\ u.obj[u.ret].ref_count = 1

Fresh(u, o) == [u EXCEPT !.obj[o].prev = NULL, !.obj[o].next = NULL, !.obj[o].ref_count = 1, !.ret = o]

LEMMA FreshFacts ==
  ASSUME NEW t, NEW n \in 0..NObjs, Pointers(t, n), NEW o \in Objs, NEW u, u = Fresh(t, o)
  PROVE  /\ Only(t, u, {"obj", "ret"}) /\ u.ret = o /\ ObjTyped(u.obj, n) /\ DataBut(t.obj, u.obj, o)
         /\ u.obj[o].ref_count = 1
<1>1. Only(t, u, {"obj", "ret"}) /\ u.ret = o /\ u.obj = [t.obj EXCEPT ![o].prev = NULL, ![o].next = NULL, ![o].ref_count = 1]
  BY DEF Fresh, Only, Fields, Pointers
<1>2. PICK a, b : a = t.obj /\ b = u.obj
  OBVIOUS
<1>3. ObjTyped(b, n) /\ DataBut(a, b, o) /\ b[o].ref_count = 1
  <2>1. ObjTyped(a, n) /\ Freshened(a, b, o)
    BY <1>1, <1>2 DEF Pointers, Freshened
  <2> QED BY <2>1, FreshEntry
<1> QED BY <1>1, <1>2, <1>3

LEMMA AllocFacts ==
  ASSUME NEW t, NEW n \in 0..NObjs, n + 1 \in 0..NObjs, Pointers(t, n), CachedOK(t.props, t.cached),
         NEW u, u = alloc_fd_properties(t)
  PROVE  Allocated(t, u, n)
<1>0. 0..n \subseteq 0..(n + 1) /\ 1..n \subseteq 1..(n + 1) /\ n + 1 \in 1..(n + 1)
  BY Bounds
<1>1. CASE t.cached = NULL
  <2>1. PICK o : o = Min(Objs \ Live(t))
    OBVIOUS
  <2>2. u = Fresh(t, o)
    BY <1>1, <2>1 DEF alloc_fd_properties, Fresh
  <2>3. Live(t) \subseteq 1..n /\ \A fd \in Fds : t.props[fd] # NULL => t.props[fd] \in Live(t)
    BY LiveFacts
  <2>4. n + 1 \in Objs \ Live(t)
    <3>1. n + 1 \in Objs /\ n + 1 \notin 1..n
      BY Bounds DEF Objs
    <3> QED BY <3>1, <2>3
  <2>5. o \in Objs /\ o \notin Live(t) /\ o <= n + 1
    <3>1. Objs \ Live(t) \subseteq Nat
      BY Bounds DEF Objs
    <3> QED BY <2>1, <2>4, <3>1, LeastExists
  <2>6. o \in 1..(n + 1) /\ o # NULL
    BY <2>5, Bounds DEF Objs, NULL
  <2>7. \A fd \in Fds : t.props[fd] # o
    BY <2>3, <2>5, <2>6
  <2>8. /\ Only(t, u, {"obj", "ret"}) /\ u.ret = o /\ ObjTyped(u.obj, n) /\ DataBut(t.obj, u.obj, o)
        /\ u.obj[o].ref_count = 1
    BY <2>2, <2>5, FreshFacts
  <2>9. ObjTyped(u.obj, n + 1)
    BY <2>8, TypedMore
  <2>10. u.props = t.props /\ u.active = t.active /\ u.cached = t.cached /\ DOMAIN u = Fields
    BY <2>8 DEF Only, Fields
  <2>11. Pointers(u, n + 1)
    BY <2>9, <2>10, <1>0 DEF Pointers
  <2>12. Only(t, u, {"obj", "cached", "ret"})
    BY <2>8, OnlyMore
  <2> QED BY <1>1, <2>6, <2>7, <2>8, <2>10, <2>11, <2>12 DEF Allocated
<1>2. CASE t.cached # NULL
  <2>1. PICK o, v : o = t.cached /\ v = remove_list(t, "cached", o)
    OBVIOUS
  <2>2. u = Fresh(v, o)
    BY <1>2, <2>1 DEF alloc_fd_properties, Fresh
  <2>3. o \in Objs /\ o \in 1..n
    BY <1>2, <2>1, Pointer DEF Pointers
  <2>4. Only(t, v, {"obj", "cached"}) /\ v.cached = NULL /\ ObjTyped(v.obj, n) /\ SameData(t.obj, v.obj)
    <3>1. "cached" \in Lists /\ t["cached"] = o /\ t["cached"] \in 0..n /\ DOMAIN t = Fields /\ ObjTyped(t.obj, n)
      BY <2>1 DEF Lists, Pointers
    <3>2. Removed(t, v, n, "cached", o)
      BY <3>1, <2>1, <2>3, RemoveFacts
    <3> QED BY <3>1, <3>2 DEF Removed
  <2>5. v.props = t.props /\ v.active = t.active /\ DOMAIN v = Fields
    BY <2>4 DEF Only, Fields
  <2>6. Pointers(v, n)
    BY <2>4, <2>5, NullPointer DEF Pointers
  <2>7. /\ Only(v, u, {"obj", "ret"}) /\ u.ret = o /\ ObjTyped(u.obj, n) /\ DataBut(v.obj, u.obj, o)
        /\ u.obj[o].ref_count = 1
    BY <2>2, <2>3, <2>6, FreshFacts
  <2>8. DataBut(t.obj, u.obj, o)
    BY <2>4, <2>7, SameBut
  <2>9. ObjTyped(u.obj, n + 1)
    BY <2>7, TypedMore
  <2>10. u.props = v.props /\ u.active = v.active /\ u.cached = v.cached /\ DOMAIN u = Fields
    BY <2>7 DEF Only, Fields
  <2>11. Pointers(u, n + 1)
    BY <2>6, <2>9, <2>10, <1>0 DEF Pointers
  <2>12. Only(t, u, {"obj", "cached", "ret"})
    BY <2>4, <2>7, OnlyTwice, OnlyMore
  <2>13. \A fd \in Fds : t.props[fd] # o
    BY <1>2, <2>1 DEF CachedOK
  <2> QED BY <2>3, <2>4, <2>7, <2>8, <2>10, <2>11, <2>12, <2>13, <1>0 DEF Allocated
<1> QED BY <1>1, <1>2

\* __set_fd_properties for a descriptor without properties gives it an object of its own.
Given(t, u, n, fd, o, file, temp) ==
  /\ Only(t, u, {"obj", "cached", "active", "props", "ret"}) /\ Pointers(u, n + 1) /\ u.cached = NULL
  /\ o \in Objs /\ (\A x \in Fds : t.props[x] # o) /\ u.props = [t.props EXCEPT ![fd] = o]
  /\ DataBut(t.obj, u.obj, o) /\ u.obj[o].ref_count = 1 /\ u.obj[o].filename = file
  /\ (temp => "TEMPORARY" \in u.obj[o].flags)

EnterProps(t, fd, o, file) == [t EXCEPT !.props[fd] = o, !.obj[o].filename = file]

PropsEntered(t, u, m, fd, o, file) ==
  /\ Only(t, u, {"props", "obj"}) /\ u.props = [t.props EXCEPT ![fd] = o] /\ Pointers(u, m)
  /\ DataBut(t.obj, u.obj, o) /\ u.obj[o].ref_count = t.obj[o].ref_count /\ u.obj[o].filename = file

LEMMA EnterFacts ==
  ASSUME NEW t, NEW m \in 0..NObjs, Pointers(t, m), NEW fd \in Fds, NEW o \in 1..m,
         NEW file \in FileNames, NEW u, u = EnterProps(t, fd, o, file)
  PROVE  PropsEntered(t, u, m, fd, o, file)
<1>0. o \in Objs /\ o \in 0..m
  BY Index
<1>1. /\ Only(t, u, {"props", "obj"}) /\ u.props = [t.props EXCEPT ![fd] = o] /\ u.obj = WithName(t.obj, o, file)
      /\ u.active = t.active /\ u.cached = t.cached /\ DOMAIN u = Fields
  BY DEF Only, Fields, Pointers, WithName, EnterProps
<1>2. PICK a, b : a = t.obj /\ b = u.obj
  OBVIOUS
<1>3. ObjTyped(a, m) /\ b = WithName(a, o, file)
  BY <1>1, <1>2 DEF Pointers
<1>4. ObjTyped(b, m) /\ DataBut(a, b, o) /\ b[o].ref_count = a[o].ref_count /\ b[o].filename = file
  BY <1>0, <1>3, SetName
<1>5. u.props \in [Fds -> 0..m]
  BY <1>0, <1>1 DEF Pointers
<1>6. Pointers(u, m)
  BY <1>1, <1>2, <1>4, <1>5 DEF Pointers
<1> QED BY <1>1, <1>2, <1>4, <1>6 DEF PropsEntered

Flagged(t, u, m, o, oflags) ==
  /\ Only(t, u, {"obj"}) /\ Pointers(u, m) /\ DataBut(t.obj, u.obj, o)
  /\ u.obj[o].ref_count = t.obj[o].ref_count /\ u.obj[o].filename = t.obj[o].filename
  /\ (t.obj[o].filename # "" /\ "TEMPORARY" \in oflags => "TEMPORARY" \in u.obj[o].flags)

LEMMA OpenFdFacts ==
  ASSUME NEW t, NEW m \in 0..NObjs, Pointers(t, m), NEW o \in 1..m, NEW oflags, NEW u, u = open_fd(t, o, oflags)
  PROVE  Flagged(t, u, m, o, oflags)
<1>0. o \in Objs
  BY Index
<1>1. PICK v : v = IF t.obj[o].filename # "" /\ "TEMPORARY" \in oflags THEN {"TEMPORARY"} ELSE {}
  OBVIOUS
<1>2. v \in SUBSET Flags
  BY <1>1 DEF Flags
<1>3. u = [t EXCEPT !.obj[o].flags = v]
  BY <1>1 DEF open_fd
<1>4. /\ Only(t, u, {"obj"}) /\ u.obj = WithFlags(t.obj, o, v) /\ u.props = t.props
      /\ u.active = t.active /\ u.cached = t.cached /\ DOMAIN u = Fields
  BY <1>3 DEF Only, Fields, Pointers, WithFlags
<1>5. PICK a, b : a = t.obj /\ b = u.obj
  OBVIOUS
<1>6. ObjTyped(a, m) /\ b = WithFlags(a, o, v)
  BY <1>4, <1>5 DEF Pointers
<1>7. /\ ObjTyped(b, m) /\ DataBut(a, b, o) /\ b[o].ref_count = a[o].ref_count /\ b[o].filename = a[o].filename
      /\ b[o].flags = v
  BY <1>0, <1>2, <1>6, SetFlags
<1>8. Pointers(u, m)
  BY <1>4, <1>5, <1>7 DEF Pointers
<1>9. t.obj[o].filename # "" /\ "TEMPORARY" \in oflags => "TEMPORARY" \in v
  BY <1>1
<1> QED BY <1>4, <1>5, <1>7, <1>8, <1>9 DEF Flagged

Giving(t, u, n, fd, file, oflags) ==
  /\ n \in 0..NObjs /\ n + 1 \in 0..NObjs /\ Pointers(t, n) /\ CachedOK(t.props, t.cached) /\ fd \in Fds
  /\ t.props[fd] = NULL /\ file \in FileNames /\ u = set_fd_properties(t, fd, file, oflags)

LEMMA GivenFacts ==
  ASSUME NEW t, NEW u, NEW n, NEW fd, NEW file, NEW oflags, Giving(t, u, n, fd, file, oflags)
  PROVE  \E o \in Objs : Given(t, u, n, fd, o, file, file # "" /\ "TEMPORARY" \in oflags)
<1>1. PICK a : a = alloc_fd_properties(t)
  OBVIOUS
<1>2. Allocated(t, a, n)
  BY <1>1, AllocFacts DEF Giving
<1>3. PICK o, m : o = a.ret /\ m = n + 1
  OBVIOUS
<1>4. m \in 0..NObjs /\ o \in 1..m
  <2>1. a.ret \in 1..(n + 1)
    BY <1>2 DEF Allocated
  <2> QED BY <2>1, <1>3 DEF Giving
<1>4a. o \in Objs /\ o \in 0..m /\ fd \in Fds /\ file \in FileNames
  BY <1>4, Index DEF Giving
<1>5. /\ Only(t, a, {"obj", "cached", "ret"}) /\ Pointers(a, m) /\ a.cached = NULL /\ (\A x \in Fds : t.props[x] # o)
      /\ DataBut(t.obj, a.obj, o) /\ a.obj[o].ref_count = 1
  BY <1>2, <1>3 DEF Allocated
<1>6. PICK b : b = EnterProps(a, fd, o, file)
  OBVIOUS
<1>7. PICK c : c = insert_list(b, "active", o)
  OBVIOUS
<1>8. u = open_fd(c, c.props[fd], oflags)
  BY <1>1, <1>3, <1>6, <1>7 DEF set_fd_properties, EnterProps, Giving
<1>9. /\ Only(a, b, {"props", "obj"}) /\ b.props = [a.props EXCEPT ![fd] = o] /\ Pointers(b, m)
      /\ DataBut(a.obj, b.obj, o) /\ b.obj[o].ref_count = a.obj[o].ref_count /\ b.obj[o].filename = file
  <2>1. PropsEntered(a, b, m, fd, o, file)
    BY <1>4, <1>4a, <1>5, <1>6, EnterFacts
  <2> QED BY <2>1 DEF PropsEntered
<1>10. Only(b, c, {"obj", "active"}) /\ c.active = o /\ ObjTyped(c.obj, m) /\ SameData(b.obj, c.obj)
  <2>1. "active" \in Lists /\ DOMAIN b = Fields /\ ObjTyped(b.obj, m) /\ b["active"] \in 0..m
    BY <1>9 DEF Lists, Pointers
  <2>2. PICK list : list = "active"
    OBVIOUS
  <2>3. Only(b, c, {"obj", list}) /\ c[list] = o /\ ObjTyped(c.obj, m) /\ SameData(b.obj, c.obj)
    BY <2>1, <2>2, <1>4, <1>7, InsertFacts
  <2> QED BY <2>2, <2>3
<1>11. c.props = b.props /\ c.cached = b.cached /\ DOMAIN c = Fields
  BY <1>10 DEF Only, Fields
<1>12. Pointers(c, m)
  BY <1>4a, <1>9, <1>10, <1>11 DEF Pointers
<1>13. a.props = t.props /\ c.props = [t.props EXCEPT ![fd] = o] /\ c.props[fd] = o /\ b.cached = NULL /\ c.cached = NULL
  <2>1. a.props = t.props /\ b.cached = a.cached
    BY <1>5, <1>9 DEF Only, Fields
  <2>2. DOMAIN t.props = Fds
    BY DEF Giving, Pointers
  <2> QED BY <2>1, <2>2, <1>4a, <1>5, <1>9, <1>11
<1>14. /\ Only(c, u, {"obj"}) /\ Pointers(u, m) /\ DataBut(c.obj, u.obj, o)
       /\ u.obj[o].ref_count = c.obj[o].ref_count /\ u.obj[o].filename = c.obj[o].filename
       /\ (c.obj[o].filename # "" /\ "TEMPORARY" \in oflags => "TEMPORARY" \in u.obj[o].flags)
  <2>1. u = open_fd(c, o, oflags)
    BY <1>8, <1>13
  <2>2. Flagged(c, u, m, o, oflags)
    BY <2>1, <1>4, <1>12, OpenFdFacts
  <2> QED BY <2>2 DEF Flagged
<1>15. Only(t, u, {"obj", "cached", "active", "props", "ret"})
  <2>1. Only(t, b, {"obj", "cached", "active", "props", "ret"})
    BY <1>5, <1>9, OnlyChain
  <2>2. Only(b, u, {"obj", "active"})
    BY <1>10, <1>14, OnlyChain
  <2> QED BY <2>1, <2>2, OnlyChain
<1>16. u.props = c.props /\ u.cached = c.cached
  BY <1>14 DEF Only, Fields
<1>17. c.obj[o].ref_count = 1 /\ c.obj[o].filename = file
  BY <1>4a, <1>5, <1>9, <1>10 DEF SameData
<1>18. DataBut(t.obj, u.obj, o)
  <2>1. DataBut(t.obj, b.obj, o)
    BY <1>5, <1>9, SameBut
  <2>2. DataBut(b.obj, u.obj, o)
    BY <1>10, <1>14, SameBut
  <2> QED BY <2>1, <2>2, SameBut
<1>19. Given(t, u, n, fd, o, file, file # "" /\ "TEMPORARY" \in oflags)
  BY <1>3, <1>4a, <1>5, <1>13, <1>14, <1>15, <1>16, <1>17, <1>18 DEF Given
<1> QED BY <1>4a, <1>19

LEMMA DiskNames == \A name \in Disk : name # "" /\ name # "nul" /\ name \notin Special /\ name \in FileNames
BY NamesAssumption DEF Disk, FileNames, Names

\* What a new object of fd does to the counts, to the other descriptors and to the files
\* that are to go away.
LEMMA GivenCount ==
  ASSUME NEW t, NEW u, NEW n, NEW fd \in Fds, NEW o, NEW file, NEW temp, Given(t, u, n, fd, o, file, temp),
         DOMAIN t.props = Fds, t.props[fd] = NULL, CountOK(t.props, t.obj)
  PROVE  CountOK(u.props, u.obj) /\ CachedOK(u.props, u.cached)
<1>1. PICK f, g, a, b : f = t.props /\ g = u.props /\ a = t.obj /\ b = u.obj
  OBVIOUS
<1>2. /\ o \in Objs /\ (\A x \in Fds : f[x] # o) /\ g = [f EXCEPT ![fd] = o] /\ DataBut(a, b, o) /\ b[o].ref_count = 1
      /\ u.cached = NULL
  BY <1>1 DEF Given
<1>3. DOMAIN f = Fds /\ f[fd] = NULL /\ CountOK(f, a) /\ f[fd] # o
  BY <1>1, <1>2
<1>4. Count(f, o) = 0
  BY <1>2, CountZero
<1>5. Count(g, o) = Count(f, o) + 1 /\ \A v : v # o /\ v # f[fd] => Count(g, v) = Count(f, v)
  <2>1. g = With(f, fd, o)
    BY <1>2 DEF With
  <2> QED BY <2>1, <1>3, CountSet
<1>6. ASSUME NEW p \in Objs PROVE b[p].ref_count = Count(g, p) /\ (b[p].filename # "" => b[p].ref_count # 0)
  <2>1. CASE p = o
    BY <2>1, <1>2, <1>4, <1>5
  <2>2. CASE p # o
    <3>1. p # NULL
      BY Bounds DEF Objs, NULL
    <3>2. Count(g, p) = Count(f, p)
      BY <2>2, <3>1, <1>3, <1>5
    <3>3. b[p].ref_count = a[p].ref_count /\ b[p].filename = a[p].filename
      BY <2>2, <1>2 DEF DataBut
    <3>4. a[p].ref_count = Count(f, p) /\ (a[p].filename # "" => a[p].ref_count # 0)
      BY <1>3 DEF CountOK
    <3> QED BY <3>2, <3>3, <3>4
  <2> QED BY <2>1, <2>2
<1>7. CountOK(g, b)
  BY <1>6 DEF CountOK
<1> QED BY <1>1, <1>2, <1>7 DEF CachedOK

Alone(t, u, fd, o, file) ==
  /\ PropsSame(fd, t.props, t.obj, u.props, u.obj)
  /\ u.props[fd] = o /\ u.obj[o].filename = file /\ \A x \in Fds : u.props[x] = o => x = fd

LEMMA GivenProps ==
  ASSUME NEW t, NEW u, NEW n, NEW fd \in Fds, NEW o, NEW file, NEW temp, Given(t, u, n, fd, o, file, temp),
         t.props \in [Fds -> 0..n], n \in 0..NObjs
  PROVE  Alone(t, u, fd, o, file)
<1>1. PICK f, g, a, b : f = t.props /\ g = u.props /\ a = t.obj /\ b = u.obj
  OBVIOUS
<1>2. /\ o \in Objs /\ (\A x \in Fds : f[x] # o) /\ g = [f EXCEPT ![fd] = o] /\ DataBut(a, b, o) /\ b[o].filename = file
  BY <1>1 DEF Given
<1>3. f \in [Fds -> 0..n]
  BY <1>1
<1>4. g[fd] = o /\ \A x \in Fds : x # fd => g[x] = f[x]
  BY <1>2, <1>3
<1>5. ASSUME NEW x \in Fds, x # fd, g[x] # NULL PROVE b[g[x]].filename = a[g[x]].filename
  <2>1. g[x] = f[x] /\ f[x] \in 0..n /\ f[x] # NULL /\ f[x] # o
    BY <1>2, <1>3, <1>4, <1>5
  <2>2. f[x] \in Objs
    BY <2>1, Pointer
  <2> QED BY <2>1, <2>2, <1>2 DEF DataBut
<1>6. PropsSame(fd, f, a, g, b)
  BY <1>4, <1>5 DEF PropsSame
<1> QED BY <1>1, <1>2, <1>4, <1>6 DEF Alone

LEMMA GivenWish ==
  ASSUME NEW t, NEW u, NEW n, NEW fd \in Fds, NEW o, NEW file, NEW temp, Given(t, u, n, fd, o, file, temp),
         CountOK(t.props, t.obj), NEW disk, NEW wish, wish \subseteq Disk, WishOK(disk, wish, t.obj)
  PROVE  WishOK(disk, wish, u.obj)
<1>1. PICK f, a, b : f = t.props /\ a = t.obj /\ b = u.obj
  OBVIOUS
<1>2. o \in Objs /\ (\A x \in Fds : f[x] # o) /\ DataBut(a, b, o) /\ CountOK(f, a) /\ WishOK(disk, wish, a)
  BY <1>1 DEF Given
<1>3. Count(f, o) = 0
  BY <1>2, CountZero
<1>4. a[o].filename = ""
  BY <1>2, <1>3 DEF CountOK
<1>5. ASSUME NEW name \in wish PROVE \E p \in Objs : b[p].filename = name /\ "TEMPORARY" \in b[p].flags
  <2>1. PICK p \in Objs : a[p].filename = name /\ "TEMPORARY" \in a[p].flags
    BY <1>2 DEF WishOK
  <2>2. name # ""
    BY DiskNames
  <2>3. p # o
    BY <2>1, <2>2, <1>4
  <2> QED BY <2>1, <2>3, <1>2 DEF DataBut
<1>6. wish \subseteq disk
  BY <1>2 DEF WishOK
<1> QED BY <1>1, <1>5, <1>6 DEF WishOK

-----------------------------------------------------------------------------
(* Descriptors. *)

\* A handle that is closed has neither properties nor an extension, and is not the one of
\* the library.
LEMMA ClosedFacts ==
  ASSUME NEW t, NEW n, Sound(t, n), NEW fd \in Fds, t.jft[fd] = NULL
  PROVE  t.props[fd] = NULL /\ t.func[fd] = FALSE /\ t.nul # fd
<1>1. t.props[fd] = NULL
  BY DEF Sound, FollowOK
<1>2. t.func[fd] = FALSE
  <2>1. FuncOK(t.jft, t.sft, t.func) /\ t.func \in [Fds -> BOOLEAN]
    BY DEF Sound, Base
  <2> QED BY <2>1 DEF FuncOK
<1>3. t.nul # fd
  <2>1. NulOK(t.jft, t.sft, t.func, t.data, t.props, t.nul)
    BY DEF Sound
  <2> QED BY <2>1, FdSet DEF NulOK
<1> QED BY <1>1, <1>2, <1>3

\* The descriptor fd has a handle of that name and nothing else.
Bare(t, fd, name) ==
  /\ fd \in Fds /\ t.jft[fd] # NULL /\ t.sft[t.jft[fd]] = name /\ t.props[fd] = NULL /\ t.func[fd] = FALSE
  /\ t.nul # fd

\* It has no properties yet.
Ready(t, fd, name) ==
  fd \in Fds /\ t.jft[fd] # NULL /\ t.sft[t.jft[fd]] = name /\ t.props[fd] = NULL /\ t.nul # fd

LEMMA GotSound ==
  ASSUME NEW t, NEW n, Sound(t, n), NEW u, NEW name, Gets(t, u, name)
  PROVE  Sound(u, n) /\ Bare(u, u.ret, name)
<1>1. PICK fd : fd = u.ret
  OBVIOUS
<1>2. /\ fd \in Fds /\ t.jft[fd] = NULL /\ Only(t, u, {"jft", "sft", "ret"})
      /\ Others(t.jft, t.sft, u.jft, u.sft, fd) /\ u.jft[fd] # NULL /\ u.sft[u.jft[fd]] = name
  BY <1>1 DEF Gets
<1>3. t.props[fd] = NULL /\ t.func[fd] = FALSE /\ t.nul # fd
  BY <1>2, ClosedFacts
<1>4. /\ DOMAIN u = Fields /\ u.disk = t.disk /\ u.wish = t.wish /\ u.props = t.props /\ u.obj = t.obj
      /\ u.active = t.active /\ u.cached = t.cached /\ u.func = t.func /\ u.data = t.data
      /\ u.dup_count = t.dup_count /\ u.nul = t.nul /\ u.fate = t.fate
  BY <1>2 DEF Only, Fields
<1>5. u.jft \in [Fds -> 0..NFds] /\ DosOK(u.jft, u.sft)
  BY <1>2 DEF Others
<1>6. Base(u, n) /\ Runs(u)
  BY <1>4, <1>5 DEF Sound, Base, Runs
<1>7. FuncOK(u.jft, u.sft, u.func)
  <2>1. FuncOK(t.jft, t.sft, t.func)
    BY DEF Sound
  <2> QED BY <2>1, <1>2, <1>3, <1>4, FuncKept
<1>8. NulOK(u.jft, u.sft, u.func, u.data, u.props, u.nul)
  <2>1. NulOK(t.jft, t.sft, t.func, t.data, t.props, t.nul) /\ t.nul \in Fds \union {-1}
    BY DEF Sound, Base
  <2>2. NulSame(fd, t.func, t.data, t.props, u.func, u.data, u.props, u.nul)
    BY <2>1, <1>3, <1>4 DEF NulSame
  <2> QED BY <2>1, <2>2, <1>2, <1>4, NulKept
<1>9. FollowOK(u.jft, u.sft, u.props, u.obj)
  <2>1. FollowOK(t.jft, t.sft, t.props, t.obj)
    BY DEF Sound
  <2>2. PropsSame(fd, t.props, t.obj, u.props, u.obj) /\ PropsFollow(fd, u.jft, u.sft, u.props, u.obj)
    BY <1>3, <1>4 DEF PropsSame, PropsFollow
  <2> QED BY <2>1, <2>2, <1>2, FollowKept
<1>10. CountOK(u.props, u.obj) /\ CachedOK(u.props, u.cached) /\ WishOK(u.disk, u.wish, u.obj)
  BY <1>4 DEF Sound
<1>11. Sound(u, n)
  BY <1>5, <1>6, <1>7, <1>8, <1>9, <1>10 DEF Sound
<1> QED BY <1>1, <1>2, <1>3, <1>4, <1>11 DEF Bare

\* v is the sound state t but for files: a new one may be there, to go away if temp says so.
Touched(t, v, file, temp) ==
  /\ Only(t, v, {"disk", "wish", "ret"}) /\ DiskTyped(v.disk, v.wish) /\ v.wish \subseteq v.disk
  /\ v.wish \subseteq t.wish \union (IF temp THEN {file} ELSE {})

\* __set_fd_properties for a handle that has just been opened.
Furnishing(t, v, u, n, fd, name, file, oflags) ==
  /\ n \in 0..NObjs /\ n + 1 \in 0..NObjs /\ Sound(t, n) /\ Ready(t, fd, name) /\ Fits(file, name) /\ file \in FileNames
  /\ Touched(t, v, file, file # "" /\ "TEMPORARY" \in oflags) /\ u = set_fd_properties(v, fd, file, oflags)

Furnished(v, u, n, fd) ==
  /\ Sound(u, n + 1) /\ u.props[fd] \in Objs /\ Only(v, u, {"obj", "cached", "active", "props", "ret"})
  /\ \A x \in Fds : x # fd => u.props[x] = v.props[x]

LEMMA FurnishSound ==
  ASSUME NEW t, NEW v, NEW u, NEW n, NEW fd, NEW name, NEW file, NEW oflags,
         Furnishing(t, v, u, n, fd, name, file, oflags)
  PROVE  Furnished(v, u, n, fd)
<1>1. PICK temp : temp = (file # "" /\ "TEMPORARY" \in oflags)
  OBVIOUS
<1>2. /\ n \in 0..NObjs /\ n + 1 \in 0..NObjs /\ Sound(t, n) /\ Ready(t, fd, name) /\ Fits(file, name)
      /\ file \in FileNames /\ Touched(t, v, file, temp) /\ u = set_fd_properties(v, fd, file, oflags)
  BY <1>1 DEF Furnishing
<1>3. fd \in Fds /\ t.jft[fd] # NULL /\ t.sft[t.jft[fd]] = name /\ t.props[fd] = NULL /\ t.nul # fd
  BY <1>2 DEF Ready
<1>4. /\ Only(t, v, {"disk", "wish", "ret"}) /\ DiskTyped(v.disk, v.wish) /\ v.wish \subseteq v.disk
      /\ v.wish \subseteq t.wish \union (IF temp THEN {file} ELSE {})
  BY <1>2 DEF Touched
<1>5. /\ DOMAIN v = Fields /\ v.jft = t.jft /\ v.sft = t.sft /\ v.props = t.props /\ v.obj = t.obj
      /\ v.active = t.active /\ v.cached = t.cached /\ v.func = t.func /\ v.data = t.data
      /\ v.dup_count = t.dup_count /\ v.nul = t.nul /\ v.fate = t.fate
  BY <1>4 DEF Only, Fields
<1>6. /\ t.props \in [Fds -> 0..n] /\ Pointers(v, n) /\ CachedOK(v.props, v.cached) /\ CountOK(v.props, v.obj)
  BY <1>2, <1>5 DEF Sound, Base, Pointers
<1>7. PICK o \in Objs : Given(v, u, n, fd, o, file, temp)
  <2>1. Giving(v, u, n, fd, file, oflags)
    BY <1>2, <1>3, <1>5, <1>6 DEF Giving
  <2> QED BY <2>1, <1>1, GivenFacts
<1>8. /\ Only(v, u, {"obj", "cached", "active", "props", "ret"}) /\ Pointers(u, n + 1) /\ u.obj[o].filename = file
      /\ (temp => "TEMPORARY" \in u.obj[o].flags)
  BY <1>7 DEF Given
<1>9. /\ DOMAIN u = Fields /\ u.jft = v.jft /\ u.sft = v.sft /\ u.disk = v.disk /\ u.wish = v.wish
      /\ u.func = v.func /\ u.data = v.data /\ u.dup_count = v.dup_count /\ u.nul = v.nul /\ u.fate = v.fate
  BY <1>8 DEF Only, Fields
<1>10. Base(u, n + 1) /\ Runs(u)
  BY <1>2, <1>4, <1>5, <1>8, <1>9 DEF Sound, Base, Runs, Pointers
<1>11. CountOK(u.props, u.obj) /\ CachedOK(u.props, u.cached)
  <2>1. DOMAIN v.props = Fds /\ v.props[fd] = NULL
    BY <1>3, <1>5, <1>6
  <2> QED BY <2>1, <1>3, <1>6, <1>7, GivenCount
<1>12. /\ PropsSame(fd, v.props, v.obj, u.props, u.obj)
       /\ u.props[fd] = o /\ u.obj[o].filename = file /\ \A x \in Fds : u.props[x] = o => x = fd
  <2>1. v.props \in [Fds -> 0..n] /\ n \in 0..NObjs /\ fd \in Fds
    BY <1>2, <1>3, <1>5, <1>6
  <2>2. Alone(v, u, fd, o, file)
    BY <2>1, <1>7, GivenProps
  <2> QED BY <2>2 DEF Alone
<1>13. Others(t.jft, t.sft, u.jft, u.sft, fd)
  BY <1>2, <1>5, <1>9 DEF Sound, Base, Others
<1>14. FollowOK(u.jft, u.sft, u.props, u.obj)
  <2>1. FollowOK(t.jft, t.sft, t.props, t.obj)
    BY <1>2 DEF Sound
  <2>2. PropsFollow(fd, u.jft, u.sft, u.props, u.obj)
    BY <1>2, <1>3, <1>5, <1>9, <1>12 DEF PropsFollow
  <2> QED BY <2>1, <2>2, <1>5, <1>12, <1>13, FollowKept
<1>15. NulOK(u.jft, u.sft, u.func, u.data, u.props, u.nul)
  <2>1. NulOK(t.jft, t.sft, t.func, t.data, t.props, t.nul) /\ t.nul \in Fds \union {-1}
    BY <1>2 DEF Sound, Base
  <2>2. NulSame(fd, t.func, t.data, t.props, u.func, u.data, u.props, u.nul)
    BY <2>1, <1>3, <1>5, <1>9, <1>12 DEF NulSame, PropsSame
  <2> QED BY <2>1, <2>2, <1>5, <1>9, <1>13, NulKept
<1>16. WishOK(u.disk, u.wish, u.obj)
  <2>1. WishOK(t.disk, t.wish, t.obj) /\ t.wish \subseteq Disk
    BY <1>2 DEF Sound, Base, DiskTyped
  <2>2. WishOK(t.disk, t.wish, u.obj)
    BY <2>1, <1>3, <1>5, <1>6, <1>7, GivenWish
  <2>3. ASSUME NEW x \in u.wish PROVE \E p \in Objs : u.obj[p].filename = x /\ "TEMPORARY" \in u.obj[p].flags
    <3>1. CASE x \in t.wish
      BY <3>1, <2>2 DEF WishOK
    <3>2. CASE x \notin t.wish
      <4>1. temp /\ x = file
        BY <3>2, <2>3, <1>4, <1>9
      <4> QED BY <4>1, <1>7, <1>8
    <3> QED BY <3>1, <3>2
  <2> QED BY <2>3, <1>4, <1>9 DEF WishOK
<1>17. DosOK(u.jft, u.sft) /\ FuncOK(u.jft, u.sft, u.func)
  BY <1>2, <1>5, <1>9 DEF Sound
<1>18. Sound(u, n + 1)
  BY <1>10, <1>11, <1>14, <1>15, <1>16, <1>17 DEF Sound
<1>19. \A x \in Fds : x # fd => u.props[x] = v.props[x]
  BY <1>12 DEF PropsSame
<1> QED BY <1>7, <1>8, <1>12, <1>18, <1>19 DEF Furnished

-----------------------------------------------------------------------------
(* The close of the last descriptor of an object. *)

\* The walk gives nothing, or another object of the same name, or does not return.
Searched(t, u, o) ==
  \/ Only(t, u, {"fate"}) /\ u.fate \in {"fault", "hang"}
  \/ /\ Only(t, u, {"ret"})
     /\ \/ u.ret = NULL
        \/ u.ret \in Objs /\ u.ret # o /\ t.obj[u.ret].filename = t.obj[o].filename /\ t.obj[u.ret].filename # ""

LEMMA FindFacts ==
  ASSUME NEW t, NEW n \in 0..NObjs, Pointers(t, n), NEW o \in Objs, NEW u, u = find_eq_filename(t, o)
  PROVE  Searched(t, u, o)
<1> DEFINE After(p) == IF p = NULL THEN NULL ELSE t.obj[p].next
           Cell(f, i) == IF i = 0 THEN t.active ELSE After(f[i - 1])
           Solves(f) == f = [i \in 0..NObjs |-> Cell(f, i)]
           Stop(p) == p = NULL \/ (p # o /\ t.obj[p].filename \in {"", t.obj[o].filename})
           Found(p) == IF p # NULL /\ t.obj[p].filename = "" THEN [t EXCEPT !.fate = "fault"] ELSE Returns(t, p)
<1>1. PICK S, c : S = 0..n /\ c = t.active
  OBVIOUS
<1>2. c \in S
  BY <1>1 DEF Pointers
<1>3. PICK step : step = [i \in Nat |-> [x \in S |-> After(x)]]
  OBVIOUS
<1>4. ASSUME NEW x \in S PROVE After(x) \in S
  <2>1. CASE x = NULL
    BY <2>1, <1>1, NullPointer
  <2>2. CASE x # NULL
    <3>1. x \in Objs
      BY <2>2, <1>1, Pointer
    <3>2. t.obj[x].next \in 0..n
      BY <3>1 DEF Pointers, ObjTyped, Entries
    <3> QED BY <2>2, <3>2, <1>1
  <2> QED BY <2>1, <2>2
<1> HIDE DEF After
<1>5. step \in Steps(S) /\ \A x \in S, i \in Nat : step[i][x] = After(x)
  BY <1>3, <1>4 DEF Steps
<1>6. PICK f : Follows(f, S, c, NObjs, step)
  BY <1>2, <1>5, Bounds, RecursionExists
<1>7. f \in [0..NObjs -> S] /\ f[0] = c /\ \A i \in 1..NObjs : f[i] = step[i][f[i - 1]]
  BY <1>6 DEF Follows
<1>8. ASSUME NEW i \in 1..NObjs PROVE f[i] = After(f[i - 1])
  <2>1. f[i - 1] \in S /\ i \in Nat
    BY <1>7, Bounds
  <2> QED BY <2>1, <1>5, <1>7
<1>9. Solves(f)
  <2>1. ASSUME NEW i \in 0..NObjs PROVE f[i] = Cell(f, i)
    <3>1. CASE i = 0
      BY <3>1, <1>1, <1>7, Zenon
    <3>2. CASE i \in 1..NObjs
      <4>1. i # 0
        BY <3>2, Bounds
      <4> QED BY <3>2, <4>1, <1>8, Zenon
    <3> QED BY <3>1, <3>2, Bounds
  <2> HIDE DEF Cell
  <2> QED BY <1>7, <2>1
<1>10. PICK at : at = CHOOSE x : Solves(x)
  OBVIOUS
<1>11. Solves(at)
  <2> HIDE DEF Solves
  <2> QED BY <1>9, <1>10
<1>12. \A i \in 0..NObjs : at[i] = Cell(at, i)
  <2> HIDE DEF Cell
  <2> QED BY <1>11
<1> DEFINE T == {i \in Nat : i \in 0..NObjs => at[i] \in S}
<1>13. 0 \in T
  BY <1>1, <1>2, <1>12
<1>14. ASSUME NEW i \in Nat, i \in T PROVE i + 1 \in T
  <2> SUFFICES ASSUME i + 1 \in 0..NObjs PROVE at[i + 1] \in S
    OBVIOUS
  <2>1. at[i] \in S
    BY <1>14, Bounds
  <2>2. i + 1 # 0 /\ (i + 1) - 1 = i
    OBVIOUS
  <2>3. at[i + 1] = After(at[i])
    BY <2>2, <1>12
  <2> QED BY <2>1, <2>3, <1>4
<1> HIDE DEF T
<1>15. \A i \in 0..NObjs : at[i] \in S
  <2>1. Nat \subseteq T
    BY <1>13, <1>14, SetInduction
  <2>2. 0..NObjs \subseteq Nat
    BY Bounds
  <2> QED BY <2>1, <2>2 DEF T
<1>16. PICK stops : stops = {k \in 0..NObjs : Stop(at[k])}
  OBVIOUS
<1>17. u = IF stops = {} THEN [t EXCEPT !.fate = "hang"] ELSE Found(at[Min(stops)])
  <2>1. u = LET w == CHOOSE x : Solves(x)
                e == {k \in 0..NObjs : Stop(w[k])}
            IN  IF e = {} THEN [t EXCEPT !.fate = "hang"] ELSE Found(w[Min(e)])
    BY DEF find_eq_filename, After
  <2> HIDE DEF Solves, Stop, Found
  <2> QED BY <2>1, <1>10, <1>16, Zenon
<1>18. DOMAIN t = Fields
  BY DEF Pointers
<1>19. CASE stops = {}
  <2>1. u = [t EXCEPT !.fate = "hang"]
    BY <1>17, <1>19
  <2>2. Only(t, u, {"fate"}) /\ u.fate = "hang"
    BY <2>1, <1>18 DEF Only, Fields
  <2> QED BY <2>2 DEF Searched
<1>20. CASE stops # {}
  <2>1. PICK p : p = at[Min(stops)]
    OBVIOUS
  <2>2. Min(stops) \in stops
    <3>1. stops \subseteq Nat
      <4>1. 0..NObjs \subseteq Nat
        BY Bounds
      <4> QED BY <4>1, <1>16
    <3> QED BY <3>1, <1>20, LeastExists
  <2>3. Stop(p) /\ p \in S
    <3> HIDE DEF Stop
    <3> QED BY <2>1, <2>2, <1>15, <1>16
  <2>4. CASE p = NULL
    <3>1. u = Returns(t, NULL)
      BY <2>1, <2>4, <1>17, <1>20
    <3> QED BY <3>1, <1>18, ReturnsOnly DEF Searched
  <2>5. CASE p # NULL
    <3>1. p \in Objs /\ p # o
      BY <2>3, <2>5, <1>1, Pointer
    <3>2. CASE t.obj[p].filename = ""
      <4>1. u = [t EXCEPT !.fate = "fault"]
        BY <2>1, <2>5, <3>2, <1>17, <1>20
      <4>2. Only(t, u, {"fate"}) /\ u.fate = "fault"
        BY <4>1, <1>18 DEF Only, Fields
      <4> QED BY <4>2 DEF Searched
    <3>3. CASE t.obj[p].filename # ""
      <4>1. u = Returns(t, p)
        BY <2>1, <2>5, <3>3, <1>17, <1>20
      <4>2. Only(t, u, {"ret"}) /\ u.ret = p
        BY <4>1, <1>18, ReturnsOnly
      <4>3. t.obj[p].filename = t.obj[o].filename
        BY <2>3, <2>5, <3>3
      <4> QED BY <3>1, <3>3, <4>2, <4>3 DEF Searched
    <3> QED BY <3>2, <3>3
  <2> QED BY <2>4, <2>5
<1> QED BY <1>19, <1>20

\* Every file that is to go away has an object other than o that says so.
WishBut(disk, wish, obj, o) ==
  /\ wish \subseteq disk
  /\ \A name \in wish : \E p \in Objs : p # o /\ obj[p].filename = name /\ "TEMPORARY" \in obj[p].flags

\* The counts and the names of the objects are the same.
SameNames(obj, ob) == \A p \in Objs : ob[p].ref_count = obj[p].ref_count /\ ob[p].filename = obj[p].filename

\* close_fd has finalised the object o.
Finalised(t, u, n, o) ==
  /\ Only(t, u, {"obj", "disk", "wish", "ret"}) /\ ObjTyped(u.obj, n) /\ SameNames(t.obj, u.obj)
  /\ DiskTyped(u.disk, u.wish) /\ WishBut(u.disk, u.wish, u.obj, o)

Finalising(t, u, n, o) ==
  /\ n \in 0..NObjs /\ Pointers(t, n) /\ DiskTyped(t.disk, t.wish) /\ WishOK(t.disk, t.wish, t.obj) /\ o \in Objs
  /\ Runs(t) /\ u = close_fd(t, o)

LEMMA MarkFacts ==
  ASSUME NEW t, NEW n, Pointers(t, n), DiskTyped(t.disk, t.wish), WishOK(t.disk, t.wish, t.obj), NEW o, NEW p \in Objs,
         p # o, t.obj[p].filename = t.obj[o].filename, NEW u, u = [t EXCEPT !.obj[p].flags = @ \union {"TEMPORARY"}]
  PROVE  Finalised(t, u, n, o)
<1>1. PICK v : v = t.obj[p].flags \union {"TEMPORARY"}
  OBVIOUS
<1>2. v \in SUBSET Flags
  <2>1. t.obj[p].flags \in SUBSET Flags
    BY DEF Pointers, ObjTyped, Entries
  <2> QED BY <2>1, <1>1 DEF Flags
<1>3. Only(t, u, {"obj"}) /\ u.obj = WithFlags(t.obj, p, v) /\ u.disk = t.disk /\ u.wish = t.wish
  BY <1>1 DEF Only, Fields, Pointers, WithFlags
<1>4. PICK a, b : a = t.obj /\ b = u.obj
  OBVIOUS
<1>5. ObjTyped(a, n) /\ b = WithFlags(a, p, v)
  BY <1>3, <1>4 DEF Pointers
<1>6. /\ ObjTyped(b, n) /\ DataBut(a, b, p) /\ b[p].ref_count = a[p].ref_count /\ b[p].filename = a[p].filename
      /\ b[p].flags = v
  BY <1>2, <1>5, SetFlags
<1>7. SameNames(a, b)
  BY <1>6 DEF SameNames, DataBut
<1>8. \A q \in Objs : "TEMPORARY" \in a[q].flags => "TEMPORARY" \in b[q].flags
  BY <1>1, <1>4, <1>6 DEF DataBut
<1>9. ASSUME NEW name \in t.wish PROVE \E q \in Objs : q # o /\ b[q].filename = name /\ "TEMPORARY" \in b[q].flags
  <2>1. PICK q \in Objs : a[q].filename = name /\ "TEMPORARY" \in a[q].flags
    BY <1>4 DEF WishOK
  <2>2. CASE q # o
    BY <2>1, <2>2, <1>7, <1>8 DEF SameNames
  <2>3. CASE q = o
    <3>1. b[p].filename = name
      BY <2>1, <2>3, <1>4, <1>6
    <3>2. "TEMPORARY" \in b[p].flags
      BY <1>1, <1>6
    <3> QED BY <3>1, <3>2
  <2> QED BY <2>2, <2>3
<1>10. WishBut(u.disk, u.wish, u.obj, o)
  <2>1. u.wish = t.wish /\ u.disk = t.disk /\ u.obj = b
    BY <1>3, <1>4
  <2>2. t.wish \subseteq t.disk
    BY DEF WishOK
  <2>3. WishBut(t.disk, t.wish, b, o)
    BY <2>2, <1>9 DEF WishBut
  <2> QED BY <2>1, <2>3
<1>11. Only(t, u, {"obj", "disk", "wish", "ret"})
  BY <1>3, OnlyMore
<1> QED BY <1>3, <1>4, <1>6, <1>7, <1>10, <1>11 DEF Finalised

LEMMA DeleteFacts ==
  ASSUME NEW t, NEW n, Pointers(t, n), DiskTyped(t.disk, t.wish), WishOK(t.disk, t.wish, t.obj), NEW o,
         NEW u, u = Remove(t, t.obj[o].filename)
  PROVE  Finalised(t, u, n, o)
<1>1. PICK name : name = t.obj[o].filename
  OBVIOUS
<1>2. Only(t, u, {"disk", "wish"}) /\ u.disk = t.disk \ {name} /\ u.wish = t.wish \ {name} /\ u.obj = t.obj
  BY <1>1 DEF Only, Fields, Pointers, Remove
<1>3. ASSUME NEW x \in u.wish PROVE \E p \in Objs : p # o /\ u.obj[p].filename = x /\ "TEMPORARY" \in u.obj[p].flags
  <2>1. x \in t.wish /\ x # name
    BY <1>2, <1>3
  <2>2. PICK p \in Objs : t.obj[p].filename = x /\ "TEMPORARY" \in t.obj[p].flags
    BY <2>1 DEF WishOK
  <2> QED BY <2>1, <2>2, <1>1, <1>2
<1>4. DiskTyped(u.disk, u.wish) /\ u.wish \subseteq u.disk
  BY <1>2 DEF DiskTyped, WishOK
<1>5. Only(t, u, {"obj", "disk", "wish", "ret"})
  BY <1>2, OnlyMore
<1>6. ObjTyped(u.obj, n) /\ SameNames(t.obj, u.obj)
  BY <1>2 DEF Pointers, SameNames
<1> QED BY <1>3, <1>4, <1>5, <1>6 DEF Finalised, WishBut

LEMMA CloseFdFacts ==
  ASSUME NEW t, NEW u, NEW n, NEW o, Finalising(t, u, n, o)
  PROVE  \/ Only(t, u, {"fate"}) /\ u.fate \in {"fault", "hang"}
         \/ Finalised(t, u, n, o)
<1>1. /\ n \in 0..NObjs /\ Pointers(t, n) /\ DiskTyped(t.disk, t.wish) /\ WishOK(t.disk, t.wish, t.obj) /\ o \in Objs
      /\ Runs(t) /\ u = close_fd(t, o) /\ DOMAIN t = Fields
  BY DEF Finalising, Pointers
<1>2. CASE "TEMPORARY" \notin t.obj[o].flags
  <2>1. u = t
    BY <1>1, <1>2 DEF close_fd
  <2>2. WishBut(t.disk, t.wish, t.obj, o)
    BY <1>1, <1>2 DEF WishBut, WishOK
  <2>3. Only(t, u, {"obj", "disk", "wish", "ret"}) /\ ObjTyped(u.obj, n) /\ SameNames(t.obj, u.obj)
    BY <1>1, <2>1 DEF Only, Pointers, SameNames
  <2> QED BY <1>1, <2>1, <2>2, <2>3 DEF Finalised
<1>3. CASE "TEMPORARY" \in t.obj[o].flags
  <2>1. PICK v : v = find_eq_filename(t, o)
    OBVIOUS
  <2>2. Searched(t, v, o)
    BY <1>1, <2>1, FindFacts
  <2>3. u = IF Runs(v) THEN (IF v.ret # NULL THEN [v EXCEPT !.obj[v.ret].flags = @ \union {"TEMPORARY"}]
                             ELSE Remove(v, v.obj[o].filename))
            ELSE v
    BY <1>1, <1>3, <2>1 DEF close_fd, Then
  <2>4. CASE Only(t, v, {"fate"}) /\ v.fate \in {"fault", "hang"}
    <3>1. ~Runs(v)
      BY <2>4 DEF Runs
    <3> QED BY <2>3, <2>4, <3>1
  <2>5. CASE /\ Only(t, v, {"ret"})
             /\ \/ v.ret = NULL
                \/ v.ret \in Objs /\ v.ret # o /\ t.obj[v.ret].filename = t.obj[o].filename /\ t.obj[v.ret].filename # ""
    <3>1. /\ DOMAIN v = Fields /\ v.props = t.props /\ v.obj = t.obj /\ v.active = t.active /\ v.cached = t.cached
          /\ v.disk = t.disk /\ v.wish = t.wish /\ v.fate = t.fate
      BY <2>5 DEF Only, Fields
    <3>2. Runs(v) /\ Pointers(v, n) /\ DiskTyped(v.disk, v.wish) /\ WishOK(v.disk, v.wish, v.obj)
      BY <1>1, <3>1 DEF Runs, Pointers
    <3>3. Finalised(v, u, n, o)
      <4>1. CASE v.ret = NULL
        <5>1. u = Remove(v, v.obj[o].filename)
          BY <2>3, <3>2, <4>1
        <5> QED BY <3>2, <5>1, DeleteFacts
      <4>2. CASE v.ret # NULL
        <5>1. PICK p : p = v.ret
          OBVIOUS
        <5>2. u = [v EXCEPT !.obj[p].flags = @ \union {"TEMPORARY"}]
          BY <2>3, <3>2, <4>2, <5>1
        <5>3. p \in Objs /\ p # o /\ v.obj[p].filename = v.obj[o].filename
          BY <2>5, <3>1, <4>2, <5>1
        <5> QED BY <3>2, <5>2, <5>3, MarkFacts
      <4> QED BY <4>1, <4>2
    <3>4. Only(t, u, {"obj", "disk", "wish", "ret"})
      <4>1. Only(v, u, {"obj", "disk", "wish", "ret"})
        BY <3>3 DEF Finalised
      <4>2. Only(t, v, {"ret"})
        BY <2>5
      <4> QED BY <4>1, <4>2, OnlyChain
    <3> QED BY <3>1, <3>3, <3>4 DEF Finalised
  <2> QED BY <2>2, <2>4, <2>5 DEF Searched
<1> QED BY <1>2, <1>3

\* What no pointer leads to is free; the object of a descriptor stays.
Forgotten(t, u, n) ==
  /\ Only(t, u, {"obj"}) /\ ObjTyped(u.obj, n)
  /\ \A p \in Objs : \/ u.obj[p] = t.obj[p]
                     \/ (\A x \in Fds : t.props[x] # p) /\ u.obj[p].ref_count = 0 /\ u.obj[p].filename = ""

LEMMA ForgetFacts ==
  ASSUME NEW t, NEW n \in 0..NObjs, Pointers(t, n), NEW u, u = Forget(t)
  PROVE  Forgotten(t, u, n)
<1>1. PICK live : live = Live(t)
  OBVIOUS
<1>2. \A fd \in Fds : t.props[fd] # NULL => t.props[fd] \in live
  BY <1>1, LiveFacts
<1>3. PICK b : b = [o \in Objs |-> IF o \in live THEN t.obj[o] ELSE NoObject]
  OBVIOUS
<1>4. Only(t, u, {"obj"}) /\ u.obj = b
  BY <1>1, <1>3 DEF Only, Fields, Pointers, Forget, Keep
<1>5. NoObject \in Entries(n) /\ NoObject.ref_count = 0 /\ NoObject.filename = ""
  <2>1. NULL \in 0..n /\ 0 \in 0..NFds /\ "" \in FileNames /\ {} \in SUBSET Flags
    BY NullPointer, Bounds DEF FileNames
  <2> QED BY <2>1 DEF NoObject, Entries
<1>6. ObjTyped(b, n)
  BY <1>3, <1>5 DEF ObjTyped, Pointers
<1>7. ASSUME NEW p \in Objs
      PROVE  \/ b[p] = t.obj[p]
             \/ (\A x \in Fds : t.props[x] # p) /\ b[p].ref_count = 0 /\ b[p].filename = ""
  <2>1. CASE p \in live
    BY <2>1, <1>3
  <2>2. CASE p \notin live
    <3>1. b[p] = NoObject
      BY <2>2, <1>3
    <3>2. p # NULL
      BY Bounds DEF Objs, NULL
    <3> QED BY <2>2, <3>1, <3>2, <1>2, <1>5
  <2> QED BY <2>1, <2>2
<1> QED BY <1>4, <1>6, <1>7 DEF Forgotten

\* The object o of fd is counted no more.
Uncounted(t, n, fd, o) ==
  /\ n \in 0..NObjs /\ Pointers(t, n) /\ fd \in Fds /\ o \in 1..n /\ t.props[fd] = o /\ Count(t.props, o) = 1
  /\ t.obj[o].ref_count = 0
  /\ \A p \in Objs : p # o => t.obj[p].ref_count = Count(t.props, p) /\ (t.obj[p].filename # "" => t.obj[p].ref_count # 0)
  /\ t.wish \subseteq Disk /\ WishBut(t.disk, t.wish, t.obj, o)

Unlinked(t, u, n, o) ==
  /\ Only(t, u, {"obj", "active", "cached"}) /\ Pointers(u, n) /\ u.cached = o /\ DataBut(t.obj, u.obj, o)
  /\ u.obj[o].ref_count = t.obj[o].ref_count /\ u.obj[o].filename = ""

Unlinking(t, u, n, o) ==
  n \in 0..NObjs /\ Pointers(t, n) /\ o \in 1..n /\ u = free_fd_properties([t EXCEPT !.obj[o].filename = ""], o)

LEMMA UnlinkFacts ==
  ASSUME NEW t, NEW u, NEW n, NEW o, Unlinking(t, u, n, o)
  PROVE  Unlinked(t, u, n, o)
<1>a. n \in 0..NObjs /\ Pointers(t, n) /\ o \in 1..n
  BY DEF Unlinking
<1>0. o \in Objs /\ o \in 0..n
  BY <1>a, Index
<1>1. PICK a : a = [t EXCEPT !.obj[o].filename = ""]
  OBVIOUS
<1>2. PICK b : b = [a EXCEPT !.obj[o].flags = {}]
  OBVIOUS
<1>3. PICK c : c = remove_list(b, "active", o)
  OBVIOUS
<1>4. u = insert_list(c, "cached", o)
  BY <1>1, <1>2, <1>3 DEF free_fd_properties, Unlinking
<1>5. Only(t, a, {"obj"}) /\ a.obj = WithName(t.obj, o, "")
  BY <1>1, <1>a DEF Only, Fields, Pointers, WithName
<1>6. Only(a, b, {"obj"}) /\ b.obj = WithFlags(a.obj, o, {})
  <2>1. DOMAIN a = Fields
    BY <1>5 DEF Only
  <2> QED BY <2>1, <1>2 DEF Only, Fields, WithFlags
<1>7. PICK x, y, z, w : x = t.obj /\ y = a.obj /\ z = b.obj /\ w = ""
  OBVIOUS
<1>8. ObjTyped(y, n) /\ DataBut(x, y, o) /\ y[o].ref_count = x[o].ref_count /\ y[o].filename = w
  <2>1. w \in FileNames /\ ObjTyped(x, n) /\ y = WithName(x, o, w)
    BY <1>a, <1>5, <1>7 DEF FileNames, Pointers
  <2> QED BY <2>1, <1>0, SetName
<1>9. ObjTyped(z, n) /\ DataBut(y, z, o) /\ z[o].ref_count = y[o].ref_count /\ z[o].filename = y[o].filename
  <2>1. PICK v : v = {}
    OBVIOUS
  <2>2. v \in SUBSET Flags /\ z = WithFlags(y, o, v)
    BY <2>1, <1>6, <1>7
  <2> QED BY <2>2, <1>0, <1>8, SetFlags
<1>10. Only(t, b, {"obj"})
  BY <1>5, <1>6, OnlyChain
<1>11. b.props = t.props /\ b.active = t.active /\ b.cached = t.cached /\ DOMAIN b = Fields
  BY <1>10 DEF Only, Fields
<1>12. /\ Only(b, c, {"obj", "active"}) /\ c.active \in 0..n /\ ObjTyped(c.obj, n) /\ SameData(b.obj, c.obj)
  <2>1. PICK list : list = "active"
    OBVIOUS
  <2>2. list \in Lists /\ ObjTyped(b.obj, n) /\ b[list] \in 0..n /\ c = remove_list(b, list, o)
    BY <2>1, <1>a, <1>3, <1>7, <1>9, <1>11 DEF Lists, Pointers
  <2>3. Removed(b, c, n, list, o)
    BY <2>2, <1>a, <1>11, RemoveFacts
  <2>4. Only(b, c, {"obj", list}) /\ ObjTyped(c.obj, n) /\ SameData(b.obj, c.obj)
    BY <2>3 DEF Removed
  <2>5. c[list] \in 0..n
    BY <2>2, <2>3, <1>a, NullPointer DEF Removed
  <2> QED BY <2>1, <2>4, <2>5
<1>13. c.props = t.props /\ c.cached = t.cached /\ DOMAIN c = Fields
  BY <1>11, <1>12 DEF Only, Fields
<1>14. /\ Only(c, u, {"obj", "cached"}) /\ u.cached = o /\ ObjTyped(u.obj, n) /\ SameData(c.obj, u.obj)
  <2>1. PICK list : list = "cached"
    OBVIOUS
  <2>2. list \in Lists /\ ObjTyped(c.obj, n) /\ c[list] \in 0..n /\ u = insert_list(c, list, o)
    BY <2>1, <1>a, <1>4, <1>12, <1>13 DEF Lists, Pointers
  <2>3. Only(c, u, {"obj", list}) /\ u[list] = o /\ ObjTyped(u.obj, n) /\ SameData(c.obj, u.obj)
    BY <2>2, <1>a, <1>13, InsertFacts
  <2> QED BY <2>1, <2>3
<1>15. u.props = t.props /\ u.active = c.active /\ DOMAIN u = Fields
  BY <1>13, <1>14 DEF Only, Fields
<1>16. Pointers(u, n)
  BY <1>a, <1>0, <1>12, <1>14, <1>15 DEF Pointers
<1>17. Only(t, u, {"obj", "active", "cached"})
  <2>1. Only(t, c, {"obj", "active", "cached"})
    BY <1>10, <1>12, OnlyChain
  <2> QED BY <2>1, <1>14, OnlyChain
<1>18. SameData(z, u.obj)
  BY <1>7, <1>12, <1>14, SameTwice
<1>19. DataBut(x, u.obj, o)
  BY <1>8, <1>9, <1>18, SameBut
<1>20. u.obj[o].ref_count = t.obj[o].ref_count /\ u.obj[o].filename = ""
  BY <1>0, <1>7, <1>8, <1>9, <1>18 DEF SameData
<1> QED BY <1>7, <1>14, <1>16, <1>17, <1>19, <1>20 DEF Unlinked

\* The descriptor fd has no properties any more, and the rest is in order.
Cleared(t, u, n, fd) ==
  /\ Only(t, u, {"obj", "props", "active", "cached", "disk", "wish", "ret"})
  /\ Pointers(u, n) /\ DiskTyped(u.disk, u.wish) /\ u.props = With(t.props, fd, NULL)
  /\ CountOK(u.props, u.obj) /\ CachedOK(u.props, u.cached) /\ WishOK(u.disk, u.wish, u.obj)
  /\ PropsSame(fd, t.props, t.obj, u.props, u.obj)

FreeProps(t, fd, o) == Forget([free_fd_properties([t EXCEPT !.obj[o].filename = ""], o) EXCEPT !.props[fd] = NULL])

LEMMA WithType ==
  ASSUME NEW f, NEW S, f \in [Fds -> S], NEW fd \in Fds, NEW v \in S
  PROVE  With(f, fd, v) \in [Fds -> S] /\ With(f, fd, v)[fd] = v /\ \A x \in Fds : x # fd => With(f, fd, v)[x] = f[x]
BY DEF With

LEMMA FreeFacts ==
  ASSUME NEW t, NEW u, NEW n, NEW fd, NEW o, Uncounted(t, n, fd, o), DiskTyped(t.disk, t.wish), u = FreeProps(t, fd, o)
  PROVE  Cleared(t, u, n, fd)
<1>1. n \in 0..NObjs /\ Pointers(t, n) /\ fd \in Fds /\ o \in 1..n /\ t.props[fd] = o /\ Count(t.props, o) = 1
  BY DEF Uncounted
<1>2. o \in Objs /\ o \in 0..n /\ o # NULL
  BY <1>1, Index
<1>3. PICK d : d = free_fd_properties([t EXCEPT !.obj[o].filename = ""], o)
  OBVIOUS
<1>4. PICK e : e = [d EXCEPT !.props[fd] = NULL]
  OBVIOUS
<1>5. u = Forget(e)
  BY <1>3, <1>4 DEF FreeProps
<1>6. Unlinked(t, d, n, o)
  <2>1. Unlinking(t, d, n, o)
    BY <1>1, <1>3 DEF Unlinking
  <2> QED BY <2>1, UnlinkFacts
<1>7. /\ Only(t, d, {"obj", "active", "cached"}) /\ Pointers(d, n) /\ d.cached = o /\ DataBut(t.obj, d.obj, o)
      /\ d.obj[o].ref_count = t.obj[o].ref_count /\ d.obj[o].filename = "" /\ d.props = t.props
  BY <1>6 DEF Unlinked, Only, Fields
<1>8. PICK f, g : f = t.props /\ g = With(f, fd, NULL)
  OBVIOUS
<1>9. Only(d, e, {"props"}) /\ e.props = g
  BY <1>4, <1>7, <1>8 DEF Only, Fields, Pointers, With
<1>10. e.obj = d.obj /\ e.active = d.active /\ e.cached = d.cached /\ DOMAIN e = Fields
  BY <1>9 DEF Only, Fields
<1>11. f \in [Fds -> 0..n] /\ NULL \in 0..n /\ f[fd] = o /\ f[fd] # NULL
  BY <1>1, <1>2, <1>8, NullPointer DEF Pointers
<1>12. g \in [Fds -> 0..n] /\ g[fd] = NULL /\ \A x \in Fds : x # fd => g[x] = f[x]
  BY <1>1, <1>8, <1>11 DEF With
<1>13. Pointers(e, n)
  BY <1>7, <1>9, <1>10, <1>12 DEF Pointers
<1>14. Forgotten(e, u, n)
  BY <1>1, <1>5, <1>13, ForgetFacts
<1>14a. Only(e, u, {"obj"}) /\ ObjTyped(u.obj, n)
  BY <1>14 DEF Forgotten
<1>14b. u.props = e.props /\ u.cached = e.cached /\ u.active = e.active /\ DOMAIN u = Fields
  BY <1>14a DEF Only, Fields
<1>15. Only(e, u, {"obj"}) /\ ObjTyped(u.obj, n) /\ u.props = g /\ u.cached = o /\ u.active = e.active /\ DOMAIN u = Fields
  BY <1>7, <1>9, <1>10, <1>14a, <1>14b
<1>16. Pointers(u, n)
  BY <1>13, <1>14a, <1>14b DEF Pointers
<1>17. Only(t, u, {"obj", "props", "active", "cached", "disk", "wish", "ret"})
  <2>1. Only(t, e, {"obj", "props", "active", "cached", "disk", "wish", "ret"})
    <3>1. Only(t, d, {"obj", "active", "cached"})
      BY <1>7
    <3>2. Only(d, e, {"props"})
      BY <1>9
    <3> QED BY <3>1, <3>2, OnlyChain
  <2>2. Only(e, u, {"obj"})
    BY <1>15
  <2> QED BY <2>1, <2>2, OnlyChain
<1>18. Count(g, o) = 0 /\ \A v : v # NULL /\ v # o => Count(g, v) = Count(f, v)
  <2>1. DOMAIN f = Fds
    BY <1>11
  <2>2. Count(g, f[fd]) = Count(f, f[fd]) - 1 /\ \A v : v # NULL /\ v # f[fd] => Count(g, v) = Count(f, v)
    BY <2>1, <1>1, <1>8, <1>11, CountSet
  <2> QED BY <2>2, <1>1, <1>8, <1>11
<1>19. \A x \in Fds : g[x] # o
  BY <1>18, CountZero
<1>20. PICK a, b, c : a = t.obj /\ b = e.obj /\ c = u.obj
  OBVIOUS
<1>21. DataBut(a, b, o) /\ b[o].ref_count = 0 /\ b[o].filename = ""
  BY <1>7, <1>10, <1>20 DEF Uncounted
<1>22. \A p \in Objs : c[p] = b[p] \/ ((\A x \in Fds : g[x] # p) /\ c[p].ref_count = 0 /\ c[p].filename = "")
  <2>1. \A p \in Objs : \/ u.obj[p] = e.obj[p]
                        \/ (\A x \in Fds : e.props[x] # p) /\ u.obj[p].ref_count = 0 /\ u.obj[p].filename = ""
    BY <1>14 DEF Forgotten
  <2>2. e.props = g
    BY <1>9
  <2>3. u.obj = c /\ e.obj = b
    BY <1>20
  <2> QED BY <2>1, <2>2, <2>3
<1>23. ASSUME NEW p \in Objs, p # o
       PROVE  b[p].ref_count = Count(g, p) /\ (b[p].filename # "" => b[p].ref_count # 0)
  <2>1. a[p].ref_count = Count(f, p) /\ (a[p].filename # "" => a[p].ref_count # 0)
    BY <1>8, <1>20, <1>23 DEF Uncounted
  <2>2. p # NULL
    BY Bounds DEF Objs, NULL
  <2>3. Count(g, p) = Count(f, p)
    BY <2>2, <1>18, <1>23
  <2> QED BY <2>1, <2>3, <1>21, <1>23 DEF DataBut
<1>24. CountOK(g, c)
  <2>1. ASSUME NEW p \in Objs PROVE c[p].ref_count = Count(g, p) /\ (c[p].filename # "" => c[p].ref_count # 0)
    <3>1. CASE c[p] = b[p] /\ p = o
      BY <3>1, <1>18, <1>21
    <3>2. CASE c[p] = b[p] /\ p # o
      BY <3>2, <1>23
    <3>3. CASE (\A x \in Fds : g[x] # p) /\ c[p].ref_count = 0 /\ c[p].filename = ""
      BY <3>3, CountZero
    <3> QED BY <3>1, <3>2, <3>3, <1>22
  <2> QED BY <2>1 DEF CountOK
<1>25. ASSUME NEW p \in Objs, p # o, b[p].filename # "" PROVE c[p] = b[p]
  <2>1. Count(g, p) # 0
    BY <1>23, <1>25
  <2>2. ~ \A x \in Fds : g[x] # p
    BY <2>1, CountZero
  <2> QED BY <2>2, <1>22
<1>26. WishOK(u.disk, u.wish, c)
  <2>1. u.disk = t.disk /\ u.wish = t.wish
    BY <1>7, <1>9, <1>15 DEF Only, Fields
  <2>2. WishBut(t.disk, t.wish, a, o) /\ t.wish \subseteq Disk
    BY <1>20 DEF Uncounted
  <2>3. ASSUME NEW name \in t.wish PROVE \E p \in Objs : c[p].filename = name /\ "TEMPORARY" \in c[p].flags
    <3>1. PICK p \in Objs : p # o /\ a[p].filename = name /\ "TEMPORARY" \in a[p].flags
      BY <2>2 DEF WishBut
    <3>2. b[p].filename = name /\ b[p].flags = a[p].flags
      BY <3>1, <1>21 DEF DataBut
    <3>3. name # ""
      BY <2>2, <2>3, DiskNames
    <3>4. c[p] = b[p]
      BY <3>1, <3>2, <3>3, <1>25
    <3> QED BY <3>1, <3>2, <3>4
  <2>4. t.wish \subseteq t.disk
    BY <2>2 DEF WishBut
  <2> QED BY <2>1, <2>3, <2>4 DEF WishOK
<1>27. PropsSame(fd, f, a, g, c)
  <2>1. ASSUME NEW x \in Fds, x # fd, g[x] # NULL PROVE c[g[x]].filename = a[g[x]].filename
    <3>1. PICK p : p = g[x]
      OBVIOUS
    <3>2. p \in 0..n /\ p # NULL /\ p # o
      BY <2>1, <3>1, <1>12, <1>19
    <3>3. p \in Objs
      BY <3>2, <1>1, Pointer
    <3>4. c[p] = b[p]
      BY <2>1, <3>1, <3>3, <1>22
    <3>5. b[p].filename = a[p].filename
      BY <3>2, <3>3, <1>21 DEF DataBut
    <3> QED BY <3>1, <3>4, <3>5
  <2> QED BY <2>1, <1>12 DEF PropsSame
<1>28. DiskTyped(u.disk, u.wish)
  BY <1>7, <1>9, <1>15 DEF Only, Fields
<1>29. CachedOK(u.props, u.cached)
  BY <1>15, <1>19 DEF CachedOK
<1> QED BY <1>8, <1>15, <1>16, <1>17, <1>20, <1>24, <1>26, <1>27, <1>28, <1>29 DEF Cleared

-----------------------------------------------------------------------------
(* __clear_fd_properties. *)

\* The call did not return; what it had changed by then are objects.
Died(t, u, n) == Only(t, u, {"obj", "fate"}) /\ ObjTyped(u.obj, n) /\ u.fate \in {"fault", "hang"}

Clearing(t, u, n, fd) ==
  /\ n \in 0..NObjs /\ Pointers(t, n) /\ DiskTyped(t.disk, t.wish) /\ CountOK(t.props, t.obj)
  /\ CachedOK(t.props, t.cached) /\ WishOK(t.disk, t.wish, t.obj) /\ fd \in Fds /\ t.props[fd] # NULL
  /\ Runs(t) /\ u = clear_fd_properties(t, fd)

\* w is t with one descriptor less counted for the object o.
Lowered(t, w, n, o) ==
  /\ Only(t, w, {"obj"}) /\ ObjTyped(w.obj, n) /\ DataBut(t.obj, w.obj, o)
  /\ w.obj[o].ref_count = t.obj[o].ref_count - 1 /\ w.obj[o].filename = t.obj[o].filename
  /\ w.obj[o].flags = t.obj[o].flags

LEMMA LowerFacts ==
  ASSUME NEW t, NEW n \in 0..NObjs, Pointers(t, n), NEW o \in 1..n, t.obj[o].ref_count # 0,
         NEW w, w = [t EXCEPT !.obj[o].ref_count = @ - 1]
  PROVE  Lowered(t, w, n, o)
<1>0. o \in Objs
  BY Index
<1>1. PICK v : v = t.obj[o].ref_count - 1
  OBVIOUS
<1>2. v \in 0..NFds
  <2>1. t.obj[o].ref_count \in 0..NFds
    BY <1>0 DEF Pointers, ObjTyped, Entries
  <2> QED BY <2>1, <1>1, Bounds
<1>3. w = [t EXCEPT !.obj[o].ref_count = v]
  BY <1>1
<1>4. Only(t, w, {"obj"}) /\ w.obj = WithCount(t.obj, o, v)
  BY <1>3 DEF Only, Fields, Pointers, WithCount
<1>5. PICK a, b : a = t.obj /\ b = w.obj
  OBVIOUS
<1>6. ObjTyped(a, n) /\ b = WithCount(a, o, v)
  BY <1>4, <1>5 DEF Pointers
<1>7. /\ ObjTyped(b, n) /\ DataBut(a, b, o) /\ b[o].ref_count = v /\ b[o].filename = a[o].filename
      /\ b[o].flags = a[o].flags
  BY <1>0, <1>2, <1>6, SetCount
<1> QED BY <1>1, <1>4, <1>5, <1>7 DEF Lowered

\* Another descriptor has the object.
LEMMA SharedFacts ==
  ASSUME NEW t, NEW u, NEW w, NEW n, NEW fd, NEW o, Clearing(t, u, n, fd), o \in 1..n, o = t.props[fd],
         Lowered(t, w, n, o), w.obj[o].ref_count # 0, u = [w EXCEPT !.props[fd] = NULL]
  PROVE  Cleared(t, u, n, fd)
<1>1. PICK f, g, a, b : f = t.props /\ g = With(f, fd, NULL) /\ a = t.obj /\ b = w.obj
  OBVIOUS
<1>2. /\ n \in 0..NObjs /\ Pointers(t, n) /\ DiskTyped(t.disk, t.wish) /\ CountOK(f, a) /\ CachedOK(f, t.cached)
      /\ WishOK(t.disk, t.wish, a) /\ fd \in Fds /\ f[fd] = o /\ f \in [Fds -> 0..n]
  BY <1>1 DEF Clearing, Pointers
<1>3. o \in Objs /\ o # NULL /\ NULL \in 0..n
  BY <1>2, Index, NullPointer
<1>4. /\ Only(t, w, {"obj"}) /\ ObjTyped(b, n) /\ DataBut(a, b, o) /\ b[o].ref_count = a[o].ref_count - 1
      /\ b[o].filename = a[o].filename /\ b[o].flags = a[o].flags
  BY <1>1 DEF Lowered
<1>5. DOMAIN w = Fields /\ w.props = f /\ w.active = t.active /\ w.cached = t.cached
  BY <1>1, <1>4 DEF Only, Fields
<1>6. Only(w, u, {"props"}) /\ u.props = g
  BY <1>1, <1>5 DEF Only, Fields, With
<1>7. Only(t, u, {"obj", "props", "active", "cached", "disk", "wish", "ret"})
  <2>1. Only(t, w, {"obj"})
    BY <1>4
  <2>2. Only(w, u, {"props"})
    BY <1>6
  <2> QED BY <2>1, <2>2, OnlyChain
<1>8. /\ DOMAIN u = Fields /\ u.obj = b /\ u.active = t.active /\ u.cached = t.cached /\ u.disk = t.disk /\ u.wish = t.wish
  <2>1. DOMAIN u = Fields /\ u.obj = w.obj /\ u.active = w.active /\ u.cached = w.cached /\ u.disk = w.disk /\ u.wish = w.wish
    BY <1>6 DEF Only, Fields
  <2>2. w.disk = t.disk /\ w.wish = t.wish
    BY <1>4 DEF Only, Fields
  <2> QED BY <2>1, <2>2, <1>1, <1>5
<1>9. g \in [Fds -> 0..n] /\ g[fd] = NULL /\ \A x \in Fds : x # fd => g[x] = f[x]
  BY <1>1, <1>2, <1>3 DEF With
<1>10. Pointers(u, n)
  BY <1>2, <1>4, <1>6, <1>8, <1>9 DEF Pointers
<1>11. Count(g, o) = Count(f, o) - 1 /\ \A v : v # NULL /\ v # o => Count(g, v) = Count(f, v)
  <2>1. DOMAIN f = Fds /\ f[fd] # NULL
    BY <1>2, <1>3
  <2>2. Count(g, f[fd]) = Count(f, f[fd]) - 1 /\ \A v : v # NULL /\ v # f[fd] => Count(g, v) = Count(f, v)
    BY <2>1, <1>1, <1>2, CountSet
  <2> QED BY <2>2, <1>2
<1>12. CountOK(g, b)
  <2>1. ASSUME NEW p \in Objs PROVE b[p].ref_count = Count(g, p) /\ (b[p].filename # "" => b[p].ref_count # 0)
    <3>1. a[p].ref_count = Count(f, p) /\ (a[p].filename # "" => a[p].ref_count # 0)
      BY <1>2 DEF CountOK
    <3>2. CASE p = o
      BY <3>1, <3>2, <1>1, <1>4, <1>11
    <3>3. CASE p # o
      <4>1. p # NULL
        BY Bounds DEF Objs, NULL
      <4>2. b[p].ref_count = a[p].ref_count /\ b[p].filename = a[p].filename
        BY <3>3, <1>4 DEF DataBut
      <4> QED BY <3>1, <3>3, <4>1, <4>2, <1>11
    <3> QED BY <3>2, <3>3
  <2> QED BY <2>1 DEF CountOK
<1>13. CachedOK(g, u.cached)
  <2>1. CachedOK(g, t.cached)
    BY <1>2, <1>9 DEF CachedOK
  <2> QED BY <2>1, <1>8
<1>14. \A p \in Objs : b[p].filename = a[p].filename /\ b[p].flags = a[p].flags
  BY <1>4 DEF DataBut
<1>15. WishOK(t.disk, t.wish, b)
  BY <1>2, <1>14 DEF WishOK
<1>16. PropsSame(fd, f, a, g, b)
  <2>1. ASSUME NEW x \in Fds, x # fd, g[x] # NULL PROVE b[g[x]].filename = a[g[x]].filename
    <3>1. PICK p : p = g[x]
      OBVIOUS
    <3>2. p \in 0..n /\ p # NULL
      BY <2>1, <3>1, <1>9
    <3>3. p \in Objs
      BY <3>2, <1>2, Pointer
    <3> QED BY <3>1, <3>3, <1>14
  <2> QED BY <2>1, <1>9 DEF PropsSame
<1> QED BY <1>1, <1>2, <1>6, <1>7, <1>8, <1>10, <1>12, <1>13, <1>15, <1>16 DEF Cleared

\* No other descriptor has the object, and it is finalised.
LEMMA LastUncounted ==
  ASSUME NEW t, NEW u, NEW w, NEW v, NEW n, NEW fd, NEW o, Clearing(t, u, n, fd), o \in 1..n, o = t.props[fd],
         Lowered(t, w, n, o), w.obj[o].ref_count = 0, Finalised(w, v, n, o)
  PROVE  Uncounted(v, n, fd, o) /\ v.props = t.props /\ Only(t, v, {"obj", "disk", "wish", "ret"})
<1>1. PICK f, a, b, c : f = t.props /\ a = t.obj /\ b = w.obj /\ c = v.obj
  OBVIOUS
<1>2. n \in 0..NObjs /\ Pointers(t, n) /\ CountOK(f, a) /\ fd \in Fds /\ f[fd] = o
  BY <1>1 DEF Clearing
<1>3. o \in Objs
  BY <1>2, Index
<1>4. Only(t, w, {"obj"}) /\ DataBut(a, b, o) /\ b[o].ref_count = a[o].ref_count - 1
  BY <1>1 DEF Lowered
<1>5. /\ Only(w, v, {"obj", "disk", "wish", "ret"}) /\ ObjTyped(c, n) /\ SameNames(b, c)
      /\ DiskTyped(v.disk, v.wish) /\ WishBut(v.disk, v.wish, c, o)
  BY <1>1 DEF Finalised
<1>6. Only(t, v, {"obj", "disk", "wish", "ret"})
  <2>1. Only(t, w, {"obj"})
    BY <1>4
  <2>2. Only(w, v, {"obj", "disk", "wish", "ret"})
    BY <1>5
  <2> QED BY <2>1, <2>2, OnlyChain
<1>7. v.props = f /\ v.active = t.active /\ v.cached = t.cached /\ DOMAIN v = Fields
  BY <1>1, <1>6 DEF Only, Fields
<1>8. Pointers(v, n)
  BY <1>1, <1>2, <1>5, <1>7 DEF Pointers
<1>9. Count(f, o) = 1
  <2>1. a[o].ref_count = Count(f, o)
    BY <1>2, <1>3 DEF CountOK
  <2>2. Count(f, o) \in Int
    <3>1. Count(f, o) \in 0..NFds
      BY CountType
    <3> QED BY <3>1, Bounds
  <2>3. b[o].ref_count = 0
    BY <1>1
  <2> QED BY <2>1, <2>2, <2>3, <1>4
<1>10. c[o].ref_count = 0
  <2>1. b[o].ref_count = 0
    BY <1>1
  <2> QED BY <2>1, <1>3, <1>5 DEF SameNames
<1>11. ASSUME NEW p \in Objs, p # o PROVE c[p].ref_count = Count(f, p) /\ (c[p].filename # "" => c[p].ref_count # 0)
  <2>1. c[p].ref_count = b[p].ref_count /\ c[p].filename = b[p].filename
    BY <1>5 DEF SameNames
  <2>2. b[p].ref_count = a[p].ref_count /\ b[p].filename = a[p].filename
    BY <1>4, <1>11 DEF DataBut
  <2>3. a[p].ref_count = Count(f, p) /\ (a[p].filename # "" => a[p].ref_count # 0)
    BY <1>2 DEF CountOK
  <2> QED BY <2>1, <2>2, <2>3
<1>12. v.wish \subseteq Disk
  BY <1>5 DEF DiskTyped
<1>13. \A p \in Objs : p # o => /\ v.obj[p].ref_count = Count(v.props, p)
                                /\ (v.obj[p].filename # "" => v.obj[p].ref_count # 0)
  BY <1>1, <1>7, <1>11
<1> QED BY <1>1, <1>2, <1>5, <1>6, <1>7, <1>8, <1>9, <1>10, <1>12, <1>13 DEF Uncounted

LEMMA ClearFacts ==
  ASSUME NEW t, NEW u, NEW n, NEW fd, Clearing(t, u, n, fd)
  PROVE  Cleared(t, u, n, fd) \/ Died(t, u, n)
<1>1. PICK o, w : o = t.props[fd] /\ w = [t EXCEPT !.obj[o].ref_count = @ - 1]
  OBVIOUS
<1>2. /\ n \in 0..NObjs /\ Pointers(t, n) /\ DiskTyped(t.disk, t.wish) /\ CountOK(t.props, t.obj)
      /\ WishOK(t.disk, t.wish, t.obj) /\ fd \in Fds /\ o # NULL /\ Runs(t) /\ u = clear_fd_properties(t, fd)
  BY <1>1 DEF Clearing
<1>3. o \in Objs /\ o \in 1..n
  <2>1. o \in 0..n
    BY <1>1, <1>2 DEF Pointers
  <2> QED BY <2>1, <1>2, Pointer
<1>4. t.obj[o].ref_count # 0
  <2>1. t.obj[o].ref_count = Count(t.props, o)
    BY <1>2, <1>3 DEF CountOK
  <2>2. Count(t.props, o) # 0
    BY <1>1, <1>2, CountZero
  <2> QED BY <2>1, <2>2
<1>5. Lowered(t, w, n, o)
  BY <1>1, <1>2, <1>3, <1>4, LowerFacts
<1>6. u = IF w.obj[o].ref_count = 0 THEN Then(close_fd(w, o), LAMBDA v : FreeProps(v, fd, o))
          ELSE [w EXCEPT !.props[fd] = NULL]
  BY <1>1, <1>2 DEF clear_fd_properties, FreeProps, Then
<1>7. CASE w.obj[o].ref_count # 0
  <2>1. u = [w EXCEPT !.props[fd] = NULL]
    BY <1>6, <1>7
  <2> QED BY <2>1, <1>1, <1>3, <1>5, <1>7, SharedFacts
<1>8. CASE w.obj[o].ref_count = 0
  <2>1. PICK v : v = close_fd(w, o)
    OBVIOUS
  <2>2. u = IF Runs(v) THEN FreeProps(v, fd, o) ELSE v
    BY <1>6, <1>8, <2>1 DEF Then
  <2>3. Only(t, w, {"obj"}) /\ ObjTyped(w.obj, n)
    BY <1>5 DEF Lowered
  <2>4. /\ DOMAIN w = Fields /\ w.props = t.props /\ w.active = t.active /\ w.cached = t.cached /\ w.disk = t.disk
        /\ w.wish = t.wish /\ w.fate = t.fate
    BY <2>3 DEF Only, Fields
  <2>5. \A p \in Objs : w.obj[p].filename = t.obj[p].filename /\ w.obj[p].flags = t.obj[p].flags
    BY <1>5 DEF Lowered, DataBut
  <2>6. WishOK(w.disk, w.wish, w.obj)
    BY <1>2, <2>4, <2>5 DEF WishOK
  <2>7. Finalising(w, v, n, o)
    BY <1>2, <1>3, <2>1, <2>3, <2>4, <2>6 DEF Finalising, Pointers, Runs
  <2>8. CASE Only(w, v, {"fate"}) /\ v.fate \in {"fault", "hang"}
    <3>1. u = v
      BY <2>2, <2>8 DEF Runs
    <3>2. Only(t, v, {"obj", "fate"})
      BY <2>3, <2>8, OnlyChain
    <3>3. v.obj = w.obj
      BY <2>8 DEF Only, Fields
    <3> QED BY <2>3, <2>8, <3>1, <3>2, <3>3 DEF Died
  <2>9. CASE Finalised(w, v, n, o)
    <3>1. Uncounted(v, n, fd, o) /\ v.props = t.props /\ Only(t, v, {"obj", "disk", "wish", "ret"})
      BY <2>9, <1>1, <1>3, <1>5, <1>8, LastUncounted
    <3>2. v.fate = t.fate
      BY <3>1 DEF Only, Fields
    <3>3. u = FreeProps(v, fd, o)
      BY <2>2, <3>2, <1>2 DEF Runs
    <3>4. DiskTyped(v.disk, v.wish)
      BY <2>9 DEF Finalised
    <3>5. Cleared(v, u, n, fd)
      BY <3>1, <3>3, <3>4, FreeFacts
    <3>6. Only(t, u, {"obj", "props", "active", "cached", "disk", "wish", "ret"})
      <4>1. Only(v, u, {"obj", "props", "active", "cached", "disk", "wish", "ret"})
        BY <3>5 DEF Cleared
      <4>2. Only(t, v, {"obj", "disk", "wish", "ret"})
        BY <3>1
      <4> QED BY <4>1, <4>2, OnlyChain
    <3>7. \A p \in Objs : v.obj[p].filename = t.obj[p].filename
      <4>1. SameNames(w.obj, v.obj)
        BY <2>9 DEF Finalised
      <4> QED BY <4>1, <2>5 DEF SameNames
    <3>8. PropsSame(fd, t.props, t.obj, u.props, u.obj)
      <4>1. PropsSame(fd, t.props, v.obj, u.props, u.obj) /\ u.props = With(t.props, fd, NULL)
        BY <3>1, <3>5 DEF Cleared
      <4>2. u.props \in [Fds -> 0..n]
        BY <3>5 DEF Cleared, Pointers
      <4>3. ASSUME NEW x \in Fds, x # fd, u.props[x] # NULL
            PROVE  u.obj[u.props[x]].filename = t.obj[u.props[x]].filename
        <5>1. u.obj[u.props[x]].filename = v.obj[u.props[x]].filename
          BY <4>1, <4>3 DEF PropsSame
        <5>2. u.props[x] \in Objs
          BY <4>2, <4>3, <1>2, Pointer
        <5> QED BY <5>1, <5>2, <3>7
      <4> QED BY <4>1, <4>3 DEF PropsSame
    <3> QED BY <3>1, <3>5, <3>6, <3>8 DEF Cleared
  <2> QED BY <2>7, <2>8, <2>9, CloseFdFacts
<1> QED BY <1>7, <1>8

-----------------------------------------------------------------------------
(* The extension and the context of a descriptor. *)

\* What a call leaves: all is in order, or the call has not returned.
Fair(t, n) == Base(t, n) /\ (Runs(t) => Sound(t, n))

LEMMA SoundFair == ASSUME NEW t, NEW n, Sound(t, n) PROVE Fair(t, n)
BY DEF Sound, Fair

Hooking(t, u, n, fd, f) ==
  /\ Sound(t, n) /\ fd \in Fds /\ fd # t.nul /\ f \in BOOLEAN /\ (f => t.jft[fd] # NULL /\ t.sft[t.jft[fd]] = "nul")
  /\ u = set_function(t, fd, f)

\* __FSEXT_set_function for a handle of the null device, or to reset an entry.
LEMMA HookSound ==
  ASSUME NEW t, NEW u, NEW n, NEW fd, NEW f, Hooking(t, u, n, fd, f)
  PROVE  Sound(u, n) /\ u.func[fd] = f /\ Only(t, u, {"func"})
<1>1. /\ Sound(t, n) /\ fd \in Fds /\ fd # t.nul /\ f \in BOOLEAN /\ (f => t.jft[fd] # NULL /\ t.sft[t.jft[fd]] = "nul")
      /\ DOMAIN t = Fields /\ t.func \in [Fds -> BOOLEAN]
  BY DEF Hooking, Sound, Base
<1>2. Only(t, u, {"func"}) /\ u.func = [t.func EXCEPT ![fd] = f]
  BY <1>1, FunctionOnly DEF Hooking
<1>3. /\ DOMAIN u = Fields /\ u.jft = t.jft /\ u.disk = t.disk /\ u.wish = t.wish /\ u.props = t.props /\ u.obj = t.obj
      /\ u.active = t.active /\ u.cached = t.cached /\ u.data = t.data
      /\ u.dup_count = t.dup_count /\ u.nul = t.nul /\ u.fate = t.fate /\ u.sft = t.sft
  BY <1>2 DEF Only, Fields
<1>4. u.func \in [Fds -> BOOLEAN] /\ u.func[fd] = f /\ \A x \in Fds : x # fd => u.func[x] = t.func[x]
  BY <1>1, <1>2
<1>5. Base(u, n) /\ Runs(u)
  BY <1>1, <1>3, <1>4 DEF Sound, Base, Runs
<1>6. FuncOK(u.jft, u.sft, u.func)
  <2>1. FuncOK(t.jft, t.sft, t.func)
    BY <1>1 DEF Sound
  <2> QED BY <2>1, <1>1, <1>3, <1>4 DEF FuncOK
<1>7. NulOK(u.jft, u.sft, u.func, u.data, u.props, u.nul)
  <2>1. NulOK(t.jft, t.sft, t.func, t.data, t.props, t.nul) /\ t.nul \in Fds \union {-1}
    BY <1>1 DEF Sound, Base
  <2> QED BY <2>1, <1>1, <1>3, <1>4 DEF NulOK
<1>8. Sound(u, n)
  BY <1>1, <1>3, <1>5, <1>6, <1>7 DEF Sound
<1> QED BY <1>2, <1>4, <1>8

LEMMA ResetSound ==
  ASSUME NEW t, NEW n, Sound(t, n), NEW fd \in Fds, fd # t.nul, NEW u, u = set_function(t, fd, FALSE)
  PROVE  Sound(u, n) /\ u.func[fd] = FALSE /\ Only(t, u, {"func"})
<1>1. PICK f : f = FALSE
  OBVIOUS
<1>2. Hooking(t, u, n, fd, f)
  BY <1>1 DEF Hooking
<1>3. Sound(u, n) /\ u.func[fd] = f /\ Only(t, u, {"func"})
  BY <1>2, HookSound
<1> QED BY <1>1, <1>3

\* u is t but for the context of fd and the counts of contexts.
Attaching(t, u, n, fd, d) ==
  /\ Sound(t, n) /\ fd \in Fds /\ fd # t.nul /\ t.nul # -1 /\ d \in Data \union {NULL}
  /\ Only(t, u, {"data", "dup_count"}) /\ u.data = With(t.data, fd, d) /\ u.dup_count \in [Data -> Nat]
  /\ Held(u.data, u.dup_count)

LEMMA AttachSound ==
  ASSUME NEW t, NEW u, NEW n, NEW fd, NEW d, Attaching(t, u, n, fd, d)
  PROVE  Sound(u, n)
<1>1. /\ Sound(t, n) /\ fd \in Fds /\ fd # t.nul /\ t.nul # -1 /\ d \in Data \union {NULL}
      /\ Only(t, u, {"data", "dup_count"}) /\ u.data = With(t.data, fd, d) /\ u.dup_count \in [Data -> Nat]
      /\ Held(u.data, u.dup_count) /\ t.data \in [Fds -> Data \union {NULL}] /\ t.nul \in Fds
  BY DEF Attaching, Sound, Base, DataTyped
<1>2. /\ DOMAIN u = Fields /\ u.jft = t.jft /\ u.disk = t.disk /\ u.wish = t.wish /\ u.props = t.props /\ u.obj = t.obj
      /\ u.active = t.active /\ u.cached = t.cached /\ u.func = t.func
      /\ u.nul = t.nul /\ u.fate = t.fate /\ u.sft = t.sft
  BY <1>1 DEF Only, Fields
<1>3. u.data \in [Fds -> Data \union {NULL}] /\ u.data[t.nul] = t.data[t.nul]
  BY <1>1 DEF With
<1>4. Base(u, n) /\ Runs(u)
  BY <1>1, <1>2, <1>3 DEF Sound, Base, Runs, DataTyped
<1>5. NulOK(u.jft, u.sft, u.func, u.data, u.props, u.nul)
  BY <1>1, <1>2, <1>3 DEF Sound, NulOK
<1> QED BY <1>1, <1>2, <1>4, <1>5 DEF Sound

\* A context stays counted when fd takes another one, or none.
Recount(data, dup_count, d, c, fd, w) ==
  /\ data \in [Fds -> Data \union {NULL}] /\ dup_count \in [Data -> Nat] /\ Held(data, dup_count) /\ fd \in Fds
  /\ w \in Data \union {NULL} /\ d = With(data, fd, w)
  /\ c \in [Data -> Nat]
  /\ \A x \in Data : x # w => c[x] >= dup_count[x] - (IF x = data[fd] THEN 1 ELSE 0)
  /\ w # NULL => IF \A x \in Fds : data[x] # w THEN c[w] = 1 ELSE c[w] = dup_count[w] + 1

LEMMA HeldKept ==
  ASSUME NEW data, NEW dup_count, NEW d, NEW c, NEW fd, NEW w, Recount(data, dup_count, d, c, fd, w)
  PROVE  Held(d, c)
<1> USE DEF Recount
<1>1. ASSUME NEW x \in Data PROVE Count(data, x) \in Nat /\ Count(d, x) \in Nat /\ dup_count[x] >= Count(data, x)
                                  /\ c[x] \in Nat /\ dup_count[x] \in Nat
  <2>1. Count(data, x) \in 0..NFds /\ Count(d, x) \in 0..NFds
    BY CountType
  <2>2. Count(data, x) \in Nat /\ Count(d, x) \in Nat
    BY <2>1, Bounds
  <2> QED BY <2>2 DEF Held
<1>2. CASE data[fd] = w
  <2>1. d = data
    BY <1>2 DEF With
  <2>2. ASSUME NEW x \in Data PROVE c[x] >= Count(d, x)
    <3>1. CASE x = w
      <4>1. c[w] = dup_count[w] + 1
        <5>1. w # NULL
          BY <3>1, Bounds DEF Data, NULL
        <5> QED BY <5>1, <1>2
      <4> QED BY <3>1, <4>1, <2>1, <1>1
    <3>2. CASE x # w
      BY <3>2, <2>1, <1>1, <1>2
    <3> QED BY <3>1, <3>2
  <2> QED BY <2>2 DEF Held
<1>3. CASE data[fd] # w
  <2>1. /\ Count(d, w) = Count(data, w) + 1 /\ Count(d, data[fd]) = Count(data, data[fd]) - 1
        /\ \A v : v # w /\ v # data[fd] => Count(d, v) = Count(data, v)
    <3>1. DOMAIN data = Fds
      OBVIOUS
    <3> QED BY <3>1, <1>3, CountSet
  <2>2. ASSUME NEW x \in Data PROVE c[x] >= Count(d, x)
    <3>1. CASE x = w
      <4>1. w # NULL
        BY <3>1, Bounds DEF Data, NULL
      <4>2. CASE \A y \in Fds : data[y] # w
        <5>1. Count(data, w) = 0
          BY <4>2, CountZero
        <5> QED BY <3>1, <4>1, <4>2, <5>1, <2>1
      <4>3. CASE ~ \A y \in Fds : data[y] # w
        <5>1. c[w] = dup_count[w] + 1
          BY <4>1, <4>3
        <5> QED BY <3>1, <5>1, <2>1, <1>1
      <4> QED BY <4>2, <4>3
    <3>2. CASE x # w /\ x = data[fd]
      <4>1. c[x] >= dup_count[x] - 1
        BY <3>2
      <4>2. Count(d, x) = Count(data, x) - 1
        BY <3>2, <2>1
      <4> QED BY <4>1, <4>2, <1>1
    <3>3. CASE x # w /\ x # data[fd]
      <4>1. c[x] >= dup_count[x]
        BY <3>3, <1>1
      <4>2. Count(d, x) = Count(data, x)
        BY <3>3, <2>1
      <4> QED BY <4>1, <4>2, <1>1
    <3> QED BY <3>1, <3>2, <3>3
  <2> QED BY <2>2 DEF Held
<1> QED BY <1>2, <1>3

LEMMA ContextType == ASSUME NEW d PROVE d \in Data => d # NULL
BY Bounds DEF Data, NULL

Detaching(t, u, n, fd) ==
  /\ Sound(t, n) /\ fd \in Fds /\ fd # t.nul /\ t.data[fd] # NULL
  /\ Only(t, u, {"data", "dup_count"}) /\ u.data = With(t.data, fd, NULL)
  /\ u.dup_count = [t.dup_count EXCEPT ![t.data[fd]] = @ - 1]

LEMMA DetachSound ==
  ASSUME NEW t, NEW u, NEW n, NEW fd, Detaching(t, u, n, fd)
  PROVE  Sound(u, n)
<1>1. /\ Sound(t, n) /\ fd \in Fds /\ fd # t.nul /\ t.data[fd] # NULL /\ Only(t, u, {"data", "dup_count"})
      /\ u.data = With(t.data, fd, NULL) /\ u.dup_count = [t.dup_count EXCEPT ![t.data[fd]] = @ - 1]
  BY DEF Detaching
<1>2. PICK data, dup_count, d, c : data = t.data /\ dup_count = t.dup_count /\ d = u.data /\ c = u.dup_count
  OBVIOUS
<1>3. data \in [Fds -> Data \union {NULL}] /\ dup_count \in [Data -> Nat] /\ Held(data, dup_count)
  BY <1>1, <1>2 DEF Sound, Base, DataTyped
<1>4. PICK x : x = data[fd]
  OBVIOUS
<1>5. x \in Data /\ c = [dup_count EXCEPT ![x] = dup_count[x] - 1]
  BY <1>1, <1>2, <1>3, <1>4
<1>6. dup_count[x] \in Nat /\ dup_count[x] > 0
  <2>1. Count(data, x) \in 0..NFds
    BY CountType
  <2>2. Count(data, x) # 0
    BY <1>1, <1>4, CountZero
  <2>3. dup_count[x] >= Count(data, x) /\ dup_count[x] \in Nat
    BY <1>3, <1>5 DEF Held
  <2> QED BY <2>1, <2>2, <2>3, Bounds
<1>7. c \in [Data -> Nat] /\ c[x] = dup_count[x] - 1 /\ \A y \in Data : y # x => c[y] = dup_count[y]
  BY <1>3, <1>5, <1>6
<1>8. Recount(data, dup_count, d, c, fd, NULL)
  <2>1. d = With(data, fd, NULL)
    BY <1>1, <1>2
  <2>2. ASSUME NEW y \in Data PROVE c[y] >= dup_count[y] - (IF y = data[fd] THEN 1 ELSE 0)
    <3>1. dup_count[y] \in Nat
      BY <1>3
    <3> QED BY <3>1, <1>4, <1>7
  <2> QED BY <2>1, <2>2, <1>1, <1>3, <1>7 DEF Recount
<1>9. Held(d, c)
  BY <1>8, HeldKept
<1>10. t.nul # -1
  <2>1. NulOK(t.jft, t.sft, t.func, t.data, t.props, t.nul)
    BY <1>1 DEF Sound
  <2> QED BY <2>1, <1>1 DEF NulOK
<1>11. Attaching(t, u, n, fd, NULL)
  BY <1>1, <1>2, <1>7, <1>9, <1>10 DEF Attaching
<1> QED BY <1>11, AttachSound

-----------------------------------------------------------------------------
(* _close. *)

PropFields == {"obj", "props", "active", "cached", "disk", "wish", "ret"}

\* u is t but for the handle of fd, which is not in the hands of an extension; v is u
\* after the properties that fd had are cleared.
Sweeping(t, u, v, n, fd) ==
  /\ Sound(t, n) /\ n \in 0..NObjs /\ fd \in Fds /\ fd # t.nul /\ t.func[fd] = FALSE
  /\ Only(t, u, {"jft", "sft"}) /\ Others(t.jft, t.sft, u.jft, u.sft, fd)
  /\ v = IF u.props[fd] = NULL THEN u ELSE clear_fd_properties(u, fd)

Swept(t, u, v, n, fd) ==
  /\ Sound(v, n) /\ Only(u, v, PropFields) /\ v.props[fd] = NULL
  /\ (\A x \in Fds : x # fd => v.props[x] = t.props[x]) /\ (t.props[fd] = NULL => v = u)

\* The state after the handle of fd has changed, with new properties in order.
Rebuilt(t, u, v, n, fd) ==
  /\ Sound(t, n) /\ n \in 0..NObjs /\ fd \in Fds /\ fd # t.nul /\ t.func[fd] = FALSE
  /\ Only(t, u, {"jft", "sft"}) /\ Others(t.jft, t.sft, u.jft, u.sft, fd) /\ Only(u, v, PropFields)
  /\ Pointers(v, n) /\ DiskTyped(v.disk, v.wish) /\ v.props = With(t.props, fd, NULL) /\ CountOK(v.props, v.obj)
  /\ CachedOK(v.props, v.cached) /\ WishOK(v.disk, v.wish, v.obj) /\ PropsSame(fd, t.props, t.obj, v.props, v.obj)

LEMMA RebuiltSound ==
  ASSUME NEW t, NEW u, NEW v, NEW n, NEW fd, Rebuilt(t, u, v, n, fd)
  PROVE  Sound(v, n) /\ v.props[fd] = NULL /\ \A x \in Fds : x # fd => v.props[x] = t.props[x]
<1>1. /\ Sound(t, n) /\ n \in 0..NObjs /\ fd \in Fds /\ fd # t.nul /\ t.func[fd] = FALSE
      /\ Only(t, u, {"jft", "sft"}) /\ Others(t.jft, t.sft, u.jft, u.sft, fd) /\ Only(u, v, PropFields)
  BY DEF Rebuilt
<1>2. /\ Pointers(v, n) /\ DiskTyped(v.disk, v.wish) /\ v.props = With(t.props, fd, NULL) /\ CountOK(v.props, v.obj)
      /\ CachedOK(v.props, v.cached) /\ WishOK(v.disk, v.wish, v.obj) /\ PropsSame(fd, t.props, t.obj, v.props, v.obj)
  BY DEF Rebuilt
<1>3. u.func = t.func /\ u.data = t.data /\ u.dup_count = t.dup_count /\ u.nul = t.nul /\ u.fate = t.fate
  BY <1>1 DEF Only, Fields
<1>4. /\ v.func = u.func /\ v.data = u.data /\ v.dup_count = u.dup_count /\ v.nul = u.nul /\ v.fate = u.fate
      /\ v.jft = u.jft /\ v.sft = u.sft /\ DOMAIN v = Fields
  BY <1>1 DEF Only, Fields, PropFields
<1>5. u.jft \in [Fds -> 0..NFds] /\ DosOK(u.jft, u.sft)
  BY <1>1 DEF Others
<1>6. Base(v, n) /\ Runs(v)
  BY <1>1, <1>2, <1>3, <1>4, <1>5 DEF Sound, Base, Runs, Pointers
<1>7. v.props[fd] = NULL /\ \A x \in Fds : x # fd => v.props[x] = t.props[x]
  <2>1. DOMAIN t.props = Fds
    BY <1>1 DEF Sound, Base
  <2> QED BY <2>1, <1>1, <1>2 DEF With
<1>8. FuncOK(v.jft, v.sft, v.func)
  <2>1. FuncOK(t.jft, t.sft, t.func)
    BY <1>1 DEF Sound
  <2> QED BY <2>1, <1>1, <1>3, <1>4, FuncKept
<1>9. NulOK(v.jft, v.sft, v.func, v.data, v.props, v.nul)
  <2>1. NulOK(t.jft, t.sft, t.func, t.data, t.props, t.nul) /\ t.nul \in Fds \union {-1}
    BY <1>1 DEF Sound, Base
  <2>2. NulSame(fd, t.func, t.data, t.props, v.func, v.data, v.props, v.nul)
    BY <2>1, <1>1, <1>3, <1>4, <1>7 DEF NulSame
  <2> QED BY <2>1, <2>2, <1>1, <1>3, <1>4, NulKept
<1>10. FollowOK(v.jft, v.sft, v.props, v.obj)
  <2>1. FollowOK(t.jft, t.sft, t.props, t.obj)
    BY <1>1 DEF Sound
  <2>2. PropsFollow(fd, v.jft, v.sft, v.props, v.obj)
    BY <1>7 DEF PropsFollow
  <2>3. Others(t.jft, t.sft, v.jft, v.sft, fd)
    BY <1>1, <1>4
  <2> QED BY <2>1, <2>2, <2>3, <1>2, FollowKept
<1>11. Sound(v, n)
  BY <1>2, <1>4, <1>5, <1>6, <1>8, <1>9, <1>10 DEF Sound
<1> QED BY <1>7, <1>11

LEMMA SweepFacts ==
  ASSUME NEW t, NEW u, NEW v, NEW n, NEW fd, Sweeping(t, u, v, n, fd)
  PROVE  Swept(t, u, v, n, fd) \/ (Base(v, n) /\ ~Runs(v) /\ v.fate # "exited")
<1>1. /\ Sound(t, n) /\ n \in 0..NObjs /\ fd \in Fds /\ fd # t.nul /\ t.func[fd] = FALSE
      /\ Only(t, u, {"jft", "sft"}) /\ Others(t.jft, t.sft, u.jft, u.sft, fd)
  BY DEF Sweeping
<1>2. /\ DOMAIN u = Fields /\ u.disk = t.disk /\ u.wish = t.wish /\ u.props = t.props /\ u.obj = t.obj
      /\ u.active = t.active /\ u.cached = t.cached /\ u.func = t.func /\ u.data = t.data
      /\ u.dup_count = t.dup_count /\ u.nul = t.nul /\ u.fate = t.fate
  BY <1>1 DEF Only, Fields
<1>3. /\ Pointers(u, n) /\ DiskTyped(u.disk, u.wish) /\ CountOK(u.props, u.obj) /\ CachedOK(u.props, u.cached)
      /\ WishOK(u.disk, u.wish, u.obj) /\ Runs(u) /\ t.props \in [Fds -> 0..n]
  BY <1>1, <1>2 DEF Sound, Base, Pointers, Runs
<1>4. CASE t.props[fd] = NULL
  <2>1. v = u
    BY <1>2, <1>4 DEF Sweeping
  <2>2. u.props = With(t.props, fd, NULL)
    BY <1>1, <1>2, <1>3, <1>4 DEF With
  <2>3. Only(u, u, PropFields) /\ PropsSame(fd, t.props, t.obj, u.props, u.obj)
    BY <1>2 DEF Only, PropsSame
  <2>4. Rebuilt(t, u, v, n, fd)
    BY <2>1, <2>2, <2>3, <1>1, <1>3 DEF Rebuilt
  <2> QED BY <2>1, <2>3, <2>4, RebuiltSound DEF Swept
<1>5. CASE t.props[fd] # NULL
  <2>1. Clearing(u, v, n, fd)
    BY <1>1, <1>2, <1>3, <1>5 DEF Clearing, Sweeping
  <2>2. CASE Cleared(u, v, n, fd)
    <3>1. Rebuilt(t, u, v, n, fd)
      BY <2>2, <1>1, <1>2 DEF Rebuilt, Cleared, PropFields
    <3>2. Only(u, v, PropFields)
      BY <3>1 DEF Rebuilt
    <3> QED BY <3>1, <3>2, <1>5, RebuiltSound DEF Swept
  <2>3. CASE Died(u, v, n)
    <3>1. Only(u, v, {"obj", "fate"}) /\ ObjTyped(v.obj, n) /\ v.fate \in {"fault", "hang"}
      BY <2>3 DEF Died
    <3>2. /\ DOMAIN v = Fields /\ v.disk = u.disk /\ v.wish = u.wish /\ v.props = u.props
          /\ v.active = u.active /\ v.cached = u.cached /\ v.func = u.func /\ v.data = u.data
          /\ v.dup_count = u.dup_count /\ v.nul = u.nul /\ v.jft = u.jft
      BY <3>1 DEF Only, Fields
    <3>3. u.jft \in [Fds -> 0..NFds]
      BY <1>1 DEF Others
    <3> QED BY <1>1, <1>2, <3>1, <3>2, <3>3 DEF Base, Sound, Runs
  <2> QED BY <2>1, <2>2, <2>3, ClearFacts
<1> QED BY <1>4, <1>5

\* The close of the extension's own part.
LEMMA DevCloseSound ==
  ASSUME NEW t, NEW n, Sound(t, n), NEW fd \in Fds, fd # t.nul, t.data[fd] # NULL, NEW u, u = dev_close(t, fd)
  PROVE  Sound(u, n) /\ u.func[fd] = FALSE /\ Only(t, u, {"func", "data", "dup_count"})
<1>1. PICK w : w = set_function(t, fd, FALSE)
  OBVIOUS
<1>2. Sound(w, n) /\ w.func[fd] = FALSE /\ Only(t, w, {"func"})
  BY <1>1, ResetSound
<1>3. w.data = t.data /\ w.dup_count = t.dup_count /\ w.nul = t.nul /\ DOMAIN w = Fields
  BY <1>2 DEF Only, Fields
<1>4. /\ Only(w, u, {"data", "dup_count"}) /\ u.data = With(w.data, fd, NULL)
      /\ u.dup_count = [w.dup_count EXCEPT ![w.data[fd]] = @ - 1]
  <2>1. DOMAIN t = Fields
    BY DEF Sound, Base
  <2> QED BY <2>1, <1>1, <1>3 DEF Only, Fields, dev_close, set_function, set_data, With
<1>5. Detaching(w, u, n, fd)
  BY <1>2, <1>3, <1>4 DEF Detaching
<1>6. u.func = w.func
  BY <1>4 DEF Only, Fields
<1>7. Only(t, u, {"func", "data", "dup_count"})
  BY <1>2, <1>4, OnlyChain
<1> QED BY <1>2, <1>5, <1>6, <1>7, DetachSound

\* A descriptor with nothing but a handle, or closed.
Plain(t, fd) == fd \in Fds /\ t.props[fd] = NULL /\ t.func[fd] = FALSE /\ t.nul # fd

LEMMA CloseOpen ==
  ASSUME NEW t, NEW n \in 0..NObjs, Sound(t, n), NEW fd \in Fds, fd # t.nul, t.func[fd] = FALSE,
         NEW u, u = DosClose(t, fd), NEW v, v = IF u.props[fd] = NULL THEN u ELSE clear_fd_properties(u, fd)
  PROVE  /\ Only(t, u, {"jft", "sft"}) /\ Others(t.jft, t.sft, u.jft, u.sft, fd)
         /\ (Swept(t, u, v, n, fd) \/ (Base(v, n) /\ ~Runs(v) /\ v.fate # "exited"))
<1>1. Tables(t)
  BY SoundTables
<1>2. PICK w : w = NULL
  OBVIOUS
<1>3. u = Prune([t EXCEPT !.jft[fd] = w])
  BY <1>2 DEF DosClose
<1>4. Only(t, u, {"jft", "sft"}) /\ Others(t.jft, t.sft, u.jft, u.sft, fd)
  BY <1>1, <1>2, <1>3, PruneFacts
<1>5. Sweeping(t, u, v, n, fd)
  BY <1>4 DEF Sweeping
<1> QED BY <1>4, <1>5, SweepFacts

LEMMA ReturnsFair ==
  ASSUME NEW t, NEW n, Fair(t, n), NEW r, NEW u, u = Returns(t, r)
  PROVE  Fair(u, n) /\ Only(t, u, {"ret"}) /\ u.ret = r
<1>1. Base(t, n) /\ (Runs(t) => Sound(t, n)) /\ DOMAIN t = Fields
  BY DEF Fair, Base
<1>2. Only(t, u, {"ret"}) /\ u.ret = r
  BY <1>1, ReturnsOnly
<1>3. Base(u, n)
  BY <1>1, <1>2, BaseSame
<1>4. u.fate = t.fate
  BY <1>2 DEF Only, Fields
<1>5. ASSUME Runs(u) PROVE Sound(u, n)
  <2>1. Sound(t, n)
    BY <1>1, <1>4, <1>5 DEF Runs
  <2> QED BY <2>1, <1>2, SoundSame
<1> QED BY <1>2, <1>3, <1>5 DEF Fair

LEMMA ReturnsSound ==
  ASSUME NEW t, NEW n, Sound(t, n), NEW r, NEW u, u = Returns(t, r)
  PROVE  Sound(u, n) /\ Only(t, u, {"ret"}) /\ u.ret = r
<1>1. DOMAIN t = Fields
  BY DEF Sound, Base
<1>2. Only(t, u, {"ret"}) /\ u.ret = r
  BY <1>1, ReturnsOnly
<1> QED BY <1>2, SoundSame

\* A descriptor without properties, or one of the null device, which has no file's.
Parted(t, fd) == t.props[fd] = NULL \/ (t.jft[fd] # NULL /\ t.sft[t.jft[fd]] = "nul")

\* What a close that returned does to the descriptors.
Leaves(t, u, fd) == \A x \in Fds : x = fd \/ Parted(t, x) => Parted(u, x)
CloseEnds(t, u, fd) == u.fate # "exited" /\ (Runs(u) /\ Open(t, fd) => Leaves(t, u, fd))

LEMMA CloseHandleFair ==
  ASSUME NEW t, NEW n \in 0..NObjs, Sound(t, n), NEW fd \in Fds, fd # t.nul, t.func[fd] = FALSE,
         NEW u, u = CloseHandle(t, fd)
  PROVE  Fair(u, n) /\ CloseEnds(t, u, fd)
<1>1. CASE ~Open(t, fd)
  <2>1. PICK r : r = -1
    OBVIOUS
  <2>2. u = Returns(t, r)
    BY <1>1, <2>1 DEF CloseHandle
  <2>3. Sound(u, n)
    BY <2>2, ReturnsSound
  <2>4. u.fate = "running"
    BY <2>3 DEF Sound, Runs
  <2> QED BY <1>1, <2>3, <2>4, SoundFair DEF CloseEnds
<1>2. CASE Open(t, fd)
  <2>1. PICK w : w = DosClose(t, fd)
    OBVIOUS
  <2>2. PICK v, r : v = (IF w.props[fd] = NULL THEN w ELSE clear_fd_properties(w, fd)) /\ r = 0
    OBVIOUS
  <2>3. u = Returns(v, r)
    BY <1>2, <2>1, <2>2 DEF CloseHandle
  <2>4. /\ Others(t.jft, t.sft, w.jft, w.sft, fd)
        /\ Swept(t, w, v, n, fd) \/ (Base(v, n) /\ ~Runs(v) /\ v.fate # "exited")
    BY <2>1, <2>2, CloseOpen
  <2>5. Fair(v, n)
    BY <2>4 DEF Swept, Fair, Sound
  <2>6. Fair(u, n) /\ Only(v, u, {"ret"})
    BY <2>3, <2>5, ReturnsFair
  <2>7. u.fate = v.fate /\ u.props = v.props /\ u.jft = v.jft /\ u.sft = v.sft
    BY <2>6 DEF Only, Fields
  <2>8. CASE ~Runs(v) /\ v.fate # "exited"
    BY <2>6, <2>7, <2>8 DEF CloseEnds, Runs
  <2>9. CASE Swept(t, w, v, n, fd)
    <3>1. /\ Sound(v, n) /\ Only(w, v, PropFields) /\ v.props[fd] = NULL
          /\ \A x \in Fds : x # fd => v.props[x] = t.props[x]
      BY <2>9 DEF Swept
    <3>2. v.jft = w.jft /\ v.sft = w.sft
      BY <3>1 DEF Only, Fields, PropFields
    <3>3. v.fate = "running"
      BY <3>1 DEF Sound, Runs
    <3>4. \A x \in Fds : x # fd => w.jft[x] = t.jft[x] /\ (w.jft[x] # NULL => w.sft[w.jft[x]] = t.sft[t.jft[x]])
      BY <2>4 DEF Others
    <3>5. Leaves(t, u, fd)
      BY <2>7, <3>1, <3>2, <3>4 DEF Leaves, Parted
    <3> QED BY <2>6, <2>7, <3>3, <3>5 DEF CloseEnds
  <2> QED BY <2>4, <2>8, <2>9
<1> QED BY <1>1, <1>2

LEMMA CloseFair ==
  ASSUME NEW t, NEW n \in 0..NObjs, Sound(t, n), NEW fd \in Fds, fd # t.nul, NEW u, u = _close(t, fd)
  PROVE  Fair(u, n) /\ CloseEnds(t, u, fd)
<1>1. CASE t.func[fd] /\ t.data[fd] = NULL
  <2>1. PICK w, r : w = set_function(t, fd, FALSE) /\ r = -1
    OBVIOUS
  <2>2. u = Returns(w, r)
    BY <1>1, <2>1 DEF _close
  <2>3. Sound(w, n) /\ Only(t, w, {"func"})
    BY <2>1, ResetSound
  <2>4. Sound(u, n) /\ Only(w, u, {"ret"})
    BY <2>2, <2>3, ReturnsSound
  <2>5. w.props = t.props /\ w.jft = t.jft /\ w.sft = t.sft
    BY <2>3 DEF Only, Fields
  <2>6. u.props = w.props /\ u.jft = w.jft /\ u.sft = w.sft
    BY <2>4 DEF Only, Fields
  <2>7. u.fate = "running"
    BY <2>4 DEF Sound, Runs
  <2>8. t.jft[fd] # NULL /\ t.sft[t.jft[fd]] = "nul"
    BY <1>1 DEF Sound, FuncOK
  <2>9. Leaves(t, u, fd)
    BY <2>5, <2>6, <2>8 DEF Leaves, Parted
  <2> QED BY <2>4, <2>7, <2>9, SoundFair DEF CloseEnds
<1>2. CASE t.func[fd] /\ t.data[fd] # NULL
  <2>1. PICK w : w = dev_close(t, fd)
    OBVIOUS
  <2>2. u = CloseHandle(w, fd)
    BY <1>2, <2>1 DEF _close
  <2>3. Sound(w, n) /\ w.func[fd] = FALSE /\ Only(t, w, {"func", "data", "dup_count"})
    BY <1>2, <2>1, DevCloseSound
  <2>4. fd # w.nul /\ w.props = t.props /\ w.jft = t.jft /\ w.sft = t.sft
    BY <2>3 DEF Only, Fields
  <2>5. Fair(u, n) /\ CloseEnds(w, u, fd)
    BY <2>2, <2>3, <2>4, CloseHandleFair
  <2>6. Leaves(w, u, fd) => Leaves(t, u, fd)
    BY <2>4 DEF Leaves, Parted
  <2> QED BY <2>4, <2>5, <2>6 DEF CloseEnds, Open
<1>3. CASE ~t.func[fd]
  <2>1. u = CloseHandle(t, fd)
    BY <1>3 DEF _close
  <2>2. t.func[fd] = FALSE
    <3>1. t.func \in [Fds -> BOOLEAN]
      BY DEF Sound, Base
    <3> QED BY <3>1, <1>3
  <2> QED BY <2>1, <2>2, CloseHandleFair
<1> QED BY <1>1, <1>2, <1>3

\* The close of a descriptor without properties changes no other.
ClosedPlain(t, u, n, fd) ==
  /\ Sound(u, n) /\ Only(t, u, {"jft", "sft", "ret"})
  /\ \A x \in Fds : x # fd => u.jft[x] = t.jft[x] /\ (u.jft[x] # NULL => u.sft[u.jft[x]] = t.sft[t.jft[x]])

LEMMA ClosePlain ==
  ASSUME NEW t, NEW n \in 0..NObjs, Sound(t, n), NEW fd, Plain(t, fd), NEW u, u = _close(t, fd)
  PROVE  ClosedPlain(t, u, n, fd)
<1>1. fd \in Fds /\ t.props[fd] = NULL /\ t.func[fd] = FALSE /\ fd # t.nul
  BY DEF Plain
<1>2. u = CloseHandle(t, fd)
  BY <1>1 DEF _close
<1>3. CASE ~Open(t, fd)
  <2>1. PICK r : r = -1
    OBVIOUS
  <2>2. u = Returns(t, r)
    BY <1>2, <1>3, <2>1 DEF CloseHandle
  <2>3. Sound(u, n) /\ Only(t, u, {"ret"})
    BY <2>2, ReturnsSound
  <2>4. u.jft = t.jft /\ u.sft = t.sft /\ Only(t, u, {"jft", "sft", "ret"})
    BY <2>3 DEF Only, Fields
  <2> QED BY <2>3, <2>4 DEF ClosedPlain
<1>4. CASE Open(t, fd)
  <2>1. PICK w : w = DosClose(t, fd)
    OBVIOUS
  <2>2. PICK v, r : v = (IF w.props[fd] = NULL THEN w ELSE clear_fd_properties(w, fd)) /\ r = 0
    OBVIOUS
  <2>3. u = Returns(v, r)
    BY <1>2, <1>4, <2>1, <2>2 DEF CloseHandle
  <2>4. /\ Only(t, w, {"jft", "sft"}) /\ Others(t.jft, t.sft, w.jft, w.sft, fd)
        /\ (Swept(t, w, v, n, fd) \/ (Base(v, n) /\ ~Runs(v) /\ v.fate # "exited"))
    BY <1>1, <2>1, <2>2, CloseOpen
  <2>5. w.props = t.props /\ w.fate = t.fate
    BY <2>4 DEF Only, Fields
  <2>6. v = w /\ Runs(v)
    BY <2>2, <2>5, <1>1 DEF Runs, Sound
  <2>7. Sound(w, n)
    BY <2>4, <2>6 DEF Swept
  <2>8. Sound(u, n) /\ Only(w, u, {"ret"})
    BY <2>3, <2>6, <2>7, ReturnsSound
  <2>9. u.jft = w.jft /\ u.sft = w.sft
    BY <2>8 DEF Only, Fields
  <2>10. Only(t, u, {"jft", "sft", "ret"})
    BY <2>4, <2>8, OnlyChain
  <2> QED BY <2>4, <2>8, <2>9, <2>10 DEF ClosedPlain, Others
<1> QED BY <1>3, <1>4

-----------------------------------------------------------------------------
(* dup and dup2. *)

\* Two descriptors of one open file, and the one without properties takes those of the other.
Sharing(t, u, n, from, to, o) ==
  /\ n \in 0..NObjs /\ Sound(t, n) /\ from \in Fds /\ to \in Fds /\ to # t.nul /\ t.jft[to] = t.jft[from]
  /\ t.props[to] = NULL /\ t.props[from] = o /\ o # NULL
  /\ u = [t EXCEPT !.props[to] = o, !.obj[o].ref_count = @ + 1]

LEMMA ShareTables ==
  ASSUME NEW t, NEW u, NEW n, NEW from, NEW to, NEW o, Sharing(t, u, n, from, to, o)
  PROVE  /\ Only(t, u, {"props", "obj"}) /\ u.props = With(t.props, to, o) /\ u.props \in [Fds -> 0..n]
         /\ ObjTyped(u.obj, n) /\ CountOK(u.props, u.obj)
         /\ \A p \in Objs : u.obj[p].filename = t.obj[p].filename /\ u.obj[p].flags = t.obj[p].flags
<1>1. /\ n \in 0..NObjs /\ Sound(t, n) /\ from \in Fds /\ to \in Fds /\ t.props[to] = NULL /\ t.props[from] = o /\ o # NULL
      /\ u = [t EXCEPT !.props[to] = o, !.obj[o].ref_count = @ + 1]
  BY DEF Sharing
<1>2. PICK f, g, a, b : f = t.props /\ g = u.props /\ a = t.obj /\ b = u.obj
  OBVIOUS
<1>3. DOMAIN t = Fields /\ f \in [Fds -> 0..n] /\ ObjTyped(a, n) /\ CountOK(f, a)
  BY <1>1, <1>2 DEF Sound, Base
<1>4. f[to] = NULL /\ f[from] = o
  BY <1>1, <1>2
<1>5. o \in 0..n /\ o \in Objs
  <2>1. o \in 0..n
    BY <1>1, <1>3, <1>4
  <2> QED BY <2>1, <1>1, Pointer
<1>6. PICK v : v = a[o].ref_count + 1
  OBVIOUS
<1>7. Only(t, u, {"props", "obj"}) /\ g = With(f, to, o) /\ b = WithCount(a, o, v)
  BY <1>1, <1>2, <1>3, <1>6 DEF Only, Fields, With, WithCount
<1>8. Count(g, o) = Count(f, o) + 1 /\ \A p : p # o /\ p # NULL => Count(g, p) = Count(f, p)
  <2>1. DOMAIN f = Fds /\ f[to] # o
    BY <1>1, <1>3, <1>4
  <2>2. Count(g, o) = Count(f, o) + 1 /\ \A p : p # o /\ p # f[to] => Count(g, p) = Count(f, p)
    BY <2>1, <1>1, <1>7, CountSet
  <2> QED BY <2>2, <1>4
<1>9. v = Count(g, o)
  <2>1. a[o].ref_count = Count(f, o)
    BY <1>3, <1>5 DEF CountOK
  <2> QED BY <2>1, <1>6, <1>8
<1>10. v \in 0..NFds
  BY <1>9, CountType
<1>11. /\ ObjTyped(b, n) /\ DataBut(a, b, o) /\ b[o].ref_count = v /\ b[o].filename = a[o].filename
       /\ b[o].flags = a[o].flags
  BY <1>3, <1>5, <1>7, <1>10, SetCount
<1>12. CountOK(g, b)
  <2>1. ASSUME NEW p \in Objs PROVE b[p].ref_count = Count(g, p) /\ (b[p].filename # "" => b[p].ref_count # 0)
    <3>1. a[p].ref_count = Count(f, p) /\ (a[p].filename # "" => a[p].ref_count # 0)
      BY <1>3 DEF CountOK
    <3>2. CASE p = o
      <4>1. Count(f, o) \in 0..NFds
        BY CountType
      <4>2. v # 0
        BY <4>1, <1>8, <1>9, Bounds
      <4> QED BY <3>2, <4>2, <1>9, <1>11
    <3>3. CASE p # o
      <4>1. p # NULL
        BY Bounds DEF Objs, NULL
      <4>2. b[p].ref_count = a[p].ref_count /\ b[p].filename = a[p].filename
        BY <3>3, <1>11 DEF DataBut
      <4> QED BY <3>1, <3>3, <4>1, <4>2, <1>8
    <3> QED BY <3>2, <3>3
  <2> QED BY <2>1 DEF CountOK
<1>13. g \in [Fds -> 0..n]
  BY <1>1, <1>3, <1>5, <1>7 DEF With
<1>14. \A p \in Objs : b[p].filename = a[p].filename /\ b[p].flags = a[p].flags
  BY <1>11 DEF DataBut
<1> QED BY <1>2, <1>7, <1>11, <1>12, <1>13, <1>14

LEMMA ShareSound ==
  ASSUME NEW t, NEW u, NEW n, NEW from, NEW to, NEW o, Sharing(t, u, n, from, to, o)
  PROVE  Sound(u, n) /\ Only(t, u, {"props", "obj"})
<1>1. /\ n \in 0..NObjs /\ Sound(t, n) /\ from \in Fds /\ to \in Fds /\ to # t.nul /\ t.jft[to] = t.jft[from]
      /\ t.props[to] = NULL /\ t.props[from] = o /\ o # NULL
  BY DEF Sharing
<1>2. /\ Only(t, u, {"props", "obj"}) /\ u.props = With(t.props, to, o) /\ u.props \in [Fds -> 0..n]
      /\ ObjTyped(u.obj, n) /\ CountOK(u.props, u.obj)
  BY ShareTables
<1>3. \A p \in Objs : u.obj[p].filename = t.obj[p].filename /\ u.obj[p].flags = t.obj[p].flags
  BY ShareTables
<1>4. /\ DOMAIN u = Fields /\ u.jft = t.jft /\ u.sft = t.sft /\ u.disk = t.disk /\ u.wish = t.wish
      /\ u.active = t.active /\ u.cached = t.cached /\ u.func = t.func /\ u.data = t.data
      /\ u.dup_count = t.dup_count /\ u.nul = t.nul /\ u.fate = t.fate
  BY <1>2 DEF Only, Fields
<1>5. Base(u, n) /\ Runs(u)
  BY <1>1, <1>2, <1>4 DEF Sound, Base, Runs
<1>6. u.props[to] = o /\ \A x \in Fds : x # to => u.props[x] = t.props[x]
  <2>1. DOMAIN t.props = Fds
    BY <1>1 DEF Sound, Base
  <2> QED BY <2>1, <1>1, <1>2 DEF With
<1>7. CachedOK(u.props, u.cached)
  <2>1. CachedOK(t.props, t.cached)
    BY <1>1 DEF Sound
  <2> QED BY <2>1, <1>1, <1>4, <1>6 DEF CachedOK
<1>8. WishOK(u.disk, u.wish, u.obj)
  <2>1. WishOK(t.disk, t.wish, t.obj)
    BY <1>1 DEF Sound
  <2> QED BY <2>1, <1>3, <1>4 DEF WishOK
<1>9. Others(t.jft, t.sft, u.jft, u.sft, to)
  BY <1>1, <1>4 DEF Sound, Base, Others
<1>10. NulOK(u.jft, u.sft, u.func, u.data, u.props, u.nul)
  <2>1. NulOK(t.jft, t.sft, t.func, t.data, t.props, t.nul) /\ t.nul \in Fds \union {-1}
    BY <1>1 DEF Sound, Base
  <2>2. NulSame(to, t.func, t.data, t.props, u.func, u.data, u.props, u.nul)
    BY <2>1, <1>1, <1>4, <1>6 DEF NulSame
  <2> QED BY <2>1, <2>2, <1>4, <1>9, NulKept
<1>11. \A x \in Fds : u.props[x] # NULL => u.props[x] \in Objs
  BY <1>1, <1>2, Pointer
<1>12. FollowOK(u.jft, u.sft, u.props, u.obj)
  <2>1. FollowOK(t.jft, t.sft, t.props, t.obj)
    BY <1>1 DEF Sound
  <2>2. PropsSame(to, t.props, t.obj, u.props, u.obj)
    <3>1. ASSUME NEW x \in Fds, x # to PROVE u.props[x] # NULL => u.obj[u.props[x]].filename = t.obj[u.props[x]].filename
      BY <1>3, <1>11
    <3> QED BY <3>1, <1>6 DEF PropsSame
  <2>3. PropsFollow(to, u.jft, u.sft, u.props, u.obj)
    <3>1. /\ t.jft[from] # NULL /\ Fits(t.obj[o].filename, t.sft[t.jft[from]])
          /\ \A x \in Fds : t.props[x] = o => t.jft[x] = t.jft[from]
      BY <2>1, <1>1 DEF FollowOK
    <3>2. u.obj[o].filename = t.obj[o].filename
      BY <1>1, <1>3, <1>6, <1>11
    <3>3. \A x \in Fds : u.props[x] = o => u.jft[x] = u.jft[to]
      BY <3>1, <1>1, <1>4, <1>6
    <3>4. u.jft[to] # NULL /\ Fits(u.obj[o].filename, u.sft[u.jft[to]])
      BY <3>1, <3>2, <1>1, <1>4
    <3> QED BY <3>3, <3>4, <1>6 DEF PropsFollow
  <2> QED BY <2>1, <2>2, <2>3, <1>9, FollowKept
<1>13. DosOK(u.jft, u.sft) /\ FuncOK(u.jft, u.sft, u.func)
  BY <1>1, <1>4 DEF Sound
<1>14. Sound(u, n)
  BY <1>2, <1>5, <1>7, <1>8, <1>10, <1>12, <1>13 DEF Sound
<1> QED BY <1>2, <1>14

\* What dup and dup2 do once the handle is there.
Copying(t, u, n, from, to) ==
  /\ n \in 0..NObjs /\ Sound(t, n) /\ from \in Fds /\ Plain(t, to) /\ t.jft[to] = t.jft[from] /\ t.jft[to] # NULL
  /\ u = dup_fd_properties(set_function(t, to, t.func[from]), from, to)

LEMMA CopySound ==
  ASSUME NEW t, NEW u, NEW n, NEW from, NEW to, Copying(t, u, n, from, to)
  PROVE  Sound(u, n) /\ Only(t, u, {"func", "props", "obj"})
<1>1. /\ n \in 0..NObjs /\ Sound(t, n) /\ from \in Fds /\ to \in Fds /\ t.props[to] = NULL /\ to # t.nul
      /\ t.jft[to] = t.jft[from] /\ t.jft[to] # NULL
  BY DEF Copying, Plain
<1>2. PICK f, w : f = t.func[from] /\ w = set_function(t, to, f)
  OBVIOUS
<1>3. Hooking(t, w, n, to, f)
  <2>1. f \in BOOLEAN
    BY <1>1, <1>2 DEF Sound, Base
  <2>2. f => t.sft[t.jft[to]] = "nul"
    BY <1>1, <1>2 DEF Sound, FuncOK
  <2> QED BY <2>1, <2>2, <1>1, <1>2 DEF Hooking
<1>4. Sound(w, n) /\ Only(t, w, {"func"})
  BY <1>3, HookSound
<1>5. w.props = t.props /\ w.jft = t.jft /\ w.nul = t.nul
  BY <1>4 DEF Only, Fields
<1>6. u = dup_fd_properties(w, from, to)
  BY <1>2 DEF Copying
<1>7. CASE w.props[from] = NULL
  <2>1. u = w
    BY <1>6, <1>7 DEF dup_fd_properties
  <2> QED BY <2>1, <1>4, OnlyMore
<1>8. CASE w.props[from] # NULL
  <2>1. PICK o : o = w.props[from]
    OBVIOUS
  <2>2. Sharing(w, u, n, from, to, o)
    BY <2>1, <1>1, <1>4, <1>5, <1>6, <1>8 DEF Sharing, dup_fd_properties
  <2>3. Sound(u, n) /\ Only(w, u, {"props", "obj"})
    BY <2>2, ShareSound
  <2> QED BY <2>3, <1>4, OnlyChain
<1> QED BY <1>7, <1>8

\* dup either fails or gives another descriptor of the open file.
LEMMA DupSound ==
  ASSUME NEW t, NEW n \in 0..NObjs, Sound(t, n), NEW fd \in Fds, NEW u, u = dup(t, fd)
  PROVE  /\ Sound(u, n) /\ Only(t, u, {"jft", "sft", "ret", "func", "props", "obj"})
<1>1. PICK w : w = DosDup(t, fd)
  OBVIOUS
<1>2. u = IF Failed(w) THEN w ELSE IF Runs(w) THEN dup_fd_properties(set_function(w, w.ret, w.func[fd]), fd, w.ret) ELSE w
  BY <1>1 DEF dup, IfOk, Then
<1>3. CASE w.ret = -1 /\ Only(t, w, {"ret"})
  <2>1. u = w
    BY <1>2, <1>3 DEF Failed
  <2>2. Sound(w, n)
    BY <1>3, SoundSame
  <2>3. Only(t, w, {"ret"})
    BY <1>3
  <2> QED BY <2>1, <2>2, <2>3, OnlyMore
<1>4. CASE t.jft[fd] # NULL /\ Gets(t, w, t.sft[t.jft[fd]]) /\ w.ret # fd /\ w.jft[w.ret] = w.jft[fd]
  <2>1. PICK new, name : new = w.ret /\ name = t.sft[t.jft[fd]]
    OBVIOUS
  <2>2. Sound(w, n) /\ Bare(w, new, name)
    BY <1>4, <2>1, GotSound
  <2>3. new \in Fds /\ new # -1 /\ w.jft[new] # NULL /\ Plain(w, new)
    BY <2>2, FdSet DEF Bare, Plain
  <2>4. u = dup_fd_properties(set_function(w, new, w.func[fd]), fd, new)
    BY <1>2, <2>1, <2>2, <2>3 DEF Failed, Sound
  <2>5. Copying(w, u, n, fd, new)
    BY <1>4, <2>1, <2>2, <2>3, <2>4 DEF Copying
  <2>6. Sound(u, n) /\ Only(w, u, {"func", "props", "obj"})
    BY <2>5, CopySound
  <2>7. Only(t, w, {"jft", "sft", "ret"})
    BY <1>4 DEF Gets
  <2> QED BY <2>6, <2>7, OnlyChain
<1> QED BY <1>1, <1>3, <1>4, SoundTables, DosDupFacts

LEMMA Dup2Fair ==
  ASSUME NEW t, NEW n \in 0..NObjs, Sound(t, n), NEW fd \in Fds, NEW new \in Fds, new # t.nul, NEW fails,
         NEW u, u = dup2(t, fd, new, fails)
  PROVE  Fair(u, n)
<1>1. CASE ~Open(t, fd) \/ fd = new
  <2>1. PICK r : u = Returns(t, r)
    BY <1>1 DEF dup2
  <2> QED BY <2>1, ReturnsSound, SoundFair
<1>2. PICK a : a = set_function(t, new, FALSE)
  OBVIOUS
<1>3. Sound(a, n) /\ a.func[new] = FALSE /\ Only(t, a, {"func"})
  BY <1>2, ResetSound
<1>4. a.jft = t.jft /\ a.nul = t.nul
  BY <1>3 DEF Only, Fields
<1>5. CASE Open(t, fd) /\ fd # new /\ fails
  <2>1. PICK r : u = Returns(a, r)
    BY <1>2, <1>5 DEF dup2
  <2> QED BY <2>1, <1>3, ReturnsSound, SoundFair
<1>6. CASE Open(t, fd) /\ fd # new /\ ~fails
  <2>1. PICK w : w = DosForceDup(a, fd, new)
    OBVIOUS
  <2>2. PICK v : v = IF w.props[new] = NULL THEN w ELSE clear_fd_properties(w, new)
    OBVIOUS
  <2>3. u = IF Runs(v) THEN Returns(dup_fd_properties(set_function(v, new, v.func[fd]), fd, new), new) ELSE v
    BY <1>2, <1>6, <2>1, <2>2 DEF dup2, Then
  <2>4. PICK h : h = a.jft[fd]
    OBVIOUS
  <2>5. /\ Only(a, w, {"jft", "sft"}) /\ Others(a.jft, a.sft, w.jft, w.sft, new) /\ w.jft[new] = h
    <3>1. Tables(a)
      BY <1>3, SoundTables
    <3>2. w = Prune([a EXCEPT !.jft[new] = h])
      BY <2>1, <2>4 DEF DosForceDup
    <3> QED BY <2>4, <3>1, <3>2, PruneFacts
  <2>6. Sweeping(a, w, v, n, new)
    BY <2>2, <2>5, <1>3, <1>4 DEF Sweeping
  <2>7. CASE Base(v, n) /\ ~Runs(v)
    BY <2>3, <2>7 DEF Fair
  <2>8. CASE Swept(a, w, v, n, new)
    <3>1. Sound(v, n) /\ Only(w, v, PropFields) /\ v.props[new] = NULL
      BY <2>8 DEF Swept
    <3>2. v.jft = w.jft /\ v.func = w.func /\ v.nul = w.nul
      BY <3>1 DEF Only, Fields, PropFields
    <3>3. w.func = a.func /\ w.nul = a.nul
      BY <2>5 DEF Only, Fields
    <3>4. w.jft[fd] = h /\ h # NULL
      BY <2>4, <2>5, <1>4, <1>6 DEF Others, Open
    <3>5. Plain(v, new)
      BY <3>1, <3>2, <3>3, <1>3, <1>4 DEF Plain
    <3>6. PICK x : x = dup_fd_properties(set_function(v, new, v.func[fd]), fd, new)
      OBVIOUS
    <3>7. Copying(v, x, n, fd, new)
      BY <2>5, <3>1, <3>2, <3>4, <3>5, <3>6 DEF Copying
    <3>8. Sound(x, n)
      BY <3>7, CopySound
    <3>9. u = Returns(x, new)
      BY <2>3, <3>1, <3>6 DEF Sound
    <3> QED BY <3>8, <3>9, ReturnsSound, SoundFair
  <2> QED BY <2>6, <2>7, <2>8, SweepFacts
<1> QED BY <1>1, <1>5, <1>6

-----------------------------------------------------------------------------
(* Extensions. *)

\* A call has opened the null device for an extension, with f in the table.
Hooked(u, f) ==
  /\ u.ret \in Fds /\ u.nul \in Fds /\ u.ret # u.nul /\ u.jft[u.ret] # NULL /\ u.sft[u.jft[u.ret]] = "nul"
  /\ u.props[u.ret] = NULL /\ u.func[u.ret] = f

\* The null device is open, and its handle is duplicated.
LEMMA CopyNul ==
  ASSUME NEW t, NEW n, Sound(t, n), t.nul # -1, NEW f \in BOOLEAN,
         NEW w, w = DosDup(t, t.nul), NEW u, u = IF Failed(w) THEN w ELSE set_function(w, w.ret, f)
  PROVE  Sound(u, n) /\ (u.ret = -1 \/ Hooked(u, f)) /\ Only(t, u, {"jft", "sft", "ret", "func"})
<1>1. PICK nul : nul = t.nul
  OBVIOUS
<1>2. nul \in Fds /\ t.jft[nul] # NULL /\ t.sft[t.jft[nul]] = "nul"
  BY <1>1 DEF Sound, Base, NulOK
<1>3. w = DosDup(t, nul)
  BY <1>1
<1>4. CASE w.ret = -1 /\ Only(t, w, {"ret"})
  <2>1. u = w
    BY <1>4 DEF Failed
  <2>2. Only(t, w, {"ret"})
    BY <1>4
  <2>3. Only(t, w, {"jft", "sft", "ret", "func"})
    BY <2>2, OnlyMore
  <2> QED BY <2>1, <2>2, <2>3, <1>4, SoundSame
<1>5. CASE t.jft[nul] # NULL /\ Gets(t, w, t.sft[t.jft[nul]]) /\ w.ret # nul /\ w.jft[w.ret] = w.jft[nul]
  <2>1. PICK new, name : new = w.ret /\ name = t.sft[t.jft[nul]]
    OBVIOUS
  <2>2. Sound(w, n) /\ Bare(w, new, name)
    BY <1>5, <2>1, GotSound
  <2>3. new \in Fds /\ w.jft[new] # NULL /\ w.sft[w.jft[new]] = "nul" /\ w.props[new] = NULL /\ w.nul # new
    BY <2>1, <2>2, <1>2 DEF Bare
  <2>4. u = set_function(w, new, f)
    BY <2>1, <2>3, FdSet DEF Failed
  <2>5. Hooking(w, u, n, new, f)
    BY <2>2, <2>3, <2>4 DEF Hooking
  <2>6. Sound(u, n) /\ u.func[new] = f /\ Only(w, u, {"func"})
    BY <2>5, HookSound
  <2>7. /\ u.ret = w.ret /\ u.nul = w.nul /\ u.jft = w.jft /\ u.sft = w.sft /\ u.props = w.props
    BY <2>6 DEF Only, Fields
  <2>8. Only(t, w, {"jft", "sft", "ret"}) /\ w.nul = t.nul
    BY <1>5 DEF Gets, Only, Fields
  <2>9. Hooked(u, f)
    BY <1>1, <1>2, <1>5, <2>1, <2>3, <2>6, <2>7, <2>8 DEF Hooked
  <2> QED BY <2>6, <2>8, <2>9, OnlyChain
<1> QED BY <1>2, <1>3, <1>4, <1>5, SoundTables, DosDupFacts

\* NUL has been opened for the library.
LEMMA NulSound ==
  ASSUME NEW t, NEW n, Sound(t, n), t.nul = -1, NEW fd, Bare(t, fd, "nul"), NEW u, u = [t EXCEPT !.nul = fd]
  PROVE  Sound(u, n) /\ Only(t, u, {"nul"}) /\ u.nul = fd
<1>1. fd \in Fds /\ t.jft[fd] # NULL /\ t.sft[t.jft[fd]] = "nul" /\ t.props[fd] = NULL /\ t.func[fd] = FALSE
  BY DEF Bare
<1>2. t.data[fd] = NULL
  BY <1>1 DEF Sound, NulOK
<1>3. Only(t, u, {"nul"}) /\ u.nul = fd
  BY DEF Only, Fields, Sound, Base
<1>4. /\ DOMAIN u = Fields /\ u.jft = t.jft /\ u.sft = t.sft /\ u.disk = t.disk /\ u.wish = t.wish /\ u.props = t.props
      /\ u.obj = t.obj /\ u.active = t.active /\ u.cached = t.cached /\ u.func = t.func /\ u.data = t.data
      /\ u.dup_count = t.dup_count /\ u.fate = t.fate
  BY <1>3 DEF Only, Fields
<1>5. Base(u, n) /\ Runs(u)
  BY <1>1, <1>3, <1>4 DEF Sound, Base, Runs
<1>6. NulOK(u.jft, u.sft, u.func, u.data, u.props, u.nul)
  BY <1>1, <1>2, <1>3, <1>4, FdSet DEF NulOK
<1>7. Sound(u, n)
  BY <1>4, <1>5, <1>6 DEF Sound
<1> QED BY <1>3, <1>7

LEMMA AllocFdSound ==
  ASSUME NEW t, NEW n, Sound(t, n), NEW f \in BOOLEAN, NEW u, u = FSEXT_alloc_fd(t, f)
  PROVE  Sound(u, n) /\ (u.ret = -1 \/ Hooked(u, f)) /\ Only(t, u, {"jft", "sft", "ret", "func", "nul"})
<1> DEFINE Copy(x) == IF x.nul = -1 THEN Returns(x, -1)
                      ELSE IF Failed(DosDup(x, x.nul)) THEN DosDup(x, x.nul)
                      ELSE IF Runs(DosDup(x, x.nul)) THEN set_function(DosDup(x, x.nul), DosDup(x, x.nul).ret, f)
                      ELSE DosDup(x, x.nul)
<1>1. PICK v : v = IF t.nul = -1 THEN [DosOpen(t, "nul") EXCEPT !.nul = DosOpen(t, "nul").ret] ELSE t
  OBVIOUS
<1>2. u = Copy(v)
  BY <1>1 DEF FSEXT_alloc_fd, IfOk, Then
<1>3. Sound(v, n) /\ Only(t, v, {"jft", "sft", "ret", "nul"})
  <2>1. CASE t.nul # -1
    BY <1>1, <2>1 DEF Only, Sound, Base
  <2>2. CASE t.nul = -1
    <3>1. PICK w, name : w = DosOpen(t, name) /\ name = "nul"
      OBVIOUS
    <3>2. v = [w EXCEPT !.nul = w.ret]
      BY <1>1, <2>2, <3>1
    <3>3. CASE w.ret = -1 /\ Only(t, w, {"ret"})
      <4>1. Sound(w, n) /\ w.nul = -1 /\ DOMAIN w = Fields
        BY <2>2, <3>3, SoundSame DEF Only, Fields
      <4>2. Only(w, v, {}) /\ Only(w, v, {"ret"})
        BY <3>2, <3>3, <4>1 DEF Only, Fields
      <4>3. Sound(v, n)
        BY <4>1, <4>2, SoundSame
      <4>4. Only(t, w, {"ret"})
        BY <3>3
      <4> QED BY <4>2, <4>3, <4>4, OnlyChain
    <3>4. CASE Gets(t, w, name)
      <4>1. Sound(w, n) /\ Bare(w, w.ret, name)
        BY <3>4, GotSound
      <4>2. Only(t, w, {"jft", "sft", "ret"})
        BY <3>4 DEF Gets
      <4>3. w.nul = -1
        BY <2>2, <4>2 DEF Only, Fields
      <4>4. PICK fd : fd = w.ret
        OBVIOUS
      <4>5. Bare(w, fd, "nul") /\ v = [w EXCEPT !.nul = fd]
        BY <3>1, <3>2, <4>1, <4>4
      <4>6. Sound(v, n) /\ Only(w, v, {"nul"})
        BY <4>1, <4>3, <4>5, NulSound
      <4> QED BY <4>2, <4>6, OnlyChain
    <3>5. name # ""
      BY <3>1
    <3> QED BY <3>1, <3>3, <3>4, <3>5, SoundTables, DosOpenFacts
  <2> QED BY <2>1, <2>2
<1>4. CASE v.nul = -1
  <2>1. PICK r : r = -1
    OBVIOUS
  <2>2. u = Returns(v, r)
    BY <1>2, <1>4, <2>1
  <2>3. Sound(u, n) /\ Only(v, u, {"ret"}) /\ u.ret = r
    BY <2>2, <1>3, ReturnsSound
  <2>4. Only(t, u, {"jft", "sft", "ret", "func", "nul"})
    BY <2>3, <1>3, OnlyChain
  <2> QED BY <2>1, <2>3, <2>4
<1>5. CASE v.nul # -1
  <2>1. PICK w : w = DosDup(v, v.nul)
    OBVIOUS
  <2>2. Runs(w)
    <3>1. v.nul \in Fds
      BY <1>3, <1>5 DEF Sound, Base
    <3>2. PICK nul : nul = v.nul
      OBVIOUS
    <3>3. (w.ret = -1 /\ Only(v, w, {"ret"})) \/ Gets(v, w, v.sft[v.jft[nul]])
      BY <2>1, <3>1, <3>2, <1>3, SoundTables, DosDupFacts
    <3>4. w.fate = v.fate
      BY <3>3 DEF Gets, Only, Fields
    <3> QED BY <3>4, <1>3 DEF Runs, Sound
  <2>3. u = IF Failed(w) THEN w ELSE set_function(w, w.ret, f)
    BY <1>2, <1>5, <2>1, <2>2
  <2>4. Sound(u, n) /\ (u.ret = -1 \/ Hooked(u, f)) /\ Only(v, u, {"jft", "sft", "ret", "func"})
    BY <2>1, <2>3, <1>3, <1>5, CopyNul
  <2>5. Only(t, u, {"jft", "sft", "ret", "func", "nul"})
    <3>1. Only(v, u, {"jft", "sft", "ret", "func"})
      BY <2>4
    <3>2. Only(t, v, {"jft", "sft", "ret", "nul"})
      BY <1>3
    <3> QED BY <3>1, <3>2, OnlyChain
  <2> QED BY <2>4, <2>5
<1> QED BY <1>4, <1>5

Binding(t, u, n, fd, d, c) ==
  /\ Sound(t, n) /\ fd \in Fds /\ fd # t.nul /\ t.nul # -1 /\ d \in Data /\ c \in Nat
  /\ (IF \A x \in Fds : t.data[x] # d THEN c = 1 ELSE c = t.dup_count[d] + 1)
  /\ u = [set_data(t, fd, d) EXCEPT !.dup_count[d] = c]

\* The descriptor takes a context that is new, or one that another descriptor has.
LEMMA BindSound ==
  ASSUME NEW t, NEW u, NEW n, NEW fd, NEW d, NEW c, Binding(t, u, n, fd, d, c)
  PROVE  Sound(u, n) /\ Only(t, u, {"data", "dup_count"})
<1>1. /\ Sound(t, n) /\ fd \in Fds /\ fd # t.nul /\ t.nul # -1 /\ d \in Data /\ c \in Nat
      /\ u = [set_data(t, fd, d) EXCEPT !.dup_count[d] = c]
  BY DEF Binding
<1>2. PICK f, g, a, b : f = t.data /\ g = u.data /\ a = t.dup_count /\ b = u.dup_count
  OBVIOUS
<1>3. Only(t, u, {"data", "dup_count"}) /\ g = With(f, fd, d) /\ b = [a EXCEPT ![d] = c]
  <2>1. DOMAIN t = Fields
    BY <1>1 DEF Sound, Base
  <2> QED BY <2>1, <1>1, <1>2 DEF Only, Fields, With, set_data
<1>4. f \in [Fds -> Data \union {NULL}] /\ a \in [Data -> Nat] /\ Held(f, a)
  BY <1>1, <1>2 DEF Sound, Base, DataTyped
<1>5. b \in [Data -> Nat] /\ b[d] = c /\ \A x \in Data : x # d => b[x] = a[x]
  BY <1>1, <1>3, <1>4
<1>6. Recount(f, a, g, b, fd, d)
  <2>1. IF \A x \in Fds : f[x] # d THEN b[d] = 1 ELSE b[d] = a[d] + 1
    BY <1>2, <1>5 DEF Binding
  <2>2. ASSUME NEW x \in Data, x # d PROVE b[x] >= a[x] - (IF x = f[fd] THEN 1 ELSE 0)
    <3>1. a[x] \in Nat
      BY <1>4
    <3> QED BY <3>1, <2>2, <1>5
  <2> QED BY <2>1, <2>2, <1>1, <1>3, <1>4, <1>5 DEF Recount
<1>7. Held(g, b)
  BY <1>6, HeldKept
<1>8. Attaching(t, u, n, fd, d)
  BY <1>1, <1>2, <1>3, <1>5, <1>7 DEF Attaching
<1> QED BY <1>3, <1>8, AttachSound

LEMMA HookedStays ==
  ASSUME NEW t, NEW u, NEW f, Hooked(t, f), Only(t, u, {"data", "dup_count"})
  PROVE  Hooked(u, f)
<1>1. u.ret = t.ret /\ u.nul = t.nul /\ u.jft = t.jft /\ u.sft = t.sft /\ u.props = t.props /\ u.func = t.func
  BY DEF Only, Fields
<1> QED BY <1>1 DEF Hooked

\* A zero device has a context of its own.
LEMMA DevOpenSound ==
  ASSUME NEW t, NEW n, Sound(t, n), NEW u, u = dev_open(t)
  PROVE  Sound(u, n) /\ (u.ret = -1 \/ Hooked(u, TRUE))
<1>1. PICK w : w = FSEXT_alloc_fd(t, TRUE)
  OBVIOUS
<1>2. Sound(w, n) /\ (w.ret = -1 \/ Hooked(w, TRUE)) /\ Only(t, w, {"jft", "sft", "ret", "func", "nul"})
  <2>1. TRUE \in BOOLEAN
    OBVIOUS
  <2> QED BY <2>1, <1>1, AllocFdSound
<1>3. PICK S : S = {x \in Data : \A fd \in Fds : t.data[fd] # x}
  OBVIOUS
<1>4. PICK d, fd, c : d = Min(S) /\ fd = w.ret /\ c = 1
  OBVIOUS
<1>5. u = IF Failed(w) THEN w ELSE IF Runs(w) THEN [set_data(w, fd, d) EXCEPT !.dup_count[d] = c] ELSE w
  BY <1>1, <1>3, <1>4 DEF dev_open, IfOk, Then
<1>6. CASE w.ret = -1
  <2>1. u = w
    BY <1>5, <1>6 DEF Failed
  <2> QED BY <2>1, <1>2, <1>6
<1>7. CASE w.ret # -1
  <2>1. Hooked(w, TRUE) /\ Runs(w)
    BY <1>2, <1>7 DEF Sound
  <2>2. fd \in Fds /\ fd # w.nul /\ w.nul # -1
    BY <1>4, <2>1, FdSet DEF Hooked
  <2>3. u = [set_data(w, fd, d) EXCEPT !.dup_count[d] = c]
    BY <1>5, <1>7, <2>1 DEF Failed
  <2>4. \E x \in Fds : t.data[x] = NULL
    <3>1. CASE t.nul = -1
      BY <2>2, <3>1 DEF Sound, NulOK
    <3>2. CASE t.nul # -1
      <4>1. t.nul \in Fds /\ t.data[t.nul] = NULL
        BY <3>2 DEF Sound, Base, NulOK
      <4> QED BY <4>1
    <3> QED BY <3>1, <3>2
  <2>5. \E j \in 1..NFds : \A x \in Fds : t.data[x] # j
    BY <2>4, Pigeon
  <2>6. S # {}
    BY <2>5, <1>3 DEF Data
  <2>7. S \subseteq Nat
    <3>1. Data \subseteq Nat
      BY OneTo DEF Data
    <3> QED BY <3>1, <1>3
  <2>8. d \in Data /\ \A x \in Fds : t.data[x] # d
    <3>1. d \in S
      BY <2>6, <2>7, <1>4, LeastExists
    <3> QED BY <3>1, <1>3
  <2>9. w.data = t.data
    BY <1>2 DEF Only, Fields
  <2>10. Binding(w, u, n, fd, d, c)
    BY <2>2, <2>3, <2>8, <2>9, <1>2, <1>4 DEF Binding
  <2>11. Sound(u, n) /\ Only(w, u, {"data", "dup_count"})
    BY <2>10, BindSound
  <2> QED BY <2>1, <2>11, HookedStays
<1> QED BY <1>6, <1>7

LEMMA InternalDupSound ==
  ASSUME NEW t, NEW n, Sound(t, n), NEW from \in Fds, t.data[from] # NULL, NEW u, u = internal_dup(t, from)
  PROVE  Sound(u, n)
<1>1. PICK w : w = FSEXT_alloc_fd(t, TRUE)
  OBVIOUS
<1>2. Sound(w, n) /\ (w.ret = -1 \/ Hooked(w, TRUE)) /\ Only(t, w, {"jft", "sft", "ret", "func", "nul"})
  <2>1. TRUE \in BOOLEAN
    OBVIOUS
  <2> QED BY <2>1, <1>1, AllocFdSound
<1>3. PICK d, fd, c : d = t.data[from] /\ fd = w.ret /\ c = w.dup_count[d] + 1
  OBVIOUS
<1>4. u = IF Failed(w) THEN w ELSE IF Runs(w) THEN [set_data(w, fd, d) EXCEPT !.dup_count[d] = @ + 1] ELSE w
  BY <1>1, <1>3 DEF internal_dup, IfOk, Then
<1>5. CASE w.ret = -1
  BY <1>2, <1>4, <1>5 DEF Failed
<1>6. CASE w.ret # -1
  <2>1. Hooked(w, TRUE) /\ Runs(w)
    BY <1>2, <1>6 DEF Sound
  <2>2. fd \in Fds /\ fd # w.nul /\ w.nul # -1
    BY <1>3, <2>1, FdSet DEF Hooked
  <2>3. w.data = t.data /\ DOMAIN w = Fields
    BY <1>2 DEF Only, Fields
  <2>4. u = [set_data(w, fd, d) EXCEPT !.dup_count[d] = c]
    <3>1. u = [set_data(w, fd, d) EXCEPT !.dup_count[d] = @ + 1]
      BY <1>4, <1>6, <2>1 DEF Failed
    <3> QED BY <3>1, <1>3, <2>3 DEF set_data, Fields
  <2>5. d \in Data
    BY <1>3 DEF Sound, Base, DataTyped
  <2>6. c \in Nat
    <3>1. w.dup_count[d] \in Nat
      BY <2>5, <1>2 DEF Sound, Base, DataTyped
    <3> QED BY <3>1, <1>3
  <2>7. ~ \A x \in Fds : w.data[x] # d
    BY <1>3, <2>3
  <2>8. Binding(w, u, n, fd, d, c)
    BY <2>2, <2>4, <2>5, <2>6, <2>7, <1>2, <1>3 DEF Binding
  <2> QED BY <2>8, BindSound
<1> QED BY <1>5, <1>6

LEMMA FcntlFair ==
  ASSUME NEW t, NEW n \in 0..NObjs, Sound(t, n), NEW fd \in Fds, NEW min, NEW fails,
         NEW u, u = fcntl_DUPFD(t, fd, min, fails)
  PROVE  Fair(u, n)
<1>1. PICK free : free = {x \in FreeHandles(t) : x >= min}
  OBVIOUS
<1>2. u = IF ~Open(t, fd) \/ (t.func[fd] /\ t.data[fd] = NULL) THEN Returns(t, -1)
          ELSE IF t.func[fd] THEN internal_dup(t, fd)
          ELSE IF free = {} THEN Returns(t, -1) ELSE dup2(t, fd, Min(free), fails)
  BY <1>1 DEF fcntl_DUPFD
<1>3. CASE u = Returns(t, -1)
  <2>1. PICK r : u = Returns(t, r)
    BY <1>3
  <2> QED BY <2>1, ReturnsSound, SoundFair
<1>4. CASE t.data[fd] # NULL /\ u = internal_dup(t, fd)
  BY <1>4, InternalDupSound, SoundFair
<1>5. CASE free # {} /\ u = dup2(t, fd, Min(free), fails)
  <2>1. PICK new : new = Min(free)
    OBVIOUS
  <2>2. free \subseteq Fds /\ \A x \in free : t.jft[x] = NULL
    BY <1>1 DEF FreeHandles
  <2>3. new \in free
    <3>1. free \subseteq Nat
      BY <2>2, FdSet
    <3> QED BY <3>1, <2>1, <1>5, LeastExists
  <2>4. new \in Fds /\ new # t.nul
    BY <2>2, <2>3, ClosedFacts
  <2>5. u = dup2(t, fd, new, fails)
    BY <2>1, <1>5
  <2> QED BY <2>4, <2>5, Dup2Fair
<1> QED BY <1>2, <1>3, <1>4, <1>5

-----------------------------------------------------------------------------
(* The recursions of the calls, by kind: move_fd on its way in and out, and*)
(* the two loops that close descriptors.                                   *)

Lowers(x, up, new, k) == IF up[k].ret = new \/ (new = -1 /\ k = 0) THEN x ELSE _close(x, up[k].ret)
Visits(x, fd, picked) == IF Runs(x) /\ picked THEN _close(x, fd) ELSE x

Turn(kind, x, i, p, q) ==
  CASE kind = "raise" -> IF x.ret \in 0..(p - 1) THEN dup(x, x.ret) ELSE x
    [] kind = "lower" -> Lowers(x, p, q, NFds - i)
    [] kind = "props" -> Visits(x, i - 1, x.props[i - 1] # NULL)
    [] kind = "func" -> Visits(x, i - 1, x.func[i - 1])

Turns(f, N, kind, c, p, q) == f = [i \in 0..N |-> IF i = 0 THEN c ELSE Turn(kind, f[i - 1], i, p, q)]

LEMMA TurnsExist ==
  ASSUME NEW kind, NEW c, NEW p, NEW q, NEW N, N \in Nat
  PROVE  \E f : Turns(f, N, kind, c, p, q)
<1> DEFINE Cell(f, i) == IF i = 0 THEN c ELSE Turn(kind, f[i - 1], i, p, q)
           Solves(f, m) == f = [i \in 0..m |-> Cell(f, i)]
           T == {m \in Nat : \E f : Solves(f, m)}
<1>1. 0 \in T
  <2>1. PICK f : f = [i \in 0..0 |-> c]
    OBVIOUS
  <2>2. \A i \in 0..0 : i = 0
    OBVIOUS
  <2>3. Solves(f, 0)
    BY <2>1, <2>2
  <2> HIDE DEF Solves
  <2> QED BY <2>3
<1>2. ASSUME NEW m \in Nat, m \in T PROVE m + 1 \in T
  <2>1. PICK f : Solves(f, m)
    BY <1>2
  <2>2. PICK e : e = Turn(kind, f[m], m + 1, p, q)
    OBVIOUS
  <2>3. PICK g : g = [i \in 0..(m + 1) |-> IF i = m + 1 THEN e ELSE f[i]]
    OBVIOUS
  <2>4. \A i \in 0..m : f[i] = Cell(f, i)
    <3> HIDE DEF Cell
    <3> QED BY <2>1
  <2>5. g[m + 1] = e /\ \A i \in 0..m : g[i] = f[i]
    BY <2>3
  <2>6. ASSUME NEW i \in 0..(m + 1) PROVE g[i] = Cell(g, i)
    <3>1. CASE i = 0
      <4>1. 0 \in 0..m
        OBVIOUS
      <4> QED BY <3>1, <4>1, <2>4, <2>5
    <3>2. CASE i # 0 /\ i # m + 1
      <4>1. i \in 0..m /\ i - 1 \in 0..m
        BY <3>2
      <4>2. g[i] = Cell(f, i) /\ f[i - 1] = g[i - 1]
        BY <4>1, <2>4, <2>5
      <4> QED BY <3>2, <4>2
    <3>3. CASE i = m + 1
      <4>1. i - 1 = m /\ i # 0 /\ m \in 0..m
        BY <3>3
      <4>2. g[i - 1] = f[m]
        BY <4>1, <2>5
      <4> QED BY <3>3, <4>1, <4>2, <2>2, <2>5
    <3> QED BY <3>1, <3>2, <3>3
  <2>7. Solves(g, m + 1)
    <3> HIDE DEF Cell
    <3>1. PICK h : h = [i \in 0..(m + 1) |-> Cell(g, i)]
      OBVIOUS
    <3>2. DOMAIN g = 0..(m + 1) /\ DOMAIN h = 0..(m + 1)
      BY <2>3, <3>1
    <3>3. g = h
      BY <2>3, <2>6, <3>1, <3>2
    <3> QED BY <3>1, <3>3
  <2> HIDE DEF Solves
  <2> QED BY <2>7
<1> HIDE DEF T
<1>3. N \in T
  BY <1>1, <1>2, SetInduction
<1> QED BY <1>3 DEF T, Turns

\* A descriptor with nothing but its handle is duplicated.
LEMMA DupBare ==
  ASSUME NEW t, NEW n \in 0..NObjs, Sound(t, n), NEW fd, NEW name, Bare(t, fd, name), NEW u, u = dup(t, fd)
  PROVE  Sound(u, n) /\ Only(t, u, {"jft", "sft", "ret"}) /\ (u.ret = -1 \/ Bare(u, u.ret, name))
<1>1. fd \in Fds /\ t.jft[fd] # NULL /\ t.sft[t.jft[fd]] = name /\ t.props[fd] = NULL /\ t.func[fd] = FALSE
  BY DEF Bare
<1>2. Sound(u, n)
  BY <1>1, DupSound
<1>3. PICK w : w = DosDup(t, fd)
  OBVIOUS
<1>4. u = IF Failed(w) THEN w ELSE IF Runs(w) THEN dup_fd_properties(set_function(w, w.ret, w.func[fd]), fd, w.ret) ELSE w
  BY <1>3 DEF dup, IfOk, Then
<1>5. CASE w.ret = -1 /\ Only(t, w, {"ret"})
  <2>1. u = w
    BY <1>4, <1>5 DEF Failed
  <2>2. Only(t, w, {"ret"})
    BY <1>5
  <2> QED BY <2>1, <2>2, <1>2, <1>5, OnlyMore
<1>6. CASE Gets(t, w, t.sft[t.jft[fd]])
  <2>1. PICK new : new = w.ret
    OBVIOUS
  <2>2. Sound(w, n) /\ Bare(w, new, name)
    BY <1>1, <1>6, <2>1, GotSound
  <2>3. new \in Fds /\ w.func[new] = FALSE /\ w.func \in [Fds -> BOOLEAN] /\ DOMAIN w = Fields /\ Runs(w)
    BY <2>2 DEF Bare, Sound, Base
  <2>4. Only(t, w, {"jft", "sft", "ret"}) /\ w.props[fd] = NULL /\ w.func[fd] = FALSE
    BY <1>1, <1>6 DEF Gets, Only, Fields
  <2>5. PICK x : x = set_function(w, new, FALSE)
    OBVIOUS
  <2>6. Only(w, x, {"func"}) /\ x.func = [w.func EXCEPT ![new] = FALSE]
    BY <2>3, <2>5 DEF set_function, Only, Fields
  <2>7. x.func = w.func
    BY <2>3, <2>6
  <2>8. Only(w, x, {})
    BY <2>6, <2>7 DEF Only, Fields
  <2>9. u = dup_fd_properties(x, fd, new)
    BY <1>4, <2>1, <2>3, <2>4, <2>5, FdSet DEF Failed
  <2>10. x.props = w.props /\ x.jft = w.jft /\ x.sft = w.sft /\ x.nul = w.nul /\ x.ret = w.ret
    BY <2>8 DEF Only, Fields
  <2>11. u = x
    BY <2>4, <2>9, <2>10 DEF dup_fd_properties
  <2>12. Bare(u, u.ret, name)
    BY <2>1, <2>2, <2>7, <2>10, <2>11 DEF Bare
  <2>13. Only(t, w, {"jft", "sft", "ret"})
    BY <2>4
  <2>14. Only(t, u, {"jft", "sft", "ret"})
    BY <2>8, <2>11, <2>13, OnlyChain
  <2> QED BY <1>2, <2>12, <2>14
<1> QED BY <1>1, <1>3, <1>5, <1>6, SoundTables, DosDupFacts

\* What the calls of move_fd have made of t by the time one of them finds its descriptor.
Climbed(t, x, n) ==
  Sound(x, n) /\ Only(t, x, {"jft", "sft", "ret"}) /\ (x.ret = -1 \/ Bare(x, x.ret, "nul"))

LEMMA RaiseFacts ==
  ASSUME NEW t, NEW n \in 0..NObjs, NEW min \in Int, NEW x, Climbed(t, x, n), NEW y, y = Turn("raise", x, 1, min, 0)
  PROVE  Climbed(t, y, n) /\ (x.ret = -1 => y.ret = -1)
<1>1. y = IF x.ret \in 0..(min - 1) THEN dup(x, x.ret) ELSE x
  BY DEF Turn
<1>2. CASE x.ret \in 0..(min - 1)
  <2>1. x.ret # -1
    BY <1>2
  <2>2. Sound(x, n) /\ Bare(x, x.ret, "nul") /\ Only(t, x, {"jft", "sft", "ret"})
    BY <2>1 DEF Climbed
  <2>3. PICK fd, name : fd = x.ret /\ name = "nul"
    OBVIOUS
  <2>4. Bare(x, fd, name) /\ y = dup(x, fd)
    BY <1>1, <1>2, <2>2, <2>3
  <2>5. Sound(y, n) /\ Only(x, y, {"jft", "sft", "ret"}) /\ (y.ret = -1 \/ Bare(y, y.ret, name))
    BY <2>2, <2>4, DupBare
  <2>6. Only(t, y, {"jft", "sft", "ret"})
    <3>1. Only(t, x, {"jft", "sft", "ret"})
      BY <2>2
    <3>2. Only(x, y, {"jft", "sft", "ret"})
      BY <2>5
    <3> QED BY <3>1, <3>2, OnlyChain
  <2> QED BY <2>1, <2>3, <2>5, <2>6 DEF Climbed
<1>3. CASE x.ret \notin 0..(min - 1)
  BY <1>1, <1>3
<1> QED BY <1>2, <1>3

\* And when they return: new is the descriptor that is kept, if there is one.
Descended(t, x, n, new) ==
  Sound(x, n) /\ Only(t, x, {"jft", "sft", "ret"}) /\ (new # -1 => Bare(x, new, "nul"))

LEMMA LowerCallFacts ==
  ASSUME NEW t, NEW n \in 0..NObjs, NEW x, NEW new, Descended(t, x, n, new), NEW fd, Plain(t, fd), fd # new,
         NEW y, y = _close(x, fd)
  PROVE  Descended(t, y, n, new)
<1>1. Sound(x, n) /\ Only(t, x, {"jft", "sft", "ret"})
  BY DEF Descended
<1>2. x.props = t.props /\ x.func = t.func /\ x.nul = t.nul
  BY <1>1 DEF Only, Fields
<1>3. Plain(x, fd)
  BY <1>2 DEF Plain
<1>4. /\ Sound(y, n) /\ Only(x, y, {"jft", "sft", "ret"})
      /\ \A z \in Fds : z # fd => y.jft[z] = x.jft[z] /\ (y.jft[z] # NULL => y.sft[y.jft[z]] = x.sft[x.jft[z]])
  <2>1. ClosedPlain(x, y, n, fd)
    BY <1>1, <1>3, ClosePlain
  <2> QED BY <2>1 DEF ClosedPlain
<1>5. y.props = x.props /\ y.func = x.func /\ y.nul = x.nul
  BY <1>4 DEF Only, Fields
<1>6. ASSUME new # -1 PROVE Bare(y, new, "nul")
  <2>1. Bare(x, new, "nul")
    BY <1>6 DEF Descended
  <2> QED BY <2>1, <1>4, <1>5 DEF Bare
<1>7. Only(t, y, {"jft", "sft", "ret"})
  <2>1. Only(x, y, {"jft", "sft", "ret"})
    BY <1>4
  <2>2. Only(t, x, {"jft", "sft", "ret"})
    BY <1>1
  <2> QED BY <2>1, <2>2, OnlyChain
<1> QED BY <1>4, <1>6, <1>7 DEF Descended

Moving(t, u, n, fd, min) ==
  n \in 0..NObjs /\ Sound(t, n) /\ Bare(t, fd, "nul") /\ min \in Int /\ u = move_fd(t, fd, min)

LEMMA MoveSound ==
  ASSUME NEW t, NEW u, NEW n, NEW fd, NEW min, Moving(t, u, n, fd, min)
  PROVE  Sound(u, n) /\ Only(t, u, {"jft", "sft", "ret"}) /\ (u.ret = -1 \/ Bare(u, u.ret, "nul"))
<1> DEFINE UpCell(f, i) == IF i = 0 THEN Returns(t, fd)
                           ELSE IF f[i - 1].ret \in 0..(min - 1) THEN dup(f[i - 1], f[i - 1].ret) ELSE f[i - 1]
           UpSolves(f) == f = [i \in 0..NFds |-> UpCell(f, i)]
           Kept(up, k) == up[k].ret = up[NFds].ret \/ (up[NFds].ret = -1 /\ k = 0)
           DownCell(up, f, j) == IF j = 0 THEN up[NFds]
                                 ELSE IF Kept(up, NFds - j) THEN f[j - 1] ELSE _close(f[j - 1], up[NFds - j].ret)
           DownSolves(up, f) == f = [j \in 0..NFds |-> DownCell(up, f, j)]
<1>1. n \in 0..NObjs /\ Sound(t, n) /\ Bare(t, fd, "nul") /\ min \in Int /\ u = move_fd(t, fd, min)
  BY DEF Moving
<1>2. u = LET a == CHOOSE x : UpSolves(x)
              b == CHOOSE x : DownSolves(a, x)
          IN  Returns(b[NFds], a[NFds].ret)
  BY <1>1 DEF move_fd
<1>3. PICK c : c = Returns(t, fd)
  OBVIOUS
<1>4. PICK up : up = CHOOSE x : UpSolves(x)
  OBVIOUS
<1>5. UpSolves(up)
  <2>1. PICK f : f = [i \in 0..NFds |-> IF i = 0 THEN c ELSE Turn("raise", f[i - 1], i, min, 0)]
    <3>1. PICK kind, q : kind = "raise" /\ q = 0
      OBVIOUS
    <3>2. \E f : Turns(f, NFds, kind, c, min, q)
      BY TurnsExist, Bounds
    <3> QED BY <3>1, <3>2 DEF Turns
  <2>2. ASSUME NEW i \in 0..NFds PROVE (IF i = 0 THEN c ELSE Turn("raise", f[i - 1], i, min, 0)) = UpCell(f, i)
    BY <1>3 DEF Turn
  <2>3. UpSolves(f)
    <3> HIDE DEF UpCell
    <3> QED BY <2>1, <2>2
  <2> HIDE DEF UpSolves
  <2> QED BY <2>3, <1>4
<1>6. PICK down : down = CHOOSE x : DownSolves(up, x)
  OBVIOUS
<1>7. PICK new : new = up[NFds].ret
  OBVIOUS
<1>8. DownSolves(up, down)
  <2>1. PICK f : f = [i \in 0..NFds |-> IF i = 0 THEN up[NFds] ELSE Turn("lower", f[i - 1], i, up, new)]
    <3>1. PICK kind, x : kind = "lower" /\ x = up[NFds]
      OBVIOUS
    <3>2. \E f : Turns(f, NFds, kind, x, up, new)
      BY TurnsExist, Bounds
    <3> QED BY <3>1, <3>2 DEF Turns
  <2>2. ASSUME NEW i \in 0..NFds PROVE (IF i = 0 THEN up[NFds] ELSE Turn("lower", f[i - 1], i, up, new)) = DownCell(up, f, i)
    BY <1>7 DEF Turn, Lowers
  <2>3. DownSolves(up, f)
    <3> HIDE DEF DownCell
    <3> QED BY <2>1, <2>2
  <2> HIDE DEF DownSolves
  <2> QED BY <2>3, <1>6
<1>9. u = Returns(down[NFds], new)
  <2> HIDE DEF UpSolves, DownSolves
  <2> QED BY <1>2, <1>4, <1>6, <1>7
<1>10. up[0] = c /\ \A i \in 1..NFds : up[i] = Turn("raise", up[i - 1], 1, min, 0)
  <2>1. \A i \in 0..NFds : up[i] = UpCell(up, i)
    <3> HIDE DEF UpCell
    <3> QED BY <1>5
  <2>2. 0 \in 0..NFds /\ \A i \in 1..NFds : i \in 0..NFds /\ i # 0
    BY Bounds
  <2>3. up[0] = c
    BY <2>1, <2>2, <1>3
  <2>4. ASSUME NEW i \in 1..NFds PROVE up[i] = Turn("raise", up[i - 1], 1, min, 0)
    BY <2>1, <2>2 DEF Turn
  <2> QED BY <2>3, <2>4
<1>11. down[0] = up[NFds] /\ \A j \in 1..NFds : down[j] = Lowers(down[j - 1], up, new, NFds - j)
  <2>1. \A j \in 0..NFds : down[j] = DownCell(up, down, j)
    <3> HIDE DEF DownCell
    <3> QED BY <1>8
  <2>2. 0 \in 0..NFds /\ \A i \in 1..NFds : i \in 0..NFds /\ i # 0
    BY Bounds
  <2>3. down[0] = up[NFds]
    BY <2>1, <2>2
  <2>4. ASSUME NEW j \in 1..NFds PROVE down[j] = Lowers(down[j - 1], up, new, NFds - j)
    BY <2>1, <2>2, <1>7 DEF Lowers
  <2> QED BY <2>3, <2>4
<1> HIDE DEF UpSolves, DownSolves, UpCell, DownCell, Kept
<1>12. Climbed(t, c, n)
  <2>1. Sound(c, n) /\ Only(t, c, {"ret"}) /\ c.ret = fd
    BY <1>1, <1>3, ReturnsSound
  <2>2. c.jft = t.jft /\ c.sft = t.sft /\ c.props = t.props /\ c.func = t.func /\ c.nul = t.nul
    BY <2>1 DEF Only, Fields
  <2>3. Bare(c, c.ret, "nul")
    BY <2>1, <2>2, <1>1 DEF Bare
  <2>4. Only(t, c, {"jft", "sft", "ret"})
    BY <2>1, OnlyMore
  <2> QED BY <2>1, <2>3, <2>4 DEF Climbed
<1> DEFINE T == {i \in Nat : i \in 0..NFds => Climbed(t, up[i], n) /\ \A j \in 0..i : up[j].ret = -1 => up[i].ret = -1}
<1>13. 0 \in T
  <2>1. \A j \in 0..0 : j = 0
    OBVIOUS
  <2> QED BY <2>1, <1>10, <1>12
<1>14. ASSUME NEW i \in Nat, i \in T PROVE i + 1 \in T
  <2> SUFFICES ASSUME i + 1 \in 0..NFds
               PROVE  Climbed(t, up[i + 1], n) /\ \A j \in 0..(i + 1) : up[j].ret = -1 => up[i + 1].ret = -1
    OBVIOUS
  <2>1. i \in 0..NFds /\ i + 1 \in 1..NFds /\ (i + 1) - 1 = i
    BY Bounds
  <2>2. Climbed(t, up[i], n) /\ \A j \in 0..i : up[j].ret = -1 => up[i].ret = -1
    BY <1>14, <2>1
  <2>3. up[i + 1] = Turn("raise", up[i], 1, min, 0)
    BY <2>1, <1>10
  <2>4. PICK x, y : x = up[i] /\ y = up[i + 1]
    OBVIOUS
  <2>5. Climbed(t, y, n) /\ (x.ret = -1 => y.ret = -1)
    BY <2>2, <2>3, <2>4, <1>1, RaiseFacts
  <2>6. \A j \in 0..(i + 1) : j = i + 1 \/ j \in 0..i
    OBVIOUS
  <2> QED BY <2>2, <2>4, <2>5, <2>6
<1> HIDE DEF T
<1>15. \A i \in 0..NFds : Climbed(t, up[i], n) /\ \A j \in 0..i : up[j].ret = -1 => up[i].ret = -1
  <2>1. Nat \subseteq T
    BY <1>13, <1>14, SetInduction
  <2>2. 0..NFds \subseteq Nat
    BY Bounds
  <2> QED BY <2>1, <2>2 DEF T
<1>16. ASSUME NEW k \in 0..NFds, up[k].ret # new PROVE Plain(t, up[k].ret)
  <2>1. NFds \in 0..NFds
    BY Bounds
  <2>2. up[k].ret # -1
    BY <2>1, <1>7, <1>15, <1>16
  <2>3. Only(t, up[k], {"jft", "sft", "ret"}) /\ Bare(up[k], up[k].ret, "nul")
    BY <2>2, <1>15 DEF Climbed
  <2>4. up[k].props = t.props /\ up[k].func = t.func /\ up[k].nul = t.nul
    BY <2>3 DEF Only, Fields
  <2> QED BY <2>3, <2>4 DEF Bare, Plain
<1> DEFINE D == {j \in Nat : j \in 0..NFds => Descended(t, down[j], n, new)}
<1>17. 0 \in D
  <2>1. NFds \in 0..NFds
    BY Bounds
  <2>2. Climbed(t, up[NFds], n)
    BY <2>1, <1>15
  <2>3. Descended(t, up[NFds], n, new)
    BY <2>2, <1>7 DEF Climbed, Descended
  <2> QED BY <2>3, <1>11
<1>18. ASSUME NEW j \in Nat, j \in D PROVE j + 1 \in D
  <2> SUFFICES ASSUME j + 1 \in 0..NFds PROVE Descended(t, down[j + 1], n, new)
    OBVIOUS
  <2>1. j \in 0..NFds /\ j + 1 \in 1..NFds /\ (j + 1) - 1 = j /\ NFds - (j + 1) \in 0..NFds
    BY Bounds
  <2>2. Descended(t, down[j], n, new)
    BY <1>18, <2>1
  <2>3. PICK k, x, y : k = NFds - (j + 1) /\ x = down[j] /\ y = down[j + 1]
    OBVIOUS
  <2>4. y = Lowers(x, up, new, k)
    BY <2>1, <2>3, <1>11
  <2>5. CASE up[k].ret = new \/ y = x
    BY <2>2, <2>3, <2>4, <2>5 DEF Lowers
  <2>6. CASE up[k].ret # new /\ y # x
    <3>1. PICK e : e = up[k].ret
      OBVIOUS
    <3>2. y = _close(x, e)
      BY <2>4, <2>6, <3>1 DEF Lowers
    <3>3. Plain(t, e) /\ e # new
      BY <2>1, <2>3, <2>6, <3>1, <1>16
    <3>4. Descended(t, y, n, new)
      BY <2>2, <2>3, <3>2, <3>3, <1>1, LowerCallFacts
    <3> QED BY <3>4, <2>3
  <2> QED BY <2>5, <2>6
<1> HIDE DEF D
<1>19. Descended(t, down[NFds], n, new)
  <2>1. Nat \subseteq D
    BY <1>17, <1>18, SetInduction
  <2> QED BY <2>1, Bounds DEF D
<1>20. PICK x : x = down[NFds]
  OBVIOUS
<1>21. Sound(x, n) /\ Only(t, x, {"jft", "sft", "ret"}) /\ (new # -1 => Bare(x, new, "nul"))
  BY <1>19, <1>20 DEF Descended
<1>22. Sound(u, n) /\ Only(x, u, {"ret"}) /\ u.ret = new
  BY <1>9, <1>20, <1>21, ReturnsSound
<1>23. u.jft = x.jft /\ u.sft = x.sft /\ u.props = x.props /\ u.func = x.func /\ u.nul = x.nul
  BY <1>22 DEF Only, Fields
<1>24. new # -1 => Bare(u, new, "nul")
  BY <1>21, <1>23 DEF Bare
<1>25. Only(t, u, {"jft", "sft", "ret"})
  <2>1. Only(t, x, {"jft", "sft", "ret"})
    BY <1>21
  <2> QED BY <2>1, <1>22, OnlyChain
<1> QED BY <1>22, <1>24, <1>25

-----------------------------------------------------------------------------
(* open, pipe and llseek. *)

\* There may be more objects than a call has used.
LEMMA FairMore ==
  ASSUME NEW t, NEW n \in Nat, NEW m \in Nat, n <= m, Fair(t, n)
  PROVE  Fair(t, m)
<1>1. 0..n \subseteq 0..m
  OBVIOUS
<1>2. Entries(n) \subseteq Entries(m)
  BY <1>1 DEF Entries
<1>3. ASSUME NEW obj, ObjTyped(obj, n) PROVE ObjTyped(obj, m)
  BY <1>2, <1>3 DEF ObjTyped
<1>4. ASSUME Base(t, n) PROVE Base(t, m)
  <2>1. t.props \in [Fds -> 0..m] /\ t.active \in 0..m /\ t.cached \in 0..m /\ ObjTyped(t.obj, m)
    BY <1>1, <1>3, <1>4 DEF Base
  <2> QED BY <2>1, <1>4 DEF Base
<1>5. Base(t, m) /\ (Runs(t) => Sound(t, n))
  BY <1>4 DEF Fair
<1>6. Sound(t, n) /\ Base(t, m) => Sound(t, m)
  BY DEF Sound
<1> QED BY <1>5, <1>6 DEF Fair

\* __set_fd_flags marks the object of a descriptor.
LEMMA FlagSound ==
  ASSUME NEW t, NEW n \in 0..NObjs, Sound(t, n), NEW fd \in Fds, t.props[fd] # NULL, NEW flag \in Flags,
         NEW u, u = set_fd_flags(t, fd, flag)
  PROVE  Sound(u, n) /\ Only(t, u, {"obj"})
<1>1. PICK o, a, b : o = t.props[fd] /\ a = t.obj /\ b = u.obj
  OBVIOUS
<1>2. ObjTyped(a, n) /\ DOMAIN t = Fields /\ o \in 0..n
  BY <1>1 DEF Sound, Base
<1>3. o \in Objs
  BY <1>1, <1>2, Pointer
<1>4. PICK v : v = a[o].flags \union {flag}
  OBVIOUS
<1>5. v \in SUBSET Flags
  <2>1. a[o].flags \in SUBSET Flags
    BY <1>2, <1>3 DEF ObjTyped, Entries
  <2> QED BY <2>1, <1>4
<1>6. Only(t, u, {"obj"}) /\ b = WithFlags(a, o, v)
  BY <1>1, <1>2, <1>4 DEF Only, Fields, WithFlags, set_fd_flags
<1>7. /\ ObjTyped(b, n) /\ DataBut(a, b, o) /\ b[o].ref_count = a[o].ref_count
      /\ b[o].filename = a[o].filename /\ b[o].flags = v
  BY <1>2, <1>3, <1>5, <1>6, SetFlags
<1>8. \A p \in Objs : b[p].ref_count = a[p].ref_count /\ b[p].filename = a[p].filename /\ a[p].flags \subseteq b[p].flags
  BY <1>4, <1>7 DEF DataBut
<1>9. /\ DOMAIN u = Fields /\ u.jft = t.jft /\ u.sft = t.sft /\ u.disk = t.disk /\ u.wish = t.wish /\ u.props = t.props
      /\ u.active = t.active /\ u.cached = t.cached /\ u.func = t.func /\ u.data = t.data
      /\ u.dup_count = t.dup_count /\ u.nul = t.nul /\ u.fate = t.fate
  BY <1>6 DEF Only, Fields
<1>10. Base(u, n) /\ Runs(u)
  BY <1>1, <1>7, <1>9 DEF Sound, Base, Runs
<1>11. CountOK(t.props, b)
  <2>1. CountOK(t.props, a)
    BY <1>1 DEF Sound
  <2> QED BY <2>1, <1>8 DEF CountOK
<1>12. WishOK(t.disk, t.wish, b)
  <2>1. WishOK(t.disk, t.wish, a)
    BY <1>1 DEF Sound
  <2> QED BY <2>1, <1>8 DEF WishOK
<1>13. FollowOK(t.jft, t.sft, t.props, b)
  <2>1. FollowOK(t.jft, t.sft, t.props, a)
    BY <1>1 DEF Sound
  <2>2. \A x \in Fds : t.props[x] # NULL => t.props[x] \in Objs
    BY Pointer DEF Sound, Base
  <2>3. \A x \in Fds : t.props[x] # NULL => b[t.props[x]].filename = a[t.props[x]].filename
    BY <2>2, <1>8
  <2> QED BY <2>1, <2>3 DEF FollowOK
<1>14. Sound(u, n)
  BY <1>1, <1>9, <1>10, <1>11, <1>12, <1>13 DEF Sound
<1> QED BY <1>6, <1>14

LEMMA SameTouched ==
  ASSUME NEW t, NEW n, Sound(t, n), NEW file, NEW temp PROVE Touched(t, t, file, temp)
BY DEF Sound, Base, WishOK, Only, Touched

\* __set_fd_properties when no file has been touched.
LEMMA FurnishHere ==
  ASSUME NEW t, NEW n \in 0..NObjs, n + 1 \in 0..NObjs, Sound(t, n), NEW fd, NEW name, Ready(t, fd, name),
         NEW file \in FileNames, Fits(file, name), NEW oflags, NEW u, u = set_fd_properties(t, fd, file, oflags)
  PROVE  Furnished(t, u, n, fd)
<1>1. PICK temp : temp = (file # "" /\ "TEMPORARY" \in oflags)
  OBVIOUS
<1>2. Touched(t, t, file, temp)
  BY SameTouched
<1>3. Furnishing(t, t, u, n, fd, name, file, oflags)
  BY <1>1, <1>2 DEF Furnishing
<1> QED BY <1>3, FurnishSound

\* open of a file.
OpenedFile(t, u, n) ==
  \/ u.ret = -1 /\ Sound(u, n) /\ Only(t, u, {"ret"})
  \/ /\ Sound(u, n + 1) /\ u.ret \in Fds /\ u.ret # u.nul /\ u.props[u.ret] \in Objs /\ u.nul = t.nul
     /\ \A x \in Fds : x # u.ret => u.props[x] = t.props[x]

OpeningFile(t, u, n, name, oflags) ==
  n \in 0..NObjs /\ n + 1 \in 0..NObjs /\ Sound(t, n) /\ name \in Disk /\ u = open_file(t, name, oflags)

LEMMA OpenFileSound ==
  ASSUME NEW t, NEW u, NEW n, NEW name, NEW oflags, OpeningFile(t, u, n, name, oflags)
  PROVE  OpenedFile(t, u, n)
<1>1. n \in 0..NObjs /\ n + 1 \in 0..NObjs /\ Sound(t, n) /\ name \in Disk /\ u = open_file(t, name, oflags)
  BY DEF OpeningFile
<1>2. PICK w, fd : w = DosOpen(t, name) /\ fd = w.ret
  OBVIOUS
<1>3. PICK v : v = [w EXCEPT !.disk = @ \union {name}, !.wish = IF "TEMPORARY" \in oflags THEN @ \union {name} ELSE @]
  OBVIOUS
<1>4. \/ u = Returns(t, -1)
      \/ u = IF Failed(w) THEN w ELSE IF Runs(w) THEN Returns(set_fd_properties(v, fd, name, oflags), fd) ELSE w
  BY <1>1, <1>2, <1>3 DEF open_file, IfOk, Then
<1>5. CASE u = Returns(t, -1)
  <2>1. PICK r : r = -1
    OBVIOUS
  <2>2. u = Returns(t, r)
    BY <1>5, <2>1
  <2>3. Sound(u, n) /\ Only(t, u, {"ret"}) /\ u.ret = r
    BY <2>2, <1>1, ReturnsSound
  <2> QED BY <2>1, <2>3 DEF OpenedFile
<1>6. CASE u = IF Failed(w) THEN w ELSE IF Runs(w) THEN Returns(set_fd_properties(v, fd, name, oflags), fd) ELSE w
  <2>1. CASE w.ret = -1 /\ Only(t, w, {"ret"})
    <3>1. u = w
      BY <1>6, <2>1 DEF Failed
    <3>2. Sound(w, n)
      BY <2>1, <1>1, SoundSame
    <3> QED BY <2>1, <3>1, <3>2 DEF OpenedFile
  <2>2. CASE Gets(t, w, name)
    <3>1. Sound(w, n) /\ Bare(w, fd, name)
      BY <2>2, <1>1, <1>2, GotSound
    <3>2. Ready(w, fd, name) /\ fd \in Fds /\ fd # w.nul /\ Runs(w)
      BY <3>1 DEF Bare, Ready, Sound
    <3>3. PICK x : x = set_fd_properties(v, fd, name, oflags)
      OBVIOUS
    <3>4. u = Returns(x, fd)
      BY <1>2, <1>6, <3>2, <3>3, FdSet DEF Failed
    <3>5. name # "" /\ name \in FileNames
      BY <1>1, DiskNames
    <3>6. DOMAIN w = Fields /\ w.disk \subseteq Disk /\ w.wish \subseteq Disk /\ w.wish \subseteq w.disk
      BY <3>1 DEF Sound, Base, DiskTyped, WishOK
    <3>7. /\ Only(w, v, {"disk", "wish"}) /\ v.disk = w.disk \union {name}
          /\ v.wish = IF "TEMPORARY" \in oflags THEN w.wish \union {name} ELSE w.wish
      BY <1>3, <3>6 DEF Only, Fields
    <3>8. PICK temp : temp = (name # "" /\ "TEMPORARY" \in oflags)
      OBVIOUS
    <3>9. Touched(w, v, name, temp)
      <4>1. Only(w, v, {"disk", "wish", "ret"})
        BY <3>7, OnlyMore
      <4>2. DiskTyped(v.disk, v.wish) /\ v.wish \subseteq v.disk
        BY <1>1, <3>6, <3>7 DEF DiskTyped
      <4>3. v.wish \subseteq w.wish \union (IF temp THEN {name} ELSE {})
        BY <3>5, <3>7, <3>8
      <4> QED BY <4>1, <4>2, <4>3 DEF Touched
    <3>10. Fits(name, name)
      BY DEF Fits
    <3>11. Furnishing(w, v, x, n, fd, name, name, oflags)
      BY <1>1, <3>1, <3>2, <3>3, <3>5, <3>8, <3>9, <3>10 DEF Furnishing
    <3>12. /\ Sound(x, n + 1) /\ x.props[fd] \in Objs /\ Only(v, x, {"obj", "cached", "active", "props", "ret"})
           /\ \A y \in Fds : y # fd => x.props[y] = v.props[y]
      BY <3>11, FurnishSound DEF Furnished
    <3>13. Sound(u, n + 1) /\ Only(x, u, {"ret"}) /\ u.ret = fd
      BY <3>4, <3>12, ReturnsSound
    <3>14. u.props = x.props /\ u.nul = x.nul
      BY <3>13 DEF Only, Fields
    <3>15. x.nul = v.nul
      BY <3>12 DEF Only, Fields
    <3>16. v.nul = w.nul /\ v.props = w.props
      BY <3>7 DEF Only, Fields
    <3>17. w.nul = t.nul /\ w.props = t.props
      BY <2>2 DEF Gets, Only, Fields
    <3> QED BY <3>2, <3>12, <3>13, <3>14, <3>15, <3>16, <3>17 DEF OpenedFile
  <2>3. name # ""
    BY <1>1, DiskNames
  <2> QED BY <1>1, <1>2, <2>1, <2>2, <2>3, SoundTables, DosOpenFacts
<1> QED BY <1>4, <1>5, <1>6

LEMMA OpenFileFair ==
  ASSUME NEW t, NEW u, NEW n \in 0..NObjs, OpenedFile(t, u, n)
  PROVE  Fair(u, n + 1)
<1>1. n \in Nat /\ n + 1 \in Nat /\ n <= n + 1
  BY Bounds
<1>2. CASE Sound(u, n)
  BY <1>1, <1>2, SoundFair, FairMore
<1>3. CASE Sound(u, n + 1)
  BY <1>3, SoundFair
<1> QED BY <1>2, <1>3 DEF OpenedFile

SpecialName(name) == name \in Special /\ name \in FileNames /\ Fits(name, "nul")

LEMMA SpecialNames == \A name \in Special : SpecialName(name)
BY DEF SpecialName, FileNames, Names, Fits

LEMMA OpendirFair ==
  ASSUME NEW t, NEW n \in 0..NObjs, n + 1 \in 0..NObjs, Sound(t, n), NEW name, name \in Special,
         NEW u, u = opendir_as_fd(t, name)
  PROVE  Fair(u, n + 1)
<1>0. n \in Nat /\ n + 1 \in Nat /\ n <= n + 1
  BY Bounds
<1>1. PICK w, fd : w = FSEXT_alloc_fd(t, FALSE) /\ fd = w.ret
  OBVIOUS
<1>2. PICK v, r : v = move_fd(w, fd, DirMin) /\ r = v.ret
  OBVIOUS
<1>3. PICK x, y : x = set_fd_properties(v, r, name, {}) /\ y = set_fd_flags(x, r, "DIRECTORY")
  OBVIOUS
<1>4. u = IF Failed(w) THEN w ELSE IF ~Runs(w) THEN w
          ELSE IF Failed(v) THEN Returns(_close(v, fd), -1) ELSE Returns(y, r)
  BY <1>1, <1>2, <1>3 DEF opendir_as_fd, IfOk, Then
<1>5. Sound(w, n) /\ (w.ret = -1 \/ Hooked(w, FALSE))
  <2>1. FALSE \in BOOLEAN
    OBVIOUS
  <2> QED BY <2>1, <1>1, AllocFdSound
<1>6. CASE w.ret = -1
  <2>1. u = w
    BY <1>4, <1>6 DEF Failed
  <2> QED BY <2>1, <1>0, <1>5, SoundFair, FairMore
<1>7. CASE w.ret # -1
  <2>1. Bare(w, fd, "nul")
    <3>1. Hooked(w, FALSE)
      BY <1>5, <1>7
    <3> QED BY <3>1, <1>1 DEF Hooked, Bare
  <2>2. Moving(w, v, n, fd, DirMin)
    <3>1. DirMin \in Int
      BY BoundsAssumption
    <3> QED BY <2>1, <3>1, <1>2, <1>5 DEF Moving
  <2>3. Sound(v, n) /\ Only(w, v, {"jft", "sft", "ret"}) /\ (v.ret = -1 \/ Bare(v, v.ret, "nul"))
    BY <2>2, MoveSound
  <2>4. CASE v.ret = -1
    <3>1. PICK z, m : z = _close(v, fd) /\ m = -1
      OBVIOUS
    <3>2. u = Returns(z, m)
      BY <1>4, <1>5, <1>7, <2>4, <3>1 DEF Failed, Sound
    <3>3. fd \in Fds /\ fd # v.nul
      BY <2>1, <2>3 DEF Bare, Only, Fields
    <3>4. Fair(z, n)
      BY <2>3, <3>1, <3>3, CloseFair
    <3>5. Fair(u, n)
      BY <3>2, <3>4, ReturnsFair
    <3> QED BY <3>5, <1>0, FairMore
  <2>5. CASE v.ret # -1
    <3>1. u = Returns(y, r)
      BY <1>2, <1>4, <1>5, <1>7, <2>5 DEF Failed, Sound
    <3>2. PICK nul, oflags, flag : nul = "nul" /\ oflags = {} /\ flag = "DIRECTORY"
      OBVIOUS
    <3>3. Ready(v, r, nul) /\ r \in Fds
      BY <1>2, <2>3, <2>5, <3>2 DEF Bare, Ready
    <3>4. name \in FileNames /\ Fits(name, nul)
      BY <3>2, SpecialNames DEF SpecialName
    <3>5. x = set_fd_properties(v, r, name, oflags)
      BY <1>3, <3>2
    <3>6. Furnished(v, x, n, r)
      BY <2>3, <3>3, <3>4, <3>5, FurnishHere
    <3>7. Sound(x, n + 1) /\ x.props[r] # NULL
      <4>1. \A o \in Objs : o # NULL
        BY Bounds DEF Objs, NULL
      <4> QED BY <3>6, <4>1 DEF Furnished
    <3>8. flag \in Flags /\ y = set_fd_flags(x, r, flag)
      BY <1>3, <3>2 DEF Flags
    <3>9. Sound(y, n + 1)
      <4>1. PICK m : m = n + 1
        OBVIOUS
      <4>2. Sound(y, m)
        BY <3>3, <3>7, <3>8, <4>1, FlagSound
      <4> QED BY <4>1, <4>2
    <3> QED BY <3>1, <3>9, ReturnsSound, SoundFair
  <2> QED BY <2>4, <2>5
<1> QED BY <1>6, <1>7

ZeroEntered(w, u, name, oflags) ==
  u = IF Failed(w) THEN w ELSE IF Runs(w) THEN Returns(set_fd_properties(w, w.ret, name, oflags), w.ret) ELSE w

LEMMA OpenZeroFair ==
  ASSUME NEW t, NEW n \in 0..NObjs, n + 1 \in 0..NObjs, Sound(t, n), NEW name, name \in Special, NEW oflags,
         NEW w, w = dev_open(t), NEW u, ZeroEntered(w, u, name, oflags)
  PROVE  Fair(u, n + 1)
<1>0. n \in Nat /\ n + 1 \in Nat /\ n <= n + 1
  BY Bounds
<1>1. PICK fd, x : fd = w.ret /\ x = set_fd_properties(w, fd, name, oflags)
  OBVIOUS
<1>2. u = IF Failed(w) THEN w ELSE IF Runs(w) THEN Returns(x, fd) ELSE w
  BY <1>1 DEF ZeroEntered
<1>3. Sound(w, n) /\ (w.ret = -1 \/ Hooked(w, TRUE))
  BY DevOpenSound
<1>4. CASE w.ret = -1
  <2>1. u = w
    BY <1>2, <1>4 DEF Failed
  <2> QED BY <2>1, <1>0, <1>3, SoundFair, FairMore
<1>5. CASE w.ret # -1
  <2>1. u = Returns(x, fd)
    BY <1>2, <1>3, <1>5 DEF Failed, Sound
  <2>2. PICK nul : nul = "nul"
    OBVIOUS
  <2>3. Ready(w, fd, nul)
    BY <1>1, <1>3, <1>5, <2>2 DEF Hooked, Ready
  <2>4. name \in FileNames /\ Fits(name, nul)
    BY <2>2, SpecialNames DEF SpecialName
  <2>5. Furnished(w, x, n, fd)
    BY <1>1, <1>3, <2>3, <2>4, FurnishHere
  <2>6. Sound(x, n + 1)
    BY <2>5 DEF Furnished
  <2> QED BY <2>1, <2>6, ReturnsSound, SoundFair
<1> QED BY <1>4, <1>5

LEMMA OpenFair ==
  ASSUME NEW t, NEW n \in 0..NObjs, n + 1 \in 0..NObjs, Sound(t, n), NEW name \in Names, NEW oflags,
         NEW u, u = open(t, name, oflags)
  PROVE  Fair(u, n + 1)
<1>1. CASE name = "zero"
  <2>1. name \in Special
    BY <1>1, NamesAssumption DEF Names
  <2>2. PICK w : w = dev_open(t)
    OBVIOUS
  <2>3. ZeroEntered(w, u, name, oflags)
    BY <1>1, <2>2 DEF open, IfOk, Then, ZeroEntered
  <2> QED BY <2>1, <2>2, <2>3, OpenZeroFair
<1>2. CASE name = "dir"
  <2>1. name \in Special
    BY <1>2, NamesAssumption DEF Names
  <2>2. u = opendir_as_fd(t, name)
    BY <1>2 DEF open
  <2> QED BY <2>1, <2>2, OpendirFair
<1>3. CASE name # "zero" /\ name # "dir"
  <2>1. name \in Disk
    BY <1>3, NamesAssumption DEF Names, Disk
  <2>2. u = open_file(t, name, oflags)
    BY <1>3 DEF open
  <2>3. OpenedFile(t, u, n)
    BY <2>1, <2>2, OpenFileSound DEF OpeningFile
  <2> QED BY <2>3, OpenFileFair
<1> QED BY <1>1, <1>2, <1>3

LEMMA SeekFair ==
  ASSUME NEW t, NEW n \in 0..NObjs, n + 1 \in 0..NObjs, Sound(t, n), NEW fd \in Fds, fd # t.nul, NEW u, u = llseek(t, fd)
  PROVE  Fair(u, n + 1)
<1>0. n \in Nat /\ n + 1 \in Nat /\ n <= n + 1
  BY Bounds
<1>1. CASE u = t
  BY <1>0, <1>1, SoundFair, FairMore
<1>2. CASE t.jft[fd] # NULL /\ t.props[fd] = NULL /\ u = set_fd_properties(t, fd, "", {})
  <2>1. PICK name, file, oflags : name = t.sft[t.jft[fd]] /\ file = "" /\ oflags = {}
    OBVIOUS
  <2>2. Ready(t, fd, name) /\ file \in FileNames /\ Fits(file, name) /\ u = set_fd_properties(t, fd, file, oflags)
    BY <1>2, <2>1 DEF Ready, FileNames, Fits
  <2>3. Furnished(t, u, n, fd)
    BY <2>2, FurnishHere
  <2> QED BY <2>3, SoundFair DEF Furnished
<1> QED BY <1>1, <1>2 DEF llseek, Open

LEMMA PipeFair ==
  ASSUME NEW t, NEW n \in 0..NObjs, n + 1 \in 0..NObjs, n + 2 \in 0..NObjs, Sound(t, n), NEW u, u = pipe(t)
  PROVE  Fair(u, n + 2)
<1>0. n \in Nat /\ n + 1 \in Nat /\ n + 2 \in Nat /\ n <= n + 2 /\ n + 1 <= n + 2 /\ (n + 1) + 1 = n + 2
  BY Bounds
<1>1. PICK name, m : name = "tmp" /\ m = n + 1
  OBVIOUS
<1>2. name \in Disk
  BY <1>1 DEF Disk
<1>3. PICK a, out : a = open_file(t, name, {"CREAT", "TEMPORARY"}) /\ out = a.ret
  OBVIOUS
<1>4. PICK b : b = open_file(a, name, {"TEMPORARY"})
  OBVIOUS
<1>5. u = IF Failed(a) THEN a ELSE IF ~Runs(a) THEN a
          ELSE IF Failed(b) THEN Returns(_close(b, out), -1)
          ELSE Returns(set_fd_flags(set_fd_flags(b, out, "PIPE"), b.ret, "PIPE"), 0)
  BY <1>1, <1>3, <1>4 DEF pipe, IfOk, Then
<1>6. OpenedFile(t, a, n)
  BY <1>2, <1>3, OpenFileSound DEF OpeningFile
<1>7. CASE a.ret = -1
  <2>1. u = a
    BY <1>5, <1>7 DEF Failed
  <2>2. Fair(a, n + 1)
    BY <1>6, OpenFileFair
  <2> QED BY <2>1, <2>2, <1>0, FairMore
<1>8. CASE a.ret # -1
  <2>1. Sound(a, m) /\ out \in Fds /\ out # a.nul /\ a.props[out] \in Objs
    BY <1>1, <1>3, <1>6, <1>8 DEF OpenedFile
  <2>2. OpenedFile(a, b, m)
    <3>1. m \in 0..NObjs /\ m + 1 \in 0..NObjs
      BY <1>0, <1>1
    <3>2. OpeningFile(a, b, m, name, {"TEMPORARY"})
      BY <3>1, <2>1, <1>2, <1>4 DEF OpeningFile
    <3> QED BY <3>2, OpenFileSound
  <2>3. CASE b.ret = -1
    <3>1. PICK z, r : z = _close(b, out) /\ r = -1
      OBVIOUS
    <3>2. u = Returns(z, r)
      BY <1>5, <1>8, <2>1, <2>3, <3>1 DEF Failed, Sound
    <3>3. Sound(b, m) /\ Only(a, b, {"ret"})
      BY <2>2, <2>3, FdSet DEF OpenedFile
    <3>4. out # b.nul
      BY <2>1, <3>3 DEF Only, Fields
    <3>5. Fair(z, m)
      <4>1. m \in 0..NObjs
        BY <1>1
      <4> QED BY <2>1, <3>1, <3>3, <3>4, <4>1, CloseFair
    <3>6. Fair(u, m)
      BY <3>2, <3>5, ReturnsFair
    <3> QED BY <3>6, <1>0, <1>1, FairMore
  <2>4. CASE b.ret # -1
    <3>1. PICK k, in, flag : k = n + 2 /\ in = b.ret /\ flag = "PIPE"
      OBVIOUS
    <3>2. PICK c, d, r : c = set_fd_flags(b, out, flag) /\ d = set_fd_flags(c, in, flag) /\ r = 0
      OBVIOUS
    <3>3. u = Returns(d, r)
      BY <1>5, <1>8, <2>1, <2>4, <3>1, <3>2 DEF Failed, Sound
    <3>4. Sound(b, k) /\ in \in Fds /\ b.props[in] \in Objs /\ \A x \in Fds : x # in => b.props[x] = a.props[x]
      BY <1>0, <1>1, <2>2, <2>4, <3>1 DEF OpenedFile
    <3>5. b.props[out] \in Objs
      BY <2>1, <3>4
    <3>6. \A o \in Objs : o # NULL
      BY Bounds DEF Objs, NULL
    <3>7. k \in 0..NObjs /\ flag \in Flags
      BY <3>1 DEF Flags
    <3>8. Sound(c, k) /\ Only(b, c, {"obj"})
      <4>1. b.props[out] # NULL /\ out \in Fds
        BY <2>1, <3>5, <3>6
      <4> QED BY <4>1, <3>2, <3>4, <3>7, FlagSound
    <3>9. Sound(d, k)
      <4>1. c.props = b.props
        BY <3>8 DEF Only, Fields
      <4>2. c.props[in] # NULL
        BY <4>1, <3>4, <3>6
      <4> QED BY <4>2, <3>2, <3>4, <3>7, <3>8, FlagSound
    <3>10. Fair(u, k)
      BY <3>3, <3>9, ReturnsSound, SoundFair
    <3> QED BY <3>1, <3>10
  <2> QED BY <2>3, <2>4
<1> QED BY <1>7, <1>8

-----------------------------------------------------------------------------
(* exit. *)

\* The descriptors of D, and those that a loop over the properties has visited, are parted.
Reached(x, D, kind, i) == \A z \in Fds : z \in D \/ (kind = "props" /\ z < i) => Parted(x, z)
Going(x, n, D, kind, i) == Fair(x, n) /\ x.fate # "exited" /\ (Runs(x) => Reached(x, D, kind, i))

\* The descriptor of the library has neither properties nor an extension, and is not visited.
Picks(x, fd, kind) == IF kind = "props" THEN x.props[fd] # NULL ELSE x.func[fd]

LEMMA PicksFacts ==
  ASSUME NEW x, NEW n, Sound(x, n), NEW fd \in Fds, NEW kind \in {"props", "func"}, Picks(x, fd, kind)
  PROVE  fd # x.nul /\ Open(x, fd)
<1>1. NulOK(x.jft, x.sft, x.func, x.data, x.props, x.nul)
  BY DEF Sound
<1>2. fd # x.nul
  BY <1>1, FdSet DEF NulOK, Picks
<1>3. FollowOK(x.jft, x.sft, x.props, x.obj) /\ FuncOK(x.jft, x.sft, x.func)
  BY DEF Sound
<1>4. x.jft[fd] # NULL
  BY <1>3 DEF FollowOK, FuncOK, Picks
<1> QED BY <1>2, <1>4 DEF Open

\* One turn of either loop.
LEMMA TurnGoing ==
  ASSUME NEW x, NEW n \in 0..NObjs, NEW i \in 1..NFds, NEW kind \in {"props", "func"}, NEW D,
         Going(x, n, D, kind, i - 1), NEW y, y = Turn(kind, x, i, 0, 0)
  PROVE  Going(y, n, D, kind, i)
<1>1. PICK fd : fd = i - 1
  OBVIOUS
<1>2. fd \in Fds /\ \A z \in Fds : z < i <=> z < fd \/ z = fd
  BY <1>1, Bounds DEF Fds
<1>3. y = IF Runs(x) /\ Picks(x, fd, kind) THEN _close(x, fd) ELSE x
  <2>1. CASE kind = "props"
    BY <1>1, <2>1 DEF Turn, Visits, Picks
  <2>2. CASE kind = "func"
    BY <1>1, <2>2 DEF Turn, Visits, Picks
  <2> QED BY <2>1, <2>2
<1>4. Fair(x, n) /\ x.fate # "exited" /\ (Runs(x) => Reached(x, D, kind, fd))
  BY <1>1 DEF Going
<1>5. CASE Runs(x) /\ Picks(x, fd, kind)
  <2>1. Sound(x, n) /\ y = _close(x, fd)
    BY <1>3, <1>4, <1>5 DEF Fair
  <2>2. fd # x.nul /\ Open(x, fd)
    BY <1>2, <1>5, <2>1, PicksFacts
  <2>3. Fair(y, n) /\ CloseEnds(x, y, fd)
    BY <1>2, <2>1, <2>2, CloseFair
  <2>4. ASSUME Runs(y) PROVE Reached(y, D, kind, i)
    <3>1. Leaves(x, y, fd)
      BY <2>2, <2>3, <2>4 DEF CloseEnds
    <3> QED BY <1>2, <1>4, <1>5, <3>1 DEF Reached, Leaves
  <2> QED BY <2>3, <2>4 DEF CloseEnds, Going
<1>6. CASE ~(Runs(x) /\ Picks(x, fd, kind))
  <2>1. y = x
    BY <1>3, <1>6
  <2>2. ASSUME Runs(x) PROVE Reached(x, D, kind, i)
    <3>1. kind = "props" => Parted(x, fd)
      BY <1>6, <2>2 DEF Picks, Parted
    <3> QED BY <1>2, <1>4, <2>2, <3>1 DEF Reached
  <2> QED BY <1>4, <2>1, <2>2 DEF Going
<1> QED BY <1>5, <1>6

LEMMA TurnsGoing ==
  ASSUME NEW t, NEW n \in 0..NObjs, NEW kind \in {"props", "func"}, NEW D, Going(t, n, D, kind, 0),
         NEW f, Turns(f, NFds, kind, t, 0, 0)
  PROVE  Going(f[NFds], n, D, kind, NFds)
<1> DEFINE Cell(i) == IF i = 0 THEN t ELSE Turn(kind, f[i - 1], i, 0, 0)
<1>1. \A i \in 0..NFds : f[i] = Cell(i)
  <2>1. f = [i \in 0..NFds |-> Cell(i)]
    BY DEF Turns
  <2> HIDE DEF Cell
  <2> QED BY <2>1
<1> DEFINE T == {i \in Nat : i \in 0..NFds => Going(f[i], n, D, kind, i)}
<1>2. 0 \in T
  BY <1>1
<1>3. ASSUME NEW i \in Nat, i \in T PROVE i + 1 \in T
  <2> SUFFICES ASSUME i + 1 \in 0..NFds PROVE Going(f[i + 1], n, D, kind, i + 1)
    OBVIOUS
  <2>1. i \in 0..NFds /\ i + 1 \in 1..NFds /\ (i + 1) - 1 = i /\ i + 1 # 0
    BY Bounds
  <2>2. PICK x, y, j : x = f[i] /\ y = f[i + 1] /\ j = i + 1
    OBVIOUS
  <2>3. Going(x, n, D, kind, j - 1) /\ j \in 1..NFds /\ y = Turn(kind, x, j, 0, 0)
    BY <1>1, <1>3, <2>1, <2>2
  <2>4. Going(y, n, D, kind, j)
    BY <2>3, TurnGoing
  <2> QED BY <2>2, <2>4
<1> HIDE DEF T
<1>4. NFds \in T
  BY <1>2, <1>3, Bounds, SetInduction
<1> QED BY <1>4, Bounds DEF T

LEMMA PropsLoop ==
  ASSUME NEW t, NEW n \in 0..NObjs, NEW D, Going(t, n, D, "props", 0), NEW u, u = CloseAll(t, LAMBDA x, fd : x.props[fd] # NULL)
  PROVE  Going(u, n, D, "props", NFds)
<1> DEFINE Cell(f, i) == IF i = 0 THEN t
                         ELSE IF Runs(f[i - 1]) /\ f[i - 1].props[i - 1] # NULL THEN _close(f[i - 1], i - 1) ELSE f[i - 1]
           Solves(f) == f = [i \in 0..NFds |-> Cell(f, i)]
<1>1. u = (CHOOSE f : Solves(f))[NFds]
  BY DEF CloseAll
<1>2. PICK kind, p : kind = "props" /\ p = 0
  OBVIOUS
<1>3. \A f : Turns(f, NFds, kind, t, p, p) <=> Solves(f)
  <2> SUFFICES ASSUME NEW f PROVE Turns(f, NFds, kind, t, p, p) <=> Solves(f)
    OBVIOUS
  <2>1. \A i \in 0..NFds : (IF i = 0 THEN t ELSE Turn(kind, f[i - 1], i, p, p)) = Cell(f, i)
    BY <1>2 DEF Turn, Visits
  <2> HIDE DEF Cell
  <2> QED BY <2>1 DEF Turns
<1>4. PICK at : at = CHOOSE f : Solves(f)
  OBVIOUS
<1>5. \E f : Turns(f, NFds, kind, t, p, p)
  BY TurnsExist, Bounds
<1> HIDE DEF Solves
<1>6. Turns(at, NFds, kind, t, p, p)
  BY <1>3, <1>4, <1>5
<1>7. kind \in {"props", "func"} /\ Turns(at, NFds, kind, t, 0, 0)
  BY <1>2, <1>6
<1>8. Going(at[NFds], n, D, kind, NFds)
  BY <1>2, <1>7, TurnsGoing
<1> QED BY <1>1, <1>2, <1>4, <1>8

LEMMA FuncLoop ==
  ASSUME NEW t, NEW n \in 0..NObjs, NEW D, Going(t, n, D, "func", 0), NEW u, u = CloseAll(t, LAMBDA x, fd : x.func[fd])
  PROVE  Going(u, n, D, "func", NFds)
<1> DEFINE Cell(f, i) == IF i = 0 THEN t
                         ELSE IF Runs(f[i - 1]) /\ f[i - 1].func[i - 1] THEN _close(f[i - 1], i - 1) ELSE f[i - 1]
           Solves(f) == f = [i \in 0..NFds |-> Cell(f, i)]
<1>1. u = (CHOOSE f : Solves(f))[NFds]
  BY DEF CloseAll
<1>2. PICK kind, p : kind = "func" /\ p = 0
  OBVIOUS
<1>3. \A f : Turns(f, NFds, kind, t, p, p) <=> Solves(f)
  <2> SUFFICES ASSUME NEW f PROVE Turns(f, NFds, kind, t, p, p) <=> Solves(f)
    OBVIOUS
  <2>1. \A i \in 0..NFds : (IF i = 0 THEN t ELSE Turn(kind, f[i - 1], i, p, p)) = Cell(f, i)
    BY <1>2 DEF Turn, Visits
  <2> HIDE DEF Cell
  <2> QED BY <2>1 DEF Turns
<1>4. PICK at : at = CHOOSE f : Solves(f)
  OBVIOUS
<1>5. \E f : Turns(f, NFds, kind, t, p, p)
  BY TurnsExist, Bounds
<1> HIDE DEF Solves
<1>6. Turns(at, NFds, kind, t, p, p)
  BY <1>3, <1>4, <1>5
<1>7. kind \in {"props", "func"} /\ Turns(at, NFds, kind, t, 0, 0)
  BY <1>2, <1>6
<1>8. Going(at[NFds], n, D, kind, NFds)
  BY <1>2, <1>7, TurnsGoing
<1> QED BY <1>1, <1>2, <1>4, <1>8

\* A file that is to go away has a descriptor that is not parted.
LEMMA WishHasHandle ==
  ASSUME NEW t, NEW n, Sound(t, n), NEW name \in t.wish
  PROVE  \E fd \in Fds : t.props[fd] # NULL /\ t.jft[fd] # NULL /\ t.sft[t.jft[fd]] = name /\ name # "nul"
<1>1. CountOK(t.props, t.obj) /\ FollowOK(t.jft, t.sft, t.props, t.obj) /\ WishOK(t.disk, t.wish, t.obj)
  BY DEF Sound
<1>2. t.wish \subseteq Disk
  BY DEF Sound, Base, DiskTyped
<1>3. name # "" /\ name # "nul" /\ name \notin Special
  BY <1>2, DiskNames
<1>4. PICK o \in Objs : t.obj[o].filename = name
  BY <1>1 DEF WishOK
<1>5. Count(t.props, o) # 0
  BY <1>1, <1>3, <1>4 DEF CountOK
<1>6. PICK fd \in Fds : t.props[fd] = o
  BY <1>5, CountZero
<1>7. o # NULL
  BY Bounds DEF Objs, NULL
<1>8. t.jft[fd] # NULL /\ Fits(name, t.sft[t.jft[fd]])
  BY <1>1, <1>4, <1>6, <1>7 DEF FollowOK
<1>9. t.sft[t.jft[fd]] = name
  BY <1>3, <1>8 DEF Fits
<1> QED BY <1>3, <1>6, <1>7, <1>8, <1>9

LEMMA PartedHasNone ==
  ASSUME NEW t, NEW n, Sound(t, n), \A fd \in Fds : Parted(t, fd)
  PROVE  t.wish = {}
BY WishHasHandle DEF Parted

\* What exit leaves; with a list to look at, no file that was to go away.
LEMMA ExitFair ==
  ASSUME NEW t, NEW n \in 0..NObjs, Sound(t, n), NEW u, u = exit(t)
  PROVE  Fair(u, n) /\ (u.fate = "exited" /\ t.active # NULL => u.wish \intersect u.disk = {})
<1>1. PICK a, b : a = exit_cleanup(t) /\ b = FSEXT_close_all(a)
  OBVIOUS
<1>2. PICK v : v = IF Runs(a) THEN b ELSE a
  OBVIOUS
<1>3. PICK w : w = Prune([v EXCEPT !.jft = [fd \in Fds |-> NULL], !.fate = "exited"])
  OBVIOUS
<1>4. u = IF Runs(v) THEN w ELSE v
  BY <1>1, <1>2, <1>3 DEF exit, Then
<1>5. PICK D : D = {z \in Fds : t.active # NULL}
  OBVIOUS
<1>6. Fair(a, n) /\ a.fate # "exited" /\ (Runs(a) => \A z \in D : Parted(a, z))
  <2>1. CASE t.active = NULL
    <3>1. a = t /\ D = {}
      BY <1>1, <1>5, <2>1 DEF exit_cleanup
    <3>2. t.fate = "running"
      BY DEF Sound, Runs
    <3> QED BY <3>1, <3>2, SoundFair
  <2>2. CASE t.active # NULL
    <3>1. a = CloseAll(t, LAMBDA x, fd : x.props[fd] # NULL)
      BY <1>1, <2>2 DEF exit_cleanup
    <3>2. Going(t, n, {}, "props", 0)
      <4>1. t.fate = "running"
        BY DEF Sound, Runs
      <4>2. Reached(t, {}, "props", 0)
        BY FdSet DEF Reached
      <4> QED BY <4>1, <4>2, SoundFair DEF Going
    <3>3. Going(a, n, {}, "props", NFds)
      BY <3>1, <3>2, PropsLoop
    <3>4. \A z \in Fds : z < NFds
      BY Bounds DEF Fds
    <3> QED BY <1>5, <3>3, <3>4 DEF Going, Reached
  <2> QED BY <2>1, <2>2
<1>7. Fair(b, n) /\ b.fate # "exited" /\ (Runs(a) /\ Runs(b) => \A z \in D : Parted(b, z))
  <2>1. b = CloseAll(a, LAMBDA x, fd : x.func[fd])
    BY <1>1 DEF FSEXT_close_all
  <2>2. PICK E : E = {z \in D : Runs(a)}
    OBVIOUS
  <2>3. Going(a, n, E, "func", 0)
    BY <1>6, <2>2 DEF Going, Reached
  <2>4. Going(b, n, E, "func", NFds)
    BY <2>1, <2>3, FuncLoop
  <2> QED BY <1>5, <2>2, <2>4 DEF Going, Reached
<1>8. Fair(v, n) /\ v.fate # "exited" /\ (Runs(v) => \A z \in D : Parted(v, z))
  BY <1>2, <1>6, <1>7
<1>10. ASSUME Runs(v), t.active # NULL PROVE v.wish = {}
  <2>1. Sound(v, n) /\ \A z \in Fds : Parted(v, z)
    BY <1>5, <1>8, <1>10 DEF Fair
  <2> QED BY <2>1, PartedHasNone
<1>9. ASSUME Runs(v) PROVE Fair(w, n) /\ w.wish = v.wish
  <2>1. Base(v, n) /\ DOMAIN v = Fields
    BY <1>8 DEF Fair, Base
  <2>2. PICK x : x = [v EXCEPT !.jft = [fd \in Fds |-> NULL], !.fate = "exited"]
    OBVIOUS
  <2>3. Only(v, x, {"jft", "fate"}) /\ x.jft = [fd \in Fds |-> NULL] /\ x.fate = "exited"
    BY <2>1, <2>2 DEF Only, Fields
  <2>4. Only(x, w, {"sft"})
    <3>1. DOMAIN x = Fields /\ w = Prune(x)
      BY <1>3, <2>2, <2>3 DEF Only
    <3> QED BY <3>1 DEF Only, Fields, Prune
  <2>5. /\ DOMAIN w = Fields /\ w.jft = x.jft /\ w.disk = x.disk /\ w.wish = x.wish /\ w.props = x.props /\ w.obj = x.obj
        /\ w.active = x.active /\ w.cached = x.cached /\ w.func = x.func /\ w.data = x.data
        /\ w.dup_count = x.dup_count /\ w.nul = x.nul /\ w.fate = x.fate
    BY <2>4 DEF Only, Fields
  <2>6. /\ x.disk = v.disk /\ x.wish = v.wish /\ x.props = v.props /\ x.obj = v.obj
        /\ x.active = v.active /\ x.cached = v.cached /\ x.func = v.func /\ x.data = v.data
        /\ x.dup_count = v.dup_count /\ x.nul = v.nul
    BY <2>3 DEF Only, Fields
  <2>7. w.jft \in [Fds -> 0..NFds]
    BY <2>3, <2>5, Bounds DEF NULL
  <2>8. Base(w, n)
    BY <2>1, <2>3, <2>5, <2>6, <2>7 DEF Base
  <2> QED BY <2>3, <2>5, <2>6, <2>8 DEF Fair, Runs
<1> QED BY <1>4, <1>8, <1>9, <1>10

-----------------------------------------------------------------------------
(* The invariant. *)

LEMMA InitIInv == Init => IInv
<1> SUFFICES ASSUME Init PROVE IInv
  OBVIOUS
<1>0. calls = 0 /\ 2 * calls = 0 /\ calls \in 0..MaxCalls
  <2>1. calls = 0
    BY Zenon DEF Init
  <2> QED BY <2>1, Bounds
<1>1. PICK disk \in SUBSET Files :
    s = [jft |-> [fd \in Fds |-> IF fd = 0 THEN 1 ELSE NULL],
         sft |-> [i \in 1..NFds |-> IF i = 1 THEN "con" ELSE ""], disk |-> disk,
         props |-> [fd \in Fds |-> NULL], obj |-> [o \in Objs |-> NoObject],
         active |-> NULL, cached |-> NULL,
         func |-> [fd \in Fds |-> FALSE], data |-> [fd \in Fds |-> NULL],
         dup_count |-> [d \in Data |-> 0], nul |-> -1,
         ret |-> 0, fate |-> "running", wish |-> {}]
  BY DEF Init
<1>2. DOMAIN s = Fields
  BY <1>1 DEF Fields
<1>3. /\ s.jft = [fd \in Fds |-> IF fd = 0 THEN 1 ELSE NULL] /\ s.sft = [i \in 1..NFds |-> IF i = 1 THEN "con" ELSE ""]
      /\ s.disk = disk /\ s.wish = {} /\ s.fate = "running" /\ s.nul = -1 /\ s.active = NULL /\ s.cached = NULL
  BY <1>1
<1>4. /\ s.props = [fd \in Fds |-> NULL] /\ s.obj = [o \in Objs |-> NoObject] /\ s.func = [fd \in Fds |-> FALSE]
      /\ s.data = [fd \in Fds |-> NULL] /\ s.dup_count = [d \in Data |-> 0]
  BY <1>1
<1>5. 0 \in Fds /\ 1 \in 1..NFds /\ 0 \in 0..NFds /\ 1 \in 0..NFds
  BY Bounds DEF Fds
<1>6. s.jft \in [Fds -> 0..NFds] /\ s.jft[0] = 1 /\ \A fd \in Fds : fd # 0 => s.jft[fd] = NULL
  BY <1>3, <1>5 DEF NULL
<1>7. DosOK(s.jft, s.sft)
  <2>1. DOMAIN s.sft = 1..NFds /\ s.sft[1] = "con" /\ \A i \in 1..NFds : i # 1 => s.sft[i] = ""
    BY <1>3, <1>5
  <2>2. \A fd \in Fds : s.jft[fd] # NULL => s.sft[s.jft[fd]] # ""
    BY <1>6, <2>1
  <2>3. \A i \in 1..NFds : s.sft[i] # "" => \E fd \in Fds : s.jft[fd] = i
    BY <1>5, <1>6, <2>1
  <2> QED BY <2>1, <2>2, <2>3 DEF DosOK
<1>8. \A d : d # NULL => Count(s.data, d) = 0 /\ Count(s.props, d) = 0
  <2> SUFFICES ASSUME NEW d, d # NULL PROVE Count(s.data, d) = 0 /\ Count(s.props, d) = 0
    OBVIOUS
  <2>1. \A fd \in Fds : s.data[fd] # d /\ s.props[fd] # d
    BY <1>4
  <2> QED BY <2>1, CountZero
<1>9. DataTyped(s.data, s.dup_count) /\ Held(s.data, s.dup_count)
  <2>1. DataTyped(s.data, s.dup_count)
    BY <1>4 DEF DataTyped
  <2>2. ASSUME NEW d \in Data PROVE s.dup_count[d] >= Count(s.data, d)
    <3>1. d # NULL
      BY Bounds DEF Data, NULL
    <3>2. s.dup_count[d] = 0
      BY <1>4
    <3>3. Count(s.data, d) = 0
      BY <3>1, <1>8
    <3> QED BY <3>2, <3>3
  <2> QED BY <2>1, <2>2 DEF Held
<1>10. ObjTyped(s.obj, 0) /\ CountOK(s.props, s.obj)
  <2>1. NoObject \in Entries(0)
    BY <1>5 DEF NoObject, Entries, FileNames, NULL
  <2>2. s.obj \in [Objs -> Entries(0)]
    BY <1>4, <2>1
  <2>3. ASSUME NEW o \in Objs
        PROVE  s.obj[o].ref_count = Count(s.props, o) /\ (s.obj[o].filename # "" => s.obj[o].ref_count # 0)
    <3>1. o # NULL
      BY Bounds DEF Objs, NULL
    <3>2. s.obj[o].ref_count = 0 /\ s.obj[o].filename = ""
      <4>1. s.obj[o] = NoObject
        BY <1>4
      <4>2. NoObject.ref_count = 0 /\ NoObject.filename = ""
        BY DEF NoObject
      <4> QED BY <4>1, <4>2
    <3> QED BY <3>1, <3>2, <1>8
  <2> QED BY <2>2, <2>3 DEF ObjTyped, CountOK
<1>11. Base(s, 0)
  <2>1. DiskTyped(s.disk, s.wish)
    BY <1>3 DEF DiskTyped, Disk
  <2>2. s.props \in [Fds -> 0..0] /\ s.active \in 0..0 /\ s.cached \in 0..0 /\ s.func \in [Fds -> BOOLEAN]
    <3>1. NULL \in 0..0
      BY DEF NULL
    <3> QED BY <3>1, <1>3, <1>4
  <2> QED BY <2>1, <2>2, <1>2, <1>3, <1>6, <1>9, <1>10 DEF Base
<1>12. Sound(s, 0)
  <2>1. FuncOK(s.jft, s.sft, s.func)
    BY <1>4 DEF FuncOK
  <2>2. NulOK(s.jft, s.sft, s.func, s.data, s.props, s.nul)
    BY <1>3, <1>4 DEF NulOK
  <2>3. CachedOK(s.props, s.cached)
    BY <1>3 DEF CachedOK
  <2>4. FollowOK(s.jft, s.sft, s.props, s.obj)
    BY <1>4 DEF FollowOK
  <2>5. WishOK(s.disk, s.wish, s.obj)
    BY <1>3 DEF WishOK
  <2> QED BY <2>1, <2>2, <2>3, <2>4, <2>5, <1>3, <1>7, <1>10, <1>11 DEF Sound, Runs
<1> QED BY <1>0, <1>11, <1>12 DEF IInv

\* malloc has an object for every call that may need one.
Ample == NObjs >= 2 * MaxCalls

\* A call that leaves a state like t, with at most two objects more.
LEMMA CallIInv ==
  ASSUME IInv, NEW t, NEW n \in Nat, n <= 2 * calls + 2, Fair(t, n), Call(t)
  PROVE  IInv'
<1>1. calls \in Nat /\ calls' = calls + 1 /\ calls' \in 0..MaxCalls
  BY Bounds DEF IInv, Call
<1>2. PICK m, r : m = 2 * calls' /\ r = 0
  OBVIOUS
<1>3. m \in Nat /\ n <= m
  BY <1>1, <1>2
<1>4. Fair(t, m)
  BY <1>3, FairMore
<1>5. PICK u : u = Returns(t, r)
  OBVIOUS
<1>6. Fair(u, m)
  BY <1>4, <1>5, ReturnsFair
<1>7. s' = u
  BY <1>2, <1>5 DEF Call
<1> QED BY <1>1, <1>2, <1>6, <1>7 DEF IInv, Fair

LEMMA NextIInv == ASSUME Ample, IInv, Next PROVE IInv'
<1>1. Runs(s) /\ calls < MaxCalls
  BY DEF Next, DoOpen, DoClose, DoDup, DoDup2, DoFcntl, DoPipe, DoSeek, DoExit, Call
<1>2. PICK n : n = 2 * calls
  OBVIOUS
<1>3. Sound(s, n)
  BY <1>1, <1>2 DEF IInv
<1>4. /\ n \in Nat /\ n + 1 \in Nat /\ n + 2 \in Nat
      /\ n <= 2 * calls + 2 /\ n + 1 <= 2 * calls + 2 /\ n + 2 <= 2 * calls + 2
  BY <1>2, Bounds DEF IInv
<1>5. n \in 0..NObjs /\ n + 1 \in 0..NObjs /\ n + 2 \in 0..NObjs
  BY <1>1, <1>2, Bounds DEF IInv, Ample
<1>6. CASE DoOpen
  <2>1. PICK name \in Names, oflags \in OFlags : Call(open(s, name, oflags))
    BY <1>6 DEF DoOpen
  <2>2. PICK u : u = open(s, name, oflags)
    OBVIOUS
  <2>3. Fair(u, n + 1)
    BY <2>2, <1>3, <1>5, OpenFair
  <2> QED BY <2>1, <2>2, <2>3, <1>4, CallIInv
<1>7. CASE DoClose
  <2>1. PICK fd \in Own : Call(_close(s, fd))
    BY <1>7 DEF DoClose
  <2>2. PICK u : u = _close(s, fd)
    OBVIOUS
  <2>3. fd \in Fds /\ fd # s.nul
    BY DEF Own
  <2>4. Fair(u, n)
    BY <2>2, <2>3, <1>3, <1>5, CloseFair
  <2> QED BY <2>1, <2>2, <2>4, <1>4, CallIInv
<1>8. CASE DoDup
  <2>1. PICK fd \in Own : Call(dup(s, fd))
    BY <1>8 DEF DoDup
  <2>2. PICK u : u = dup(s, fd)
    OBVIOUS
  <2>3. fd \in Fds
    BY DEF Own
  <2>4. Fair(u, n)
    BY <2>2, <2>3, <1>3, <1>5, DupSound, SoundFair
  <2> QED BY <2>1, <2>2, <2>4, <1>4, CallIInv
<1>9. CASE DoDup2
  <2>1. PICK fd \in Own, new \in Own, fails \in BOOLEAN : Call(dup2(s, fd, new, fails))
    BY <1>9 DEF DoDup2
  <2>2. PICK u : u = dup2(s, fd, new, fails)
    OBVIOUS
  <2>3. fd \in Fds /\ new \in Fds /\ new # s.nul
    BY DEF Own
  <2>4. Fair(u, n)
    BY <2>2, <2>3, <1>3, <1>5, Dup2Fair
  <2> QED BY <2>1, <2>2, <2>4, <1>4, CallIInv
<1>10. CASE DoFcntl
  <2>1. PICK fd \in Own, min \in Own, fails \in BOOLEAN : Call(fcntl_DUPFD(s, fd, min, fails))
    BY <1>10 DEF DoFcntl
  <2>2. PICK u : u = fcntl_DUPFD(s, fd, min, fails)
    OBVIOUS
  <2>3. fd \in Fds
    BY DEF Own
  <2>4. Fair(u, n)
    BY <2>2, <2>3, <1>3, <1>5, FcntlFair
  <2> QED BY <2>1, <2>2, <2>4, <1>4, CallIInv
<1>11. CASE DoPipe
  <2>1. Call(pipe(s))
    BY <1>11 DEF DoPipe
  <2>2. PICK u : u = pipe(s)
    OBVIOUS
  <2>3. Fair(u, n + 2)
    BY <2>2, <1>3, <1>5, PipeFair
  <2> QED BY <2>1, <2>2, <2>3, <1>4, CallIInv
<1>12. CASE DoSeek
  <2>1. PICK fd \in Own : Call(llseek(s, fd))
    BY <1>12 DEF DoSeek
  <2>2. PICK u : u = llseek(s, fd)
    OBVIOUS
  <2>3. fd \in Fds /\ fd # s.nul
    BY DEF Own
  <2>4. Fair(u, n + 1)
    BY <2>2, <2>3, <1>3, <1>5, SeekFair
  <2> QED BY <2>1, <2>2, <2>4, <1>4, CallIInv
<1>13. CASE DoExit
  <2>1. Call(exit(s))
    BY <1>13 DEF DoExit
  <2>2. PICK u : u = exit(s)
    OBVIOUS
  <2>3. Fair(u, n)
    BY <2>2, <1>3, <1>5, ExitFair
  <2> QED BY <2>1, <2>2, <2>3, <1>4, CallIInv
<1> QED BY <1>6, <1>7, <1>8, <1>9, <1>10, <1>11, <1>12, <1>13 DEF Next

LEMMA StutterIInv == ASSUME IInv, UNCHANGED vars PROVE IInv'
<1>1. s' = s /\ calls' = calls
  BY DEF vars
<1> QED BY <1>1 DEF IInv

\* After every call the tables are sound, and no pointer leads to an object malloc has
\* not given (fd_props.c, fsext.c and the calls that change a descriptor).
THEOREM DescriptorInvariance == ASSUME Ample PROVE Spec => []IInv
<1>1. IInv /\ [Next]_vars => IInv'
  BY NextIInv, StutterIInv
<1> QED BY <1>1, InitIInv, PTL DEF Spec

LEMMA HoldsTypes == ASSUME Ample, IInv PROVE TypeOK
<1>1. PICK n : n = 2 * calls
  OBVIOUS
<1>2. n \in 0..NObjs
  BY <1>1, Bounds DEF IInv, Ample
<1>3. 0..n \subseteq Objs \union {NULL}
  BY <1>2, Bounds DEF Objs, NULL
<1>4. Entries(n) \subseteq Object
  BY <1>3 DEF Entries, Object, FileNames
<1>5. Base(s, n)
  BY <1>1 DEF IInv
<1>6. s.obj \in [Objs -> Object]
  BY <1>4, <1>5 DEF Base, ObjTyped
<1>7. s.props \in [Fds -> Objs \union {NULL}] /\ {s.active, s.cached} \subseteq Objs \union {NULL}
  BY <1>3, <1>5 DEF Base
<1> QED BY <1>5, <1>6, <1>7 DEF Base, DiskTyped, DataTyped, TypeOK

\* Whatever order descriptors are opened, duplicated, moved and closed in, the properties
\* of each are those of its DOS handle, they are counted, and the cache has none of them
\* (fd_props.c: __dup_fd_properties and __clear_fd_properties in step with the handles).
THEOREM TablesStayTogether == ASSUME Ample PROVE Spec => []TablesAgree
<1>1. IInv => TablesAgree
  <2> SUFFICES ASSUME IInv PROVE TablesAgree
    OBVIOUS
  <2>1. TypeOK
    BY HoldsTypes
  <2>2. PropertiesFollowHandles
    BY DEF IInv, Sound, FollowOK, Fits, PropertiesFollowHandles, Open, Named
  <2>3. ReferencesAreCounted
    <3> SUFFICES ASSUME Runs(s), NEW o \in {s.props[fd] : fd \in Fds} \ {NULL}
                 PROVE  s.obj[o].ref_count = Cardinality({fd \in Fds : s.props[fd] = o})
      BY DEF ReferencesAreCounted
    <3>1. o \in Objs
      BY <2>1 DEF TypeOK
    <3>2. CountOK(s.props, s.obj)
      BY DEF IInv, Sound
    <3> QED BY <3>1, <3>2 DEF CountOK, Count
  <2>4. CachedAreIdle
    <3> SUFFICES ASSUME Runs(s) PROVE s.cached \notin {s.props[fd] : fd \in Fds} \ {NULL}
      BY DEF CachedAreIdle
    <3>1. CachedOK(s.props, s.cached)
      BY DEF IInv, Sound
    <3> QED BY <3>1 DEF CachedOK
  <2> QED BY <2>1, <2>2, <2>3, <2>4 DEF TablesAgree
<1> QED BY <1>1, DescriptorInvariance, PTL

\* While the program runs, a file opened with O_TEMPORARY by any of its descriptors is
\* gone once none is open (fd_props.c: close_fd hands the duty to another object of the
\* name, or removes the file).
THEOREM TemporaryFilesGoAway == ASSUME Ample PROVE Spec => []TemporaryGoesAway
<1>1. IInv => TemporaryGoesAway
  <2> SUFFICES ASSUME IInv, Runs(s), NEW name \in s.wish PROVE \E fd \in Fds : Open(s, fd) /\ Named(s, fd) = name
    BY DEF TemporaryGoesAway
  <2>1. PICK n : Sound(s, n)
    BY DEF IInv
  <2> QED BY <2>1, WishHasHandle DEF Open, Named
<1> QED BY <1>1, DescriptorInvariance, PTL

\* At exit the same holds of every such file: with the active list not lost, exit_cleanup
\* closes descriptors in an order that lets each file's duty be handed on to the last of
\* them (fd_props.c:226-241).
THEOREM TemporaryFilesGoAtExit == ASSUME Ample PROVE Spec => ExitRemovesTemporaries
<1>1. ASSUME IInv, Runs(s), DoExit, s'.fate = "exited", s.active # NULL PROVE s'.wish \intersect s'.disk = {}
  <2>1. PICK n : n \in 0..NObjs /\ Sound(s, n)
    <3>1. 2 * calls \in 0..NObjs
      BY <1>1, Bounds DEF IInv, Ample
    <3> QED BY <1>1, <3>1 DEF IInv
  <2>2. PICK u : u = exit(s) /\ s' = Returns(u, 0)
    BY <1>1 DEF DoExit, Call
  <2>3. Fair(u, n) /\ (u.fate = "exited" => u.wish \intersect u.disk = {})
    BY <1>1, <2>1, <2>2, ExitFair
  <2>4. DOMAIN u = Fields
    BY <2>3 DEF Fair, Base
  <2>5. s'.fate = u.fate /\ s'.wish = u.wish /\ s'.disk = u.disk
    BY <2>2, <2>4 DEF Returns, Fields
  <2> QED BY <1>1, <2>3, <2>5
<1>2. ASSUME IInv, [Next]_vars PROVE [s'.fate = "exited" /\ s.active # NULL /\ DoExit => s'.wish \intersect s'.disk = {}]_vars
  <2>1. DoExit => Runs(s)
    BY DEF DoExit, Call
  <2> QED BY <1>1, <1>2, <2>1 DEF vars
<1> QED BY <1>2, DescriptorInvariance, PTL DEF Spec, ExitRemovesTemporaries

\* The context of a zero device outlives the descriptors that hold it, and what an
\* extension is handed is a handle of the null device (fse_zero.c: dev_fsext, fsext.c).
THEOREM ContextsOutliveDescriptors == ASSUME Ample PROVE Spec => []ContextsAreCounted
<1>1. IInv => ContextsAreCounted
  <2> SUFFICES ASSUME IInv, NEW fd \in Fds
               PROVE  /\ s.data[fd] # NULL =>
                           s.dup_count[s.data[fd]] >= Cardinality({x \in Fds : s.data[x] = s.data[fd]})
                      /\ Runs(s) /\ s.func[fd] => Open(s, fd) /\ Named(s, fd) = "nul"
    BY DEF ContextsAreCounted
  <2>1. s.data \in [Fds -> Data \union {NULL}] /\ Held(s.data, s.dup_count)
    BY DEF IInv, Base, DataTyped
  <2>2. ASSUME s.data[fd] # NULL
        PROVE  s.dup_count[s.data[fd]] >= Cardinality({x \in Fds : s.data[x] = s.data[fd]})
    <3>1. s.data[fd] \in Data
      BY <2>1, <2>2
    <3> QED BY <3>1, <2>1 DEF Held, Count
  <2>3. ASSUME Runs(s), s.func[fd] PROVE Open(s, fd) /\ Named(s, fd) = "nul"
    BY <2>3 DEF IInv, Sound, FuncOK, Open, Named
  <2> QED BY <2>2, <2>3
<1> QED BY <1>1, DescriptorInvariance, PTL
=============================================================================

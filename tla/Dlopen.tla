------------------------------- MODULE Dlopen --------------------------------
(***************************************************************************)
(* Dynamic loading (dxe/dlopen.c, dlregsym.c, dlunregs.c): modules are     *)
(* loaded with the modules they depend on, bound to each other's symbols,  *)
(* counted, and unloaded when nobody uses them.                            *)
(*                                                                         *)
(* A module on disk depends on others and imports one symbol from each of  *)
(* them, named as the file that exports it; one imports from the program.  *)
(* dlopen and dlclose call themselves for the dependencies; an operator    *)
(* takes the state of the loader and gives the state the C function        *)
(* leaves, with its result in ret.                                         *)
(***************************************************************************)
EXTENDS Naturals, Sequences, FiniteSets, SequencesExt

CONSTANTS Files,     \* the modules on disk
          Stray,     \* imports that no dependency stands behind
          Odd,       \* one of these imports from the program, and may not be "ok"
          Statuses,  \* of that file: "ok"; "missing", no path to it; "locked", it cannot be
                     \* opened; "alien", no DXE; "short", "cut", it ends in the header, later
          MaxMods,   \* modules in memory at most
          MaxHeld,   \* handles the program holds at most
          MaxMallocs \* a call may run out of memory after at most MaxMallocs mallocs

ASSUME BoundAssumption == {MaxMods, MaxHeld, MaxMallocs} \subseteq Nat /\ Cardinality(Files) <= MaxMods
ASSUME FileAssumption == Stray \union Odd \subseteq Files /\ Statuses \subseteq {"ok", "missing", "locked", "alien", "short", "cut"}

VARIABLES
  disk,  \* [Files -> [deps: Seq(Files), imports: set of symbols, status]]
  s,     \* the loader: mods, the dxe_handles, by address; chain, dxe_chain; stk,
         \* stk_top; tables, the program's symbols; resolver, those _dlsymresolver
         \* knows; unres, _dl_unresolved_count; errno; ret; left, mallocs until one
         \* fails; ran, modules whose _init ran and whose _fini did not; orphan: a _fini
         \* ran without its dependencies; lost: there was no memory for a handle
  held,  \* for each address the handles the program has to it
  last   \* the last call: its name and the result

vars == <<disk, s, held, last>>

Addresses == 1..MaxMods
PROG == "_main"     \* a symbol of the program
NEVER == 100        \* mallocs succeed

\* Mutant: errno is not set.
NoMemory_NoErrno(t) == [t EXCEPT !.left = 100, !.ret = 0]

Result(t, r) == [t EXCEPT !.ret = r]
Error(t, e) == [t EXCEPT !.errno = e, !.ret = 0]
OutOfMemory(t) == t.left = 0
Malloc(t) == [t EXCEPT !.left = IF @ = NEVER THEN @ ELSE @ - 1]
NoMemory(t) == [Error(t, "ENOMEM") EXCEPT !.left = NEVER]

-----------------------------------------------------------------------------
(* dlclose. *)

\* The finalisation of a module may use everything it depends on.
Fini(t, m) ==
  [t EXCEPT !.ran = @ \ {m},
            !.orphan = @ \/ \E d \in Range(t.mods[m].deps) : d \notin DOMAIN t.mods \/ d \notin Range(t.chain)]

\* Mutant: what was loaded later is dropped as well.
Unlink_DropsHead(t, m) == [t EXCEPT !.chain = IF @ = <<>> THEN @ ELSE SelectSeq(Tail(@), LAMBDA n : n # m)]
Unlink(t, m) == [t EXCEPT !.chain = SelectSeq(@, LAMBDA n : n # m)]
FreeHandle(t, m) == [t EXCEPT !.mods = [n \in DOMAIN @ \ {m} |-> @[n]]]

RECURSIVE dlclose(_, _), CloseAll(_, _)
CloseAll(t, list) == IF list = <<>> THEN t ELSE CloseAll(dlclose(t, Head(list)), Tail(list))

\* Mutants: the dependencies stay; they go before the module is finalised.
Unload_KeepsDeps(t, m) == FreeHandle(Unlink(Fini(t, m), m), m)
Unload_DepsFirst(t, m) == FreeHandle(Unlink(Fini(CloseAll(t, t.mods[m].deps), m), m), m)

Unload(t, m) == FreeHandle(CloseAll(Unlink(Fini(t, m), m), t.mods[m].deps), m)
dlclose(t, m) ==
  LET Dropped(u) == IF u.mods[m].inuse > 0 THEN u ELSE Unload(u, m)
  IN  Dropped([t EXCEPT !.mods[m].inuse = @ - 1])

\* _closeall, a destructor.
RECURSIVE _closeall(_)
_closeall(t) == IF t.chain = <<>> THEN t ELSE _closeall(dlclose(t, Head(t.chain)))

-----------------------------------------------------------------------------
(* dlopen. *)

Exports(t, m, symbol) == t.mods[m].global /\ t.mods[m].file = symbol

\* dlsym(RTLD_DEFAULT): the first public module of the chain that exports the symbol, or
\* the program itself, by its tables or by _dlsymresolver, which is 0; the empty set when
\* nobody has it.
dlsym(t, symbol) ==
  LET at == {i \in 1..Len(t.chain) : Exports(t, t.chain[i], symbol)}
  IN  IF at # {} THEN {t.chain[CHOOSE i \in at : \A j \in at : i <= j]}
      ELSE IF symbol \in t.tables \union t.resolver THEN {0} ELSE {}

\* The tail of dlopen: everything loaded for the module is given back.
Undo(t, deps) == Result(CloseAll(t, deps), 0)

\* The module gets its handle and becomes the head of the chain.  When there is no memory
\* for it, its _init has run, and dxe_chain is the NULL that malloc returned.
Enter(t, file, global, deps, refs) ==
  LET Put(m) == [t EXCEPT !.ran = @ \union {m}, !.chain = <<m>> \o @, !.ret = m,
                          !.mods = [n \in DOMAIN @ \union {m} |->
                             IF n = m THEN [file |-> file, global |-> global, inuse |-> 1, deps |-> deps, refs |-> refs]
                             ELSE @[n]]]
  IN  IF OutOfMemory(t) THEN Undo([NoMemory(t) EXCEPT !.chain = <<>>, !.ran = @ \union {0}, !.lost = TRUE], deps)
      ELSE Put(CHOOSE m \in Addresses \ DOMAIN t.mods : \A n \in Addresses \ DOMAIN t.mods : m <= n)

\* Symbols are bound, the table of exports is made.
Bind(t, file, global, deps) ==
  LET missing == {sym \in disk[file].imports : dlsym(t, sym) = {}}
      refs == {[to |-> m, file |-> t.mods[m].file] : m \in UNION {dlsym(t, sym) : sym \in disk[file].imports} \ {0}}
      Export(u) == IF OutOfMemory(u) THEN Undo(NoMemory(u), deps) ELSE Enter(Malloc(u), file, global, deps, refs)
  IN  IF missing # {} THEN Undo([t EXCEPT !.unres = Cardinality(missing)], deps)
      ELSE Export([t EXCEPT !.unres = 0])

\* Mutant: a module that is asked for again becomes public.
Reuse_Publishes(t, m) == Result([t EXCEPT !.mods[m].inuse = @ + 1, !.mods[m].global = TRUE], m)
Reuse(t, m) == Result([t EXCEPT !.mods[m].inuse = @ + 1], m)

SemiLoaded(t, file) == file \in Range(t.stk)

\* Mutant: the list of semi-loaded modules keeps one that failed.
Pop_AfterSuccess(t) == [t EXCEPT !.stk = IF t.ret = 0 THEN @ ELSE Tail(@)]
Pop(t) == [t EXCEPT !.stk = Tail(@)]

RECURSIVE dlopen(_, _, _), LoadDeps(_, _, _, _)
dlopen(t, file, global) ==
  LET Tables(u) == IF disk[file].status = "cut" THEN Result(u, 0) ELSE LoadDeps(u, file, global, <<>>)
      Discardable(u) == IF OutOfMemory(u) THEN NoMemory(u) ELSE Tables(Malloc(u))
      Read(u) == IF OutOfMemory(u) THEN NoMemory(u) ELSE Discardable(Malloc(u))
      Start(u) ==
        LET loaded == {m \in Range(u.chain) : u.mods[m].file = file} IN
        CASE disk[file].status = "missing" -> Error(u, "ENOENT")
          [] SemiLoaded(u, file) -> Error(u, "ELOOP")
          [] ~SemiLoaded(u, file) /\ loaded # {} -> Reuse(u, CHOOSE m \in loaded : TRUE)
          [] disk[file].status = "locked" -> Error(u, "EACCES")
          [] disk[file].status = "short" -> Result(u, 0)
          [] disk[file].status = "alien" -> Error(u, "ENOEXEC")
          [] OTHER -> Read(u)
      Named(u) == IF file = "" THEN Error(u, "EINVAL") ELSE Start(u)
  IN  Named([t EXCEPT !.unres = 0, !.errno = "0"])

\* The loop over the dependencies; deps are the addresses of those loaded so far.
LoadDeps(t, file, global, deps) ==
  LET Loaded(u) == CASE u.ret = 0 -> Undo(u, deps)
                     [] u.ret # 0 /\ OutOfMemory(u) -> Undo(NoMemory(dlclose(u, u.ret)), deps)
                     [] OTHER -> LoadDeps(Malloc(u), file, global, Append(deps, u.ret))
  IN  IF Len(deps) = Len(disk[file].deps) THEN Bind(t, file, global, deps)
      ELSE Loaded(Pop(dlopen([t EXCEPT !.stk = <<file>> \o @], disk[file].deps[Len(deps) + 1], TRUE)))

-----------------------------------------------------------------------------
Init ==
  /\ \E deps \in [Files -> SUBSET Files] : \E odd \in Odd : \E status \in Statuses :
       /\ \A x \in Files : x \notin deps[x]
       /\ disk = [x \in Files |-> [deps |-> SetToSeq(deps[x]),
                                   imports |-> deps[x] \union (Stray \ {x}) \union (IF x = odd THEN {PROG} ELSE {}),
                                   status |-> IF x = odd THEN status ELSE "ok"]]
  /\ s = [mods |-> <<>>, chain |-> <<>>, stk |-> <<>>, tables |-> {}, resolver |-> {}, unres |-> 0, errno |-> "0", ret |-> 0,
          left |-> NEVER, ran |-> {}, orphan |-> FALSE, lost |-> FALSE]
  /\ held = [m \in Addresses |-> 0]
  /\ last = [op |-> "start", ret |-> 0]

Running == last.op # "exit"
Done(op, t) == s' = [t EXCEPT !.ret = 0, !.left = NEVER] /\ last' = [op |-> op, ret |-> t.ret]

\* With the chain lost a file may be loaded again and again: a bound on that.
Room == s.lost => Cardinality(DOMAIN s.mods) + Cardinality(Files) <= MaxMods

Dlopen == \E file \in Files \union {""} : \E global \in BOOLEAN : \E left \in (0..MaxMallocs) \union {NEVER} :
            LET t == dlopen([s EXCEPT !.left = left], file, global) IN
            /\ Running /\ Room /\ FoldFunctionOnSet(LAMBDA a, b : a + b, 0, held, Addresses) < MaxHeld
            /\ Done("dlopen", t)
            /\ held' = IF t.ret = 0 THEN held ELSE [held EXCEPT ![t.ret] = @ + 1]
            /\ UNCHANGED disk

Dlclose == \E m \in Addresses :
             /\ Running /\ held[m] > 0
             /\ Done("call", dlclose(s, m)) /\ held' = [held EXCEPT ![m] = @ - 1]
             /\ UNCHANGED disk

dlregsym == Running /\ Done("call", [s EXCEPT !.tables = @ \union {PROG}]) /\ UNCHANGED <<disk, held>>
dlunregsym == Running /\ Done("call", [s EXCEPT !.tables = @ \ {PROG}]) /\ UNCHANGED <<disk, held>>

\* The program sets _dlsymresolver, or NULL.
SetResolver == \E symbols \in SUBSET {PROG} :
                 Running /\ Done("call", [s EXCEPT !.resolver = symbols]) /\ UNCHANGED <<disk, held>>

\* The destructors of the program.
Exit == Running /\ Done("exit", _closeall(s)) /\ held' = [m \in Addresses |-> 0] /\ UNCHANGED disk

Next == Dlopen \/ Dlclose \/ dlregsym \/ dlunregsym \/ SetResolver \/ Exit
Spec == Init /\ [][Next]_vars

-----------------------------------------------------------------------------
Loaded == DOMAIN s.mods

\* The type of the loader's state at the return of a call.
TypeOK ==
  /\ Loaded \subseteq Addresses /\ s.chain \in Seq(Loaded) /\ s.stk = <<>> /\ s.unres \in Nat
  /\ \A m \in Loaded : s.mods[m].inuse \in Nat \ {0} /\ s.mods[m].deps \in Seq(Addresses) /\ s.mods[m].file \in Files
  /\ held \in [Addresses -> Nat]

\* inuse is the number of the program's handles and of the modules that depend on this one.
UsesAreCounted ==
  \A m \in Loaded : s.mods[m].inuse = held[m] + Cardinality({n \in Loaded : m \in Range(s.mods[n].deps)})

\* Every module in memory is on the chain, once, and no file is loaded twice; its
\* dependencies are behind it, so that _closeall meets no module before its users.
ChainIsOrdered ==
  /\ Range(s.chain) = Loaded /\ Len(s.chain) = Cardinality(Loaded)
  /\ \A m, n \in Loaded : s.mods[m].file = s.mods[n].file => m = n
  /\ \A i \in 1..Len(s.chain) : \A d \in Range(s.mods[s.chain[i]].deps) : \E j \in (i + 1)..Len(s.chain) : s.chain[j] = d

\* After every call the modules, their counts and the chain agree, and no module is left
\* on the list of semi-loaded ones: through every failure but that of the last malloc of
\* dlopen, after which the chain is lost (PublicIsSeen).
LoaderOK == TypeOK /\ (~s.lost => UsesAreCounted /\ ChainIsOrdered)

\* Every _init has its _fini when the module goes, before the modules it depends on go, as
\* long as the chain is not lost.
FinalisedInOrder == ~s.lost => s.ran = Loaded /\ ~s.orphan /\ (~Running => Loaded = {})

\* dlerror has something to say of a dlopen that failed, unless a file ends too early.
FailureIsExplained ==
  last.op = "dlopen" /\ last.ret = 0 =>
    s.errno # "0" \/ s.unres > 0 \/ \E x \in Files : disk[x].status \in {"short", "cut"}

\* A dlopen that fails at a file, a dependency, a symbol or any malloc but its last one
\* leaves nothing behind.
FailureLeavesNothing ==
  [][last'.op = "dlopen" /\ last'.ret = 0 /\ ~s'.lost => s'.mods = s.mods /\ s'.chain = s.chain /\ s'.ran = s.ran]_vars

\* dlopen.txh:30: RTLD_GLOBAL "means all symbols in this module are made public and
\* subsequently loaded modules with unresolved symbols will `see' them": dlsym finds a
\* public module as long as the program has a handle to it.  The code does not keep this
\* when there is no memory for the handle of another module (dlopen.c:358).
PublicIsSeen == \A m \in Loaded : held[m] > 0 /\ s.mods[m].global => m \in dlsym(s, s.mods[m].file)

\* dlerror.txh:13: dlerror "returns a character string with more information on the last error
\* that occurred".  The code does not keep this of files that end too early: dlopen fails
\* with errno 0 and no symbol unresolved (dlopen.c:203, :242).
EveryFailureIsExplained == last.op = "dlopen" /\ last.ret = 0 => s.errno # "0" \/ s.unres > 0

\* What a module was bound to is in memory as long as the module.  The code does not keep
\* this of a module that is no dependency (Stray): see README.md, section 6.
ReferencesStayLoaded ==
  \A m \in Loaded : \A r \in s.mods[m].refs : r.to \in Loaded /\ s.mods[r.to].file = r.file
=============================================================================

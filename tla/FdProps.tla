------------------------------ MODULE FdProps --------------------------------
(***************************************************************************)
(* File descriptors: dos/io/fd_props.c and the calls that open, duplicate, *)
(* move and close descriptors (open, _close, dup, dup2, fcntl, pipe, llseek*)
(* and exit), with the table of file system extensions (fsext/fsext.c) and *)
(* one extension, the zero device of fsext/fse_zero.c.                     *)
(*                                                                         *)
(* Three tables are indexed by a descriptor and must agree: the handles of *)
(* DOS, __fd_properties and fsext_list.  Objects of properties are counted,*)
(* kept on an active or a cached list, and hold the name of a file that is *)
(* to be removed when its last descriptor is closed.  A C function is an   *)
(* operator from the state it finds to the one it leaves, with its result  *)
(* in ret.                                                                 *)
(***************************************************************************)
EXTENDS Integers, FiniteSets, FiniteSetsExt

CONSTANTS NFds,    \* the descriptors are 0..NFds-1
          NObjs,   \* objects malloc can give; more than are ever reachable
          Files,   \* names of files the program opens
          Special, \* of "dir", a directory, and "zero", the device of the extension
          DirMin,  \* the least descriptor for a directory, 20 in the code
          MaxCalls \* bound on the calls the program makes

ASSUME BoundsAssumption == NFds \in Nat \ {0} /\ NObjs \in Nat /\ DirMin \in 0..NFds /\ MaxCalls \in Nat
ASSUME NamesAssumption == Special \subseteq {"dir", "zero"} /\ {"dir", "zero", "tmp", "con", "nul", ""} \cap Files = {}

Fds == 0..(NFds - 1)
Objs == 1..NObjs
Data == 1..NFds            \* contexts of the zero device
NULL == 0
Flags == {"TEMPORARY", "PIPE", "DIRECTORY"}
Disk == Files \union {"tmp"}         \* the names that are files

NoObject == [ref_count |-> 0, filename |-> "", flags |-> {}, prev |-> NULL, next |-> NULL]

VARIABLES
  calls,  \* made so far
  s   \* jft: the open file of each handle, NULL if closed; sft: the name each open
      \* file was opened by; disk: the files that exist; props: __fd_properties;
      \* obj: the objects; active, cached: the heads of the lists; func, data: the
      \* two fields of fsext_list; dup_count by context; nul: null_dev_fd;
      \* ret: the result of a call; fate: "running", "fault", "hang" or "exited";
      \* wish: history, the files that were opened with O_TEMPORARY

vars == <<calls, s>>

\* DOS hands the program its standard input; the library knows nothing of it.
Init ==
  /\ calls = 0
  /\ \E disk \in SUBSET Files :
    s = [jft |-> [fd \in Fds |-> IF fd = 0 THEN 1 ELSE NULL],
         sft |-> [i \in 1..NFds |-> IF i = 1 THEN "con" ELSE ""], disk |-> disk,
         props |-> [fd \in Fds |-> NULL], obj |-> [o \in Objs |-> NoObject],
         active |-> NULL, cached |-> NULL,
         func |-> [fd \in Fds |-> FALSE], data |-> [fd \in Fds |-> NULL],
         dup_count |-> [d \in Data |-> 0], nul |-> -1,
         ret |-> 0, fate |-> "running", wish |-> {}]

Returns(t, r) == [t EXCEPT !.ret = r]
Failed(t) == t.ret = -1
Runs(t) == t.fate = "running"

\* What follows a call: nothing if it did not return, or if it failed.
Then(t, F(_)) == IF Runs(t) THEN F(t) ELSE t
IfOk(t, F(_)) == IF Failed(t) THEN t ELSE Then(t, F)

-----------------------------------------------------------------------------
(* DOS. *)

FreeHandles(t) == {fd \in Fds : t.jft[fd] = NULL}
Named(t, fd) == t.sft[t.jft[fd]]
Open(t, fd) == t.jft[fd] # NULL

\* An open file stays while a handle refers to it.
Prune(t) == [t EXCEPT !.sft = [i \in DOMAIN t.sft |-> IF \E fd \in Fds : t.jft[fd] = i THEN t.sft[i] ELSE ""]]

\* Functions 3Dh and 3Ch: the lowest free handle.
DosOpen(t, name) ==
  IF FreeHandles(t) = {} THEN Returns(t, -1)
  ELSE LET Enter(fd, i) == [t EXCEPT !.jft[fd] = i, !.sft[i] = name, !.ret = fd]
       IN  Enter(Min(FreeHandles(t)), Min({j \in DOMAIN t.sft : t.sft[j] = ""}))

\* Function 45h.
DosDup(t, fd) ==
  LET Enter(new) == [t EXCEPT !.jft[new] = t.jft[fd], !.ret = new] IN
  IF ~Open(t, fd) \/ FreeHandles(t) = {} THEN Returns(t, -1) ELSE Enter(Min(FreeHandles(t)))

\* Functions 3Eh and 46h.
DosClose(t, fd) == Prune([t EXCEPT !.jft[fd] = NULL])
DosForceDup(t, fd, new) == Prune([t EXCEPT !.jft[new] = t.jft[fd]])

-----------------------------------------------------------------------------
(* fd_props.c. *)

\* A malloc'ed object: one that no pointer leads to any more.
Live(t) ==
  LET Linked(S) == S \union UNION {{t.obj[o].prev, t.obj[o].next} : o \in S \ {NULL}}
      reach[n \in 0..NObjs] ==
        IF n = 0 THEN {t.props[fd] : fd \in Fds} \union {t.active, t.cached} ELSE Linked(reach[n - 1])
  IN  reach[NObjs] \ {NULL}
Keep(t, live) == [t EXCEPT !.obj = [o \in Objs |-> IF o \in live THEN t.obj[o] ELSE NoObject]]
Forget(t) == Keep(t, Live(t))

\* insert_list(head_ptr, item); list is "active" or "cached".
insert_list(t, list, item) ==
  LET Before(u, head) == IF head = NULL THEN u ELSE [u EXCEPT !.obj[head].prev = item]
  IN  Before([t EXCEPT ![list] = item, !.obj[item].next = t[list], !.obj[item].prev = NULL], t[list])

\* remove_list(head_ptr, item), one operator for each of its conditionals.  The link
\* back of the successor and the new head are read from fields that are cleared by then.
CutPrev(t, item) ==
  IF t.obj[item].prev = NULL THEN t
  ELSE [t EXCEPT !.obj[t.obj[item].prev].next = t.obj[item].next, !.obj[item].prev = NULL]
CutNext(t, item) ==
  IF t.obj[item].next = NULL THEN t
  ELSE [t EXCEPT !.obj[t.obj[item].next].prev = t.obj[item].prev, !.obj[item].next = NULL]
remove_list(t, list, item) ==
  LET CutHead(u) == [u EXCEPT ![list] = IF @ = item THEN u.obj[item].next ELSE @]
  IN  CutHead(CutNext(CutPrev(t, item), item))

\* Mutant: the object stays at the head of the cache.
alloc_fd_properties_StaysCached(t) ==
  LET Fresh(u, o) == [u EXCEPT !.obj[o].prev = NULL, !.obj[o].next = NULL, !.obj[o].ref_count = 1, !.ret = o]
  IN  Fresh(t, IF t.cached = NULL THEN Min(Objs \ Live(t)) ELSE t.cached)

\* alloc_fd_properties; the object is in ret.
alloc_fd_properties(t) ==
  LET Fresh(u, o) == [u EXCEPT !.obj[o].prev = NULL, !.obj[o].next = NULL, !.obj[o].ref_count = 1, !.ret = o]
  IN  IF t.cached = NULL THEN Fresh(t, Min(Objs \ Live(t)))
      ELSE Fresh(remove_list(t, "cached", t.cached), t.cached)

\* The flags of a cached object are dead: open_fd assigns them before they are read.
free_fd_properties(t, o) ==
  insert_list(remove_list([t EXCEPT !.obj[o].flags = {}], "active", o), "cached", o)

\* find_eq_filename: the walk ends at another object of the same name, at the end of
\* the list, or in stricmp at an object without a name; on a circle it does not end.
find_eq_filename(t, o) ==
  LET Next_(p) == IF p = NULL THEN NULL ELSE t.obj[p].next
      at[k \in 0..NObjs] == IF k = 0 THEN t.active ELSE Next_(at[k - 1])
      Stop(p) == p = NULL \/ (p # o /\ t.obj[p].filename \in {"", t.obj[o].filename})
      Found(p) == IF p # NULL /\ t.obj[p].filename = "" THEN [t EXCEPT !.fate = "fault"] ELSE Returns(t, p)
      End(stops) == IF stops = {} THEN [t EXCEPT !.fate = "hang"] ELSE Found(at[Min(stops)])
  IN  End({k \in 0..NObjs : Stop(at[k])})

open_fd(t, o, oflags) ==
  [t EXCEPT !.obj[o].flags = IF t.obj[o].filename # "" /\ "TEMPORARY" \in oflags THEN {"TEMPORARY"} ELSE {}]

Remove(t, name) == [t EXCEPT !.disk = t.disk \ {name}, !.wish = t.wish \ {name}]

\* Mutant: another descriptor of the file is left as it is.
close_fd_NoMark(t, o) ==
  LET Delete(u) == IF u.ret # NULL THEN u ELSE Remove(u, u.obj[o].filename)
  IN  IF "TEMPORARY" \in t.obj[o].flags THEN Then(find_eq_filename(t, o), Delete) ELSE t

close_fd(t, o) ==
  LET Delete(u) == IF u.ret # NULL THEN [u EXCEPT !.obj[u.ret].flags = @ \union {"TEMPORARY"}]
                   ELSE Remove(u, u.obj[o].filename)
  IN  IF "TEMPORARY" \in t.obj[o].flags THEN Then(find_eq_filename(t, o), Delete) ELSE t

\* __set_fd_properties; a NULL file is "".
set_fd_properties(t, fd, file, oflags) ==
  LET Enter(u) == insert_list([u EXCEPT !.props[fd] = u.ret, !.obj[u.ret].filename = file], "active", u.ret)
      Flag(u) == open_fd(u, u.props[fd], oflags)
  IN  Flag(IF t.props[fd] = NULL THEN Enter(alloc_fd_properties(t)) ELSE t)

\* Mutant: the new descriptor is not counted.
dup_fd_properties_NoCount(t, from, to) ==
  IF t.props[from] = NULL THEN t ELSE [t EXCEPT !.props[to] = t.props[from]]

dup_fd_properties(t, from, to) ==
  IF t.props[from] = NULL THEN t
  ELSE [t EXCEPT !.props[to] = t.props[from], !.obj[t.props[from]].ref_count = @ + 1]

clear_fd_properties(t, fd) ==
  LET o == t.props[fd]
      Free(u) == Forget([free_fd_properties([u EXCEPT !.obj[o].filename = ""], o) EXCEPT !.props[fd] = NULL])
      Drop(u) == IF u.obj[o].ref_count = 0 THEN Then(close_fd(u, o), Free) ELSE [u EXCEPT !.props[fd] = NULL]
  IN  IF o = NULL THEN Returns(t, -1) ELSE Drop([t EXCEPT !.obj[o].ref_count = @ - 1])

Has(t, fd, flag) == t.props[fd] # NULL /\ flag \in t.obj[t.props[fd]].flags
set_fd_flags(t, fd, flag) == [t EXCEPT !.obj[t.props[fd]].flags = @ \union {flag}]

-----------------------------------------------------------------------------
(* fsext.c and fse_zero.c. *)

set_function(t, fd, f) == [t EXCEPT !.func[fd] = f]
set_data(t, fd, d) == [t EXCEPT !.data[fd] = d]

\* __FSEXT_alloc_fd: NUL is opened once and duplicated for every descriptor.
FSEXT_alloc_fd(t, f) ==
  LET Opened(u) == [u EXCEPT !.nul = u.ret]
      Hook(u) == set_function(u, u.ret, f)
      Copy(u) == IF u.nul = -1 THEN Returns(u, -1) ELSE IfOk(DosDup(u, u.nul), Hook)
  IN  Copy(IF t.nul = -1 THEN Opened(DosOpen(t, "nul")) ELSE t)

\* The __FSEXT_open case of dev_fsext.
dev_open(t) ==
  LET Context(u, d) == [set_data(u, u.ret, d) EXCEPT !.dup_count[d] = 1]
      Attach(u) == Context(u, Min({x \in Data : \A fd \in Fds : t.data[fd] # x}))
  IN  IfOk(FSEXT_alloc_fd(t, TRUE), Attach)

\* _close after the extension has declined, and from the extension.
CloseHandle(t, fd) ==
  LET Clear(u) == Returns(IF u.props[fd] = NULL THEN u ELSE clear_fd_properties(u, fd), 0)
  IN  IF Open(t, fd) THEN Clear(DosClose(t, fd)) ELSE Returns(t, -1)

\* Mutant: the context is freed although another descriptor has it.
dev_close_FreesAtOnce(t, fd) ==
  [set_function(set_data(t, fd, NULL), fd, FALSE) EXCEPT !.dup_count[t.data[fd]] = 0]

\* Mutant: an extension that counts the descriptor down twice, itself and in _close.
dev_close_CountsTwice(t, fd) ==
  [set_function(set_data(t, fd, NULL), fd, FALSE) EXCEPT !.dup_count[t.data[fd]] = @ - 2]

\* The __FSEXT_close case up to its own call of _close.
dev_close(t, fd) ==
  [set_function(set_data(t, fd, NULL), fd, FALSE) EXCEPT !.dup_count[t.data[fd]] = @ - 1]

\* An extension that does not know the descriptor refuses, and _close gives up.
_close(t, fd) ==
  IF t.func[fd] /\ t.data[fd] = NULL THEN Returns(set_function(t, fd, FALSE), -1)
  ELSE CloseHandle(IF t.func[fd] THEN dev_close(t, fd) ELSE t, fd)

\* internal_dup, for fcntl(fd, F_DUPFD).
internal_dup(t, fd) ==
  LET Share(u) == [set_data(u, u.ret, t.data[fd]) EXCEPT !.dup_count[t.data[fd]] = @ + 1]
  IN  IfOk(FSEXT_alloc_fd(t, TRUE), Share)

-----------------------------------------------------------------------------
(* The calls. *)

dup(t, fd) ==
  LET Copy(u) == dup_fd_properties(set_function(u, u.ret, u.func[fd]), fd, u.ret)
  IN  IfOk(DosDup(t, fd), Copy)

\* Mutant: the properties of the file newfd was open on are kept.
dup2_KeepsProperties(t, fd, new, fails) ==
  LET Copy(u) == Returns(dup_fd_properties(set_function(u, new, u.func[fd]), fd, new), new)
  IN  IF ~Open(t, fd) THEN Returns(t, -1)
      ELSE IF fd = new THEN Returns(t, new)
      ELSE IF fails THEN Returns(set_function(t, new, FALSE), -1)
      ELSE Copy(DosForceDup(set_function(t, new, FALSE), fd, new))

\* Function 46h may fail after the extension of newfd has been reset.
dup2(t, fd, new, fails) ==
  LET Copy(u) == Returns(dup_fd_properties(set_function(u, new, u.func[fd]), fd, new), new)
      Clear(u) == Then(IF u.props[new] = NULL THEN u ELSE clear_fd_properties(u, new), Copy)
  IN  IF ~Open(t, fd) THEN Returns(t, -1)
      ELSE IF fd = new THEN Returns(t, new)
      ELSE IF fails THEN Returns(set_function(t, new, FALSE), -1)
      ELSE Clear(DosForceDup(set_function(t, new, FALSE), fd, new))

\* fcntl(fd, F_DUPFD, min); the extension has its own.
fcntl_DUPFD(t, fd, min, fails) ==
  LET Onto(free) == IF free = {} THEN Returns(t, -1) ELSE dup2(t, fd, Min(free), fails)
  IN  IF ~Open(t, fd) \/ (t.func[fd] /\ t.data[fd] = NULL) THEN Returns(t, -1)
      ELSE IF t.func[fd] THEN internal_dup(t, fd)
      ELSE Onto({n \in FreeHandles(t) : n >= min})

\* move_fd: duplicates until the descriptor is high enough.  up[k] is the state in which
\* the nested call k finds its descriptor in ret.  The calls return in the opposite order
\* and close the lower descriptors, or the ones that were made if a duplication failed.
move_fd(t, fd, min) ==
  LET up[k \in 0..NFds] ==
        IF k = 0 THEN Returns(t, fd)
        ELSE IF up[k - 1].ret \in 0..(min - 1) THEN dup(up[k - 1], up[k - 1].ret) ELSE up[k - 1]
      new == up[NFds].ret
      Kept(k) == up[k].ret = new \/ (new = -1 /\ k = 0)
      down[j \in 0..NFds] ==
        IF j = 0 THEN up[NFds]
        ELSE IF Kept(NFds - j) THEN down[j - 1] ELSE _close(down[j - 1], up[NFds - j].ret)
  IN  Returns(down[NFds], new)

opendir_as_fd(t, name) ==
  LET Mark(u, fd) == Returns(set_fd_flags(set_fd_properties(u, fd, name, {}), fd, "DIRECTORY"), fd)
      Moved(u, fd) == IF Failed(u) THEN Returns(_close(u, fd), -1) ELSE Mark(u, u.ret)
      Move(u) == Moved(move_fd(u, u.ret, DirMin), u.ret)
  IN  IfOk(FSEXT_alloc_fd(t, FALSE), Move)

\* open of a file that is there or created.
open_file(t, name, oflags) ==
  LET Enter(u, fd) == Returns(set_fd_properties(u, fd, name, oflags), fd)
      Exists(u) == [u EXCEPT !.disk = @ \union {name},
                             !.wish = IF "TEMPORARY" \in oflags THEN @ \union {name} ELSE @]
      Made(u) == Enter(Exists(u), u.ret)
      refused == IF name \in t.disk THEN "EXCL" \in oflags ELSE "CREAT" \notin oflags
  IN  IF refused THEN Returns(t, -1) ELSE IfOk(DosOpen(t, name), Made)

\* open: a device of the extension, a directory or a file.
open(t, name, oflags) ==
  LET Enter(u) == Returns(set_fd_properties(u, u.ret, name, oflags), u.ret)
  IN  CASE name = "zero" -> IfOk(dev_open(t), Enter)
        [] name = "dir" -> opendir_as_fd(t, name)
        [] OTHER -> open_file(t, name, oflags)

\* Two descriptors of one temporary file; tmpnam gives a name not in use.
pipe(t) ==
  LET Mark(u, out) == Returns(set_fd_flags(set_fd_flags(u, out, "PIPE"), u.ret, "PIPE"), 0)
      Both(u, out) == IF Failed(u) THEN Returns(_close(u, out), -1) ELSE Mark(u, out)
      Input(u) == Both(open_file(u, "tmp", {"TEMPORARY"}), u.ret)
  IN  IfOk(open_file(t, "tmp", {"CREAT", "TEMPORARY"}), Input)

\* llseek to a positive offset: a handle without properties is given an object without
\* a name.
llseek(t, fd) ==
  IF t.func[fd] \/ Has(t, fd, "DIRECTORY") \/ Has(t, fd, "PIPE") \/ ~Open(t, fd) \/ t.props[fd] # NULL THEN t
  ELSE set_fd_properties(t, fd, "", {})

\* _close for the descriptors that Which picks, in ascending order.
CloseAll(t, Which(_, _)) ==
  LET Visit(u, fd) == IF Runs(u) /\ Which(u, fd) THEN _close(u, fd) ELSE u
      at[k \in 0..NFds] == IF k = 0 THEN t ELSE Visit(at[k - 1], k - 1)
  IN  at[NFds]

\* Mutant: only the descriptors that are marked are closed.
exit_cleanup_MarkedOnly(t) == IF t.active = NULL THEN t ELSE CloseAll(t, LAMBDA u, fd : Has(u, fd, "TEMPORARY"))

\* exit_cleanup of fd_props.c and __FSEXT_close_all.
exit_cleanup(t) == IF t.active = NULL THEN t ELSE CloseAll(t, LAMBDA u, fd : u.props[fd] # NULL)
FSEXT_close_all(t) == CloseAll(t, LAMBDA u, fd : u.func[fd])

\* exit: both, and then DOS closes what is left.
exit(t) ==
  LET Dos(u) == Prune([u EXCEPT !.jft = [fd \in Fds |-> NULL], !.fate = "exited"])
  IN  Then(Then(exit_cleanup(t), FSEXT_close_all), Dos)

-----------------------------------------------------------------------------
Call(t) == Runs(s) /\ calls < MaxCalls /\ s' = Returns(t, 0) /\ calls' = calls + 1

Names == Files \union Special
OFlags == SUBSET {"CREAT", "EXCL", "TEMPORARY"}

\* A program does not use the descriptor the library keeps for itself.
Own == Fds \ {s.nul}

DoOpen == \E name \in Names : \E oflags \in OFlags :
            /\ (name \in Special => oflags = {}) /\ ("EXCL" \in oflags => "CREAT" \in oflags)
            /\ Call(open(s, name, oflags))
DoClose == \E fd \in Own : Call(_close(s, fd))
DoDup == \E fd \in Own : Call(dup(s, fd))
DoDup2 == \E fd, new \in Own : \E fails \in BOOLEAN : Call(dup2(s, fd, new, fails))
DoFcntl == \E fd, min \in Own : \E fails \in BOOLEAN : Call(fcntl_DUPFD(s, fd, min, fails))
DoPipe == "tmp" \notin s.disk /\ Call(pipe(s))
DoSeek == \E fd \in Own : Call(llseek(s, fd))
DoExit == Call(exit(s))

Next == DoOpen \/ DoClose \/ DoDup \/ DoDup2 \/ DoFcntl \/ DoPipe \/ DoSeek \/ DoExit

Spec == Init /\ [][Next]_vars

-----------------------------------------------------------------------------
Object == [ref_count : 0..NFds, filename : Names \union {"tmp", ""}, flags : SUBSET Flags,
           prev : Objs \union {NULL}, next : Objs \union {NULL}]

\* The type of the state.
TypeOK ==
  /\ s.jft \in [Fds -> 0..NFds] /\ s.disk \subseteq Disk /\ s.wish \subseteq Disk
  /\ s.props \in [Fds -> Objs \union {NULL}] /\ s.obj \in [Objs -> Object]
  /\ {s.active, s.cached} \subseteq Objs \union {NULL}
  /\ s.func \in [Fds -> BOOLEAN] /\ s.data \in [Fds -> Data \union {NULL}]
  /\ s.dup_count \in [Data -> Nat] /\ s.nul \in Fds \union {-1}
  /\ s.fate \in {"running", "fault", "hang", "exited"}

\* Whatever order descriptors are opened, duplicated, moved and closed in, the
\* properties of a descriptor are those of the file DOS has it open on, and two
\* descriptors share an object only when they share the open file.
PropertiesFollowHandles ==
  Runs(s) => \A fd \in Fds : s.props[fd] # NULL =>
    /\ Open(s, fd)
    /\ s.obj[s.props[fd]].filename \in {"", Named(s, fd)} \union (IF Named(s, fd) = "nul" THEN Special ELSE {})
    /\ \A other \in Fds : s.props[other] = s.props[fd] => s.jft[other] = s.jft[fd]

\* ref_count is the number of descriptors that share the object, so that the file
\* is finalised by the close of the last of them and by no other.
ReferencesAreCounted ==
  Runs(s) => \A o \in {s.props[fd] : fd \in Fds} \ {NULL} :
    s.obj[o].ref_count = Cardinality({fd \in Fds : s.props[fd] = o})

\* An object in the cache belongs to no descriptor: the next open may take it.
CachedAreIdle == Runs(s) => s.cached \notin {s.props[fd] : fd \in Fds} \ {NULL}

\* The handles of DOS, the properties and the cache agree after every call.
TablesAgree == TypeOK /\ PropertiesFollowHandles /\ ReferencesAreCounted /\ CachedAreIdle

\* While the program runs, a file opened with O_TEMPORARY, even by only one of several
\* descriptors, is gone when no descriptor of it is open any more.
TemporaryGoesAway ==
  Runs(s) => \A name \in s.wish : name \in s.disk => \E fd \in Fds : Open(s, fd) /\ Named(s, fd) = name

\* A program that exits with descriptors open leaves none of those files, in whatever order
\* exit_cleanup meets their descriptors.  This is about the exits at which exit_cleanup has
\* a list to look at; remove_list may have lost it (LeavesNoTemporary).
ExitRemovesTemporaries ==
  [][s'.fate = "exited" /\ s.active # NULL /\ DoExit => s'.wish \intersect s'.disk = {}]_vars

\* "Close all known file descriptors to ensure all files marked as temporary are deleted at
\* exit" (fd_props.c:224).  The code does not keep this: the active list may be empty
\* although descriptors are open, and then nothing is closed.
LeavesNoTemporary == s.fate = "exited" => s.wish \intersect s.disk = {}

\* The context of a zero device is not freed while a descriptor holds it, and only
\* handles of the null device are handed to the extension.
ContextsAreCounted ==
  \A fd \in Fds :
    /\ s.data[fd] # NULL => s.dup_count[s.data[fd]] >= Cardinality({x \in Fds : s.data[x] = s.data[fd]})
    /\ Runs(s) /\ s.func[fd] => Open(s, fd) /\ Named(s, fd) = "nul"

\* A temporary file is there while a descriptor refers to it.
TemporaryStaysWhileOpen ==
  \A fd \in Fds : Open(s, fd) /\ Named(s, fd) \in Disk => Named(s, fd) \in s.disk
=============================================================================

------------------------------- MODULE Stdio ---------------------------------
(***************************************************************************)
(* One stream of stdio on a disk file: the buffer protocol of _filbuf,     *)
(* _flsbuf, fflush, fseek, ftell, ungetc, rewind, fread, fwrite, fputs,    *)
(* setvbuf and fclose (ansi/stdio), and below it _read, _write with the    *)
(* filling of the gap after the end of the file, and llseek (dos/io,       *)
(* compat/unistd).  Handles are binary and not hooked by termios.          *)
(*                                                                         *)
(* The fields of the FILE are _flag, _base, _ptr, _cnt, _bufsiz and        *)
(* _fillsize; the buffer is the sequence of those of its bytes that are    *)
(* still of use.  An operator takes the stream and gives the stream the C  *)
(* function leaves behind, with its result in ret.                         *)
(***************************************************************************)
EXTENDS Integers, Sequences, FiniteSets, SequencesExt

CONSTANTS Fill,     \* 512: the first read of a buffer
          TbSize,   \* __tb_size, the size of a buffer from malloc
          VBufs,    \* sizes of buffers the program gives to setvbuf
          Modes,    \* of "r", "w", "a", "r+", "w+"
          FileLens, \* lengths a file may have before
          Bytes,    \* bytes the program writes; NL ends a line
          Lens,     \* lengths of fread, fwrite and fputs
          Capacity, \* bytes the disk holds
          MaxOff,   \* bound on the positions the program seeks to
          PartialLines, \* does it fwrite less than a line, first, to a line-buffered update stream?
          TurnsByFlush, \* does it read after fflush what it has never read before?
          TellsLines, \* does it call ftell on line-buffered streams?
          UngetsAtEof \* does it push a byte back after reading the end of the file?

ASSUME SizeAssumption == Fill \in Nat \ {0} /\ TbSize \in Nat \ {0} /\ VBufs \subseteq Nat \ {0} /\ Capacity \in Nat /\ MaxOff \in Nat
ASSUME ArgAssumption == Modes \subseteq {"r", "w", "a", "r+", "w+"} /\ Lens \subseteq Nat /\ {PartialLines, TurnsByFlush, TellsLines, UngetsAtEof} \subseteq BOOLEAN

NL == 2
JUNK == 9     \* what DOS leaves in a gap

VARIABLES
  f,     \* flag, base, ptr, cnt, bufsiz, fillsize; buf; and of the descriptor: disk,
         \* the bytes of the file, pos, the file pointer, gap,
         \* FILE_DESC_ZERO_FILL_EOF_GAP, append; ret: the result of the call; fails:
         \* what a call asks of the system and does not get, of Mishaps
  last   \* the last call of the program: op; arg and ret, as sequences; ok

vars == <<f, last>>

Has(g, flag) == flag \in g.flag
Set(g, flags) == [g EXCEPT !.flag = @ \union flags]
Clear(g, flags) == [g EXCEPT !.flag = @ \ flags]
Returns(g, r) == [g EXCEPT !.ret = r]
MinOf(a, b) == IF a < b THEN a ELSE b

\* The file bytes with data put at offset at, and filler in the gap before it, if any.
Put(bytes, at, data, filler) ==
  LET size == IF data = <<>> \/ at + Len(data) < Len(bytes) THEN Len(bytes) ELSE at + Len(data)
      Byte(i) == IF i > at /\ i <= at + Len(data) THEN data[i - at]
                 ELSE IF i <= Len(bytes) THEN bytes[i] ELSE filler
  IN  [i \in 1..size |-> Byte(i)]

-----------------------------------------------------------------------------
(* The descriptor. *)

\* lseek and llseek; From is what whence stands for.
From(g, whence) == CASE whence = "SET" -> 0 [] whence = "CUR" -> g.pos [] whence = "END" -> Len(g.disk)
lseek(g, offset, whence) ==
  LET Move(to) == [g EXCEPT !.pos = to, !.ret = to,
                            !.gap = IF offset > 0 THEN TRUE ELSE IF whence = "CUR" THEN @ ELSE FALSE]
  IN  IF g.fails = "llseek" \/ From(g, whence) + offset < 0 THEN Returns(g, -1) ELSE Move(From(g, whence) + offset)

\* The write function of DOS: what fits, and whatever the disk holds in a gap.
DosWrite(g, data) ==
  LET Wrote(n) == [g EXCEPT !.disk = Put(g.disk, g.pos, SubSeq(data, 1, n), JUNK), !.pos = @ + n,
                            !.ret = IF n = 0 /\ Len(data) > 0 THEN -1 ELSE n]
  IN  Wrote(MinOf(Len(data), IF g.pos > Capacity THEN 0 ELSE Capacity - g.pos))

\* Mutant: the gap is left to DOS.
write_fill_seek_gap_Never(g) == [g EXCEPT !.gap = FALSE]

\* _write_fill_seek_gap.
write_fill_seek_gap(g) ==
  LET end == Len(g.disk) IN
  IF ~g.gap THEN g
  ELSE IF g.pos <= end THEN [g EXCEPT !.gap = FALSE]
  ELSE DosWrite([g EXCEPT !.gap = FALSE, !.pos = end], [i \in 1..(g.pos - end) |-> 0])

\* _write.
_write(g, data) ==
  LET Rest(h) == IF h.ret = -1 THEN h ELSE DosWrite(h, data)
  IN  Rest(write_fill_seek_gap(Returns(g, 0)))

\* The loops of _flsbuf and fflush: again until all is written, or an error.  A failing
\* llseek is not one the indicator shows.
RECURSIVE WriteAll(_, _, _)
WriteAll(g, data, append) ==
  LET Rest(h) == IF h.ret <= 0 THEN Returns(Set(h, {"ERR"}), -1)
                 ELSE WriteAll(h, SubSeq(data, h.ret + 1, Len(data)), append)
      Try(h) == IF h.ret = -1 THEN h ELSE Rest(_write(h, data))
  IN  IF data = <<>> THEN Returns(g, 0)
      ELSE Try(IF append THEN lseek(g, 0, "END") ELSE Returns(g, 0))

-----------------------------------------------------------------------------
(* The buffer. *)

\* The size of the next read: doubled each time, and evened out to the clusters.
Amount(g) ==
  IF Has(g, "NBF") THEN 1
  ELSE IF MinOf(g.fillsize, g.bufsiz) = 2 * Fill /\ g.bufsiz >= 3 * Fill THEN 3 * Fill
  ELSE MinOf(g.fillsize, g.bufsiz)

Grown(g) == LET size == MinOf(g.fillsize, g.bufsiz) IN IF size < g.bufsiz THEN 2 * size ELSE size

\* No memory for a buffer: the stream is unbuffered from now on.
Unbuffered(g) == Set(Clear(g, {"LBF"}), {"NBF"})

\* _filbuf.  An unbuffered stream reads into a variable of the function.
_filbuf(g) ==
  LET Alloc(h) == IF h.base \/ Has(h, "NBF") THEN h
                  ELSE IF h.fails = "malloc" THEN Unbuffered(h)
                  ELSE [h EXCEPT !.base = TRUE, !.bufsiz = TbSize, !.fillsize = Fill]
      Eof(h) == Clear(Set(h, {"EOF"}), IF Has(h, "RW") THEN {"READ"} ELSE {})
      Got(h, data) ==
        LET k == [h EXCEPT !.pos = @ + Len(data), !.fillsize = Grown(h), !.buf = IF Has(h, "NBF") THEN <<>> ELSE data,
                           !.ptr = 0, !.cnt = 0]
        IN  IF h.fails = "read" THEN Returns(Set(k, {"ERR"}), <<>>)
            ELSE IF data = <<>> THEN Returns(Eof(k), <<>>)
            ELSE [k EXCEPT !.ptr = IF Has(h, "NBF") THEN 0 ELSE 1, !.cnt = Len(data) - 1, !.ret = <<data[1]>>]
      Fetch(h) == Got(h, IF h.fails = "read" THEN <<>> ELSE SubSeq(h.disk, h.pos + 1, MinOf(h.pos + Amount(h), Len(h.disk))))
      Try(h) == IF ~Has(h, "READ") THEN Returns(Set(h, {"ERR"}), <<>>)
                ELSE IF Has(h, "EOF") THEN Returns(h, <<>>)
                ELSE Fetch(Alloc(Clear(h, {"UNGETC"})))
  IN  Try(IF Has(g, "RW") THEN Set(g, {"READ"}) ELSE g)

\* Mutant: the byte just stored is not counted.
FirstByte_Uncounted(g, c) == IF g.ret = -1 THEN g ELSE [g EXCEPT !.ptr = 1, !.buf = <<c>>]

\* What _flsbuf leaves in the buffer it has emptied.
FirstByte(g, c) == IF g.ret = -1 THEN g ELSE [g EXCEPT !.cnt = @ - 1, !.ptr = 1, !.buf = <<c>>]

\* _flsbuf.
_flsbuf(g, c) ==
  LET Alloc(h) == IF h.base \/ Has(h, "NBF") THEN h
                  ELSE IF h.fails = "malloc" THEN Unbuffered(h)
                  ELSE [h EXCEPT !.base = TRUE, !.bufsiz = TbSize, !.cnt = TbSize, !.ptr = 0, !.buf = <<>>]
      Line(h) == IF c = NL \/ h.ptr >= h.bufsiz THEN WriteAll([h EXCEPT !.ptr = 0, !.cnt = 0, !.buf = <<>>], h.buf, h.append)
                 ELSE [h EXCEPT !.cnt = -h.ptr, !.ret = 0]
      Output(h) ==
        CASE Has(h, "LBF") -> Line([h EXCEPT !.buf = SubSeq(@, 1, h.ptr) \o <<c>>, !.ptr = @ + 1])
          [] Has(h, "NBF") -> WriteAll([h EXCEPT !.cnt = 0], <<c>>, h.append)
          [] OTHER -> FirstByte(WriteAll([h EXCEPT !.ptr = 0, !.cnt = h.bufsiz, !.buf = <<>>], SubSeq(h.buf, 1, h.ptr), h.append), c)
      Try(h) == IF Has(h, "WRT") THEN Output(Alloc(h)) ELSE Returns(Set(h, {"ERR"}), -1)
  IN  Try(IF Has(g, "RW") THEN Clear(Set(g, {"WRT"}), {"EOF", "READ"}) ELSE g)

\* __getc_raw and __putc_raw.
getc(g) ==
  IF g.cnt > 0 THEN [g EXCEPT !.cnt = @ - 1, !.ptr = @ + 1, !.ret = <<g.buf[g.ptr + 1]>>] ELSE _filbuf(g)
Stored(g, data) == [g EXCEPT !.cnt = @ - Len(data), !.ptr = @ + Len(data), !.buf = SubSeq(@, 1, g.ptr) \o data, !.ret = 0]
putc(g, c) == IF g.cnt > 0 THEN Stored(g, <<c>>) ELSE _flsbuf(g, c)

\* Mutant: a line is left for its end to write.
Unwritten_NotLines(g) == Has(g, "WRT") /\ {"NBF", "LBF"} \intersect g.flag = {} /\ g.base /\ g.ptr > 0

\* There is output in the buffer.
Unwritten(g) == Has(g, "WRT") /\ ~Has(g, "NBF") /\ g.base /\ g.ptr > 0

fflush(g) ==
  LET Seeked == IF g.append THEN lseek(g, 0, "END") ELSE Returns(g, 0)
      Output(h) == IF Unwritten(h)
                   THEN WriteAll([h EXCEPT !.ptr = 0, !.cnt = IF Has(h, "LBF") THEN 0 ELSE h.bufsiz, !.buf = <<>>],
                                 SubSeq(h.buf, 1, h.ptr), FALSE)
                   ELSE Returns(h, 0)
      Reset(h) == IF h.ret # -1 /\ Has(h, "RW")
                  THEN [Clear(h, {"WRT", "READ"}) EXCEPT !.cnt = 0, !.ptr = 0, !.buf = <<>>] ELSE h
  IN  IF Seeked.ret = -1 THEN Seeked ELSE Reset(Output(Clear(Seeked, {"UNGETC"})))

-----------------------------------------------------------------------------
(* The calls. *)

\* ftell; the count of a line-buffered stream is reset on the way.
Position(g) ==
  g.pos + (IF Has(g, "READ") THEN -g.cnt ELSE IF Has(g, "WRT") /\ g.base /\ ~Has(g, "NBF") THEN g.ptr ELSE 0)
Settled(g) == [g EXCEPT !.cnt = IF @ < 0 THEN 0 ELSE @]
ftell(g) == Returns(Settled(g), Position(Settled(g)))

\* Mutants: the end of the file is remembered; a target before the buffer is near.
SeekStart_KeepsEof(g) == [g EXCEPT !.fillsize = Fill]
Near_Before(g, p, to) == ~Has(g, "UNGETC") /\ ~Has(g, "RW") /\ to - p <= g.cnt

\* The target is in the buffer, and the buffer holds what was read.
SeekStart(g) == [Clear(g, {"EOF"}) EXCEPT !.fillsize = Fill]
Near(g, p, to) == ~Has(g, "UNGETC") /\ ~Has(g, "RW") /\ p - to <= g.ptr /\ to - p <= g.cnt

\* fseek.
fseek(g, offset, whence) ==
  LET Buffered(h) == h.base /\ ~Has(h, "NBF")
      Far(h, to, w) == [lseek(Clear(h, {"UNGETC"} \union (IF Has(h, "RW") THEN {"READ"} ELSE {})), to, w)
                          EXCEPT !.cnt = 0, !.ptr = 0, !.buf = <<>>]
      Within(h, p, to) == IF Near(h, p, to) THEN [h EXCEPT !.ptr = @ + to - p, !.cnt = @ + p - to, !.ret = 0]
                          ELSE Far(h, to, "SET")
      Reading(h) == IF Buffered(h) /\ whence # "END"
                    THEN Within(Settled(h), Position(h), IF whence = "CUR" THEN offset + Position(h) ELSE offset)
                    ELSE Far(h, offset, whence)
      Writing(h, r) == [lseek(h, offset, whence) EXCEPT !.ret = IF r = -1 THEN -1 ELSE @]
      Flushed(h) == Writing(h, h.ret)
      Go(h) == IF Has(h, "READ") THEN Reading(h) ELSE Flushed(fflush(h))
  IN  Go(SeekStart(g))

ungetc(g, c) ==
  LET Back(h) == IF h.buf # <<>> /\ h.ptr < Len(h.buf) /\ h.buf[h.ptr + 1] = c THEN Returns(h, <<c>>)
                 ELSE Returns(Set([h EXCEPT !.buf = SubSeq(@, 1, h.ptr) \o <<c>> \o SubSeq(@, h.ptr + 2, Len(@))], {"UNGETC"}), <<c>>)
  IN  IF ~g.base \/ (g.ptr = 0 /\ g.cnt # 0) THEN Returns(g, <<>>)
      ELSE Back([g EXCEPT !.cnt = @ + 1, !.ptr = IF @ = 0 THEN 0 ELSE @ - 1])

rewind(g) ==
  LET Home(h) == [lseek(h, 0, "SET") EXCEPT !.fillsize = Fill, !.cnt = 0, !.ptr = 0, !.buf = <<>>, !.ret = 0]
      Ready(h) == Clear(h, {"ERR", "EOF"} \union (IF Has(h, "RW") THEN {"READ", "WRT"} ELSE {}))
  IN  Ready(Home(fflush(g)))

\* fread of n bytes: what is in the buffer, then a byte from _filbuf, and again.
RECURSIVE FreadLoop(_, _, _)
FreadLoop(g, n, got) ==
  LET Rest(h, more) == IF h.ret = <<>> THEN Returns(h, more) ELSE FreadLoop(h, n, more \o h.ret)
      want == n - Len(got)
  IN  IF g.cnt >= want THEN [g EXCEPT !.ptr = @ + want, !.cnt = @ - want, !.ret = got \o SubSeq(g.buf, g.ptr + 1, g.ptr + want)]
      ELSE Rest(_filbuf(g), got \o SubSeq(g.buf, g.ptr + 1, g.ptr + g.cnt))
RECURSIVE Doubled(_, _, _)
Doubled(size, n, bufsiz) == IF n > size /\ size < bufsiz THEN Doubled(2 * (IF size < Fill THEN Fill ELSE size), n, bufsiz) ELSE size
fread(g, n) == FreadLoop([g EXCEPT !.fillsize = Doubled(@, n, g.bufsiz)], n, <<>>)

\* fwrite: line-buffered streams count down to minus the size of the buffer.
RECURSIVE fwrite(_, _)
fwrite(g, data) ==
  LET Rest(h, k) == IF h.ret = -1 THEN h ELSE fwrite(h, SubSeq(data, k + 1, Len(data)))
      One(h) == IF h.cnt > -h.bufsiz /\ data[1] # NL
                THEN [h EXCEPT !.buf = SubSeq(@, 1, h.ptr) \o <<data[1]>>, !.ptr = @ + 1, !.ret = 0] ELSE _flsbuf(h, data[1])
      room == IF g.cnt > 0 THEN g.cnt ELSE 0
  IN  IF data = <<>> THEN Returns(g, 0)
      ELSE IF Has(g, "LBF") THEN Rest(One([g EXCEPT !.cnt = @ - 1]), 1)
      ELSE IF room >= Len(data) THEN Stored(g, data)
      ELSE Rest(_flsbuf(Stored(g, SubSeq(data, 1, room)), data[room + 1]), room + 1)

\* fputs: an unbuffered stream has a buffer on the stack meanwhile.
RECURSIVE PutAll(_, _)
PutAll(g, data) ==
  LET Rest(h) == IF h.ret = -1 THEN h ELSE PutAll(h, Tail(data))
  IN  IF data = <<>> THEN Returns(g, 0) ELSE Rest(putc(g, data[1]))
fputs(g, data) ==
  LET Unbuffer(h, r) == [Set(h, {"NBF"}) EXCEPT !.base = FALSE, !.bufsiz = 0, !.cnt = 0, !.ptr = 0, !.buf = <<>>, !.ret = IF -1 \in {r, @} THEN -1 ELSE 0]
      Flushed(h) == Unbuffer(fflush(h), h.ret)
  IN  IF Has(g, "NBF") THEN Flushed(PutAll([Clear(g, {"NBF"}) EXCEPT !.base = TRUE, !.ptr = 0, !.buf = <<>>, !.bufsiz = TbSize], data))
      ELSE PutAll(g, data)

\* fopen in binary mode, with setvbuf before the first use: type "" leaves it out.
setvbuf(g, type, len) ==
  CASE type = "" -> g
    [] type = "NBF" -> Set(g, {"NBF"})
    [] OTHER -> [Set(g, IF type = "LBF" THEN {"LBF"} ELSE {}) EXCEPT !.base = TRUE, !.bufsiz = len, !.fillsize = len]
fopen(mode, disk, fillsize) ==
  LET bytes == IF mode \in {"w", "w+"} THEN <<>> ELSE disk IN
  [flag |-> {CASE mode \in {"r+", "w+"} -> "RW" [] mode = "r" -> "READ" [] OTHER -> "WRT"},
   base |-> FALSE, ptr |-> 0, cnt |-> 0, bufsiz |-> 0, fillsize |-> fillsize, buf |-> <<>>,
   disk |-> bytes, pos |-> IF mode = "a" THEN Len(bytes) ELSE 0, gap |-> FALSE, append |-> mode = "a", ret |-> 0, fails |-> "none"]

\* fclose: no flag is left.
fclose(g) == [fflush(g) EXCEPT !.flag = {}, !.base = FALSE, !.ptr = 0, !.cnt = 0, !.bufsiz = 0, !.buf = <<>>]

-----------------------------------------------------------------------------
\* The slot of a closed stream is used again with whatever _fillsize it had.
Init ==
  /\ \E mode \in Modes : \E n \in FileLens : \E type \in {"", "NBF", "FBF", "LBF"} : \E len \in VBufs : \E size \in {0, Fill} :
       f = setvbuf(fopen(mode, [i \in 1..n |-> 10 + i], size), type, len)
  /\ last = [op |-> "open", arg |-> <<>>, ret |-> <<>>, ok |-> TRUE]

Opened == f.flag # {}
Did(op, arg, ret, ok, g) ==
  f' = [g EXCEPT !.ret = 0, !.fails = "none"] /\ last' = [op |-> op, arg |-> arg, ret |-> ret, ok |-> ok]
Gives(op, arg, g) == Did(op, arg, g.ret, TRUE, g)
Does(op, arg, g) == Did(op, arg, arg, g.ret # -1, g)

\* The direction of a stream changes only through fflush, fseek or rewind, or for
\* writing after the end of the file was read.
MayRead == Opened /\ ~Has(f, "WRT") /\ (TurnsByFlush \/ ~f.base \/ f.fillsize > 0)
MayWrite == Opened /\ ~Has(f, "READ")
\* fwrite tells an update stream that it is written to only when it calls _flsbuf.
MayFwrite(data) ==
  MayWrite /\ (PartialLines \/ {"RW", "LBF"} \ f.flag # {} \/ Has(f, "WRT") \/ NL \in ToSet(data) \/ Len(data) >= f.bufsiz)
\* What may fail during a call, as far as the stream asks for it: malloc of a buffer,
\* _read, and the llseek to the end of an append stream.
Mishaps ==
  {"none"} \union (IF f.base \/ Has(f, "NBF") THEN {} ELSE {"malloc"})
           \union (IF Has(f, "RW") \/ Has(f, "READ") THEN {"read"} ELSE {}) \union (IF f.append THEN {"llseek"} ELSE {})
Meeting(x) == [f EXCEPT !.fails = x]
\* Blocks of n bytes: one byte again and again, but for a line end somewhere or nowhere.
Data(n) == {[i \in 1..n |-> IF i = k THEN NL ELSE b] : k \in 0..n, b \in Bytes \ {NL}}

\* The file when what is in the buffer will have been written.
Content == IF Has(f, "WRT") /\ f.base THEN Put(f.disk, IF f.append THEN Len(f.disk) ELSE f.pos, SubSeq(f.buf, 1, f.ptr), 0)
           ELSE f.disk

DoGetc == MayRead /\ \E x \in Mishaps : Gives("read", <<1>>, getc(Meeting(x)))
DoFread == MayRead /\ \E x \in Mishaps : \E n \in Lens : Gives("read", <<n>>, fread(Meeting(x), n))
DoPutc == MayWrite /\ \E x \in Mishaps \ {"read"} : \E c \in Bytes : Does("write", <<c>>, putc(Meeting(x), c))
DoFwrite == \E x \in Mishaps \ {"read"} : \E n \in Lens : \E data \in Data(n) :
              MayFwrite(data) /\ Does("write", data, fwrite(Meeting(x), data))
DoFputs == MayWrite /\ \E x \in Mishaps \ {"read"} : \E n \in Lens : \E data \in Data(n) : Does("write", data, fputs(Meeting(x), data))

\* A byte is pushed back after one has been read.
DoUngetc == /\ last.op = "read" /\ last.ret # <<>> /\ Has(f, "READ") /\ (UngetsAtEof \/ ~Has(f, "EOF"))
            /\ \E c \in Bytes : Gives("unget", <<c>>, ungetc(f, c))

DoFseek == \E to \in 0..MaxOff : \E whence \in {"SET", "CUR", "END"} :
             LET origin == CASE whence = "SET" -> 0 [] whence = "CUR" -> Position(f)
                             [] OTHER -> Len(Content)
             IN  Opened /\ ~f.append /\ Does("seek", <<to>>, fseek(f, to - origin, whence))
\* rewind has no result, and clears the indicator that its fflush may have set.
DoRewind == Opened /\ ~f.append /\ Did("seek", <<0>>, <<0>>, fflush(f).ret # -1, rewind(f))
DoFtell == Opened /\ (TellsLines \/ ~Has(f, "LBF")) /\ Gives("tell", <<>>, [ftell(f) EXCEPT !.ret = <<@>>])
DoFflush == MayWrite /\ \E x \in Mishaps \ {"read", "malloc"} : Does("flush", <<>>, fflush(Meeting(x)))
DoFclose == Opened /\ \E x \in Mishaps \ {"read", "malloc"} : Does("close", <<>>, fclose(Meeting(x)))

Next == DoGetc \/ DoFread \/ DoPutc \/ DoFwrite \/ DoFputs \/ DoUngetc \/ DoFflush \/ DoFseek
        \/ DoRewind \/ DoFtell \/ DoFclose

Spec == Init /\ [][Next]_vars

-----------------------------------------------------------------------------
FlagNames == {"READ", "WRT", "RW", "EOF", "ERR", "NBF", "LBF", "UNGETC"}

\* The type of the state.
TypeOK ==
  /\ f.flag \subseteq FlagNames /\ f.base \in BOOLEAN /\ f.gap \in BOOLEAN /\ f.append \in BOOLEAN /\ f.fails = "none"
  /\ f.ptr \in Nat /\ f.cnt \in Int /\ f.bufsiz \in Nat /\ f.fillsize \in Nat /\ f.pos \in Nat
  /\ f.buf \in Seq(Nat) /\ f.disk \in Seq(Nat)

\* _ptr stays in the buffer and _cnt never promises more than is left of it: the
\* macros of getc and putc check _cnt and nothing else.
StaysInBuffer ==
  f.base => /\ f.ptr <= f.bufsiz
            /\ Has(f, "LBF") \/ f.ptr + f.cnt <= f.bufsiz
            /\ Has(f, "READ") => f.ptr + f.cnt = Len(f.buf)

\* The fields of the FILE and of the descriptor, together.
BufferOK == TypeOK /\ StaysInBuffer

\* What the program sees of a stream.
Pushed == IF Has(f, "READ") /\ f.cnt > 0 /\ f.buf[f.ptr + 1] # f.disk[Position(f) + 1] THEN <<f.buf[f.ptr + 1]>> ELSE <<>>
S == INSTANCE Stream WITH
       content <- Content,
       pos <- IF Opened THEN Position(f) ELSE 0, pushed <- Pushed, append <- f.append,
       err <- Has(f, "ERR")

\* Whatever mix of calls the program makes, each reads, writes and reports what it
\* would without a buffer, and what was written is in the file when it is flushed (fflush.txh:13:
\* "any unwritten buffered data", "useful in cases where the output is line buffered and you
\* want to write a partial line") or closed.  With PartialLines the code does not keep this: fwrite
\* stores into an update stream without setting _IOWRT (fwrite.c:39) and fflush drops the bytes.
ActsLikeAStream == S!Spec
=============================================================================

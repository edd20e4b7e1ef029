------------------------------- MODULE Stream --------------------------------
(***************************************************************************)
(* What a stream of stdio promises a program: a sequence of bytes, a       *)
(* position and at most one byte pushed back.  Buffering is not seen here: *)
(* a byte written can be read, and is in the file when the stream has been *)
(* closed.  Nothing is promised about a step that reports an error, nor    *)
(* while the error indicator is set.                                       *)
(***************************************************************************)
EXTENDS Integers, Sequences

VARIABLES content,  \* the bytes of the file as the stream shows them
          pos,      \* the position
          pushed,   \* <<c>> when c was pushed back over another byte, else <<>>
          append,   \* the stream was opened with "a"
          last,     \* the last call: op, arg, ret and whether it succeeded
          err       \* the error indicator

vars == <<content, pos, pushed, append, last, err>>

MinOf(a, b) == IF a < b THEN a ELSE b

\* bytes put over content at offset at, with zeros where neither has a byte.
Overlay(bytes, at, over) ==
  [i \in 1..(IF Len(over) = 0 \/ at + Len(over) < Len(bytes) THEN Len(bytes) ELSE at + Len(over)) |->
     IF i > at /\ i <= at + Len(over) THEN over[i - at]
     ELSE IF i <= Len(bytes) THEN bytes[i] ELSE 0]

Seen == IF pushed = <<>> THEN content ELSE [content EXCEPT ![pos + 1] = pushed[1]]

Read ==
  LET got == SubSeq(Seen, pos + 1, MinOf(pos + last'.arg[1], Len(content))) IN
  /\ last'.op = "read" /\ last'.ret = got
  /\ pos' = pos + Len(got) /\ pushed' = (IF got = <<>> THEN pushed ELSE <<>>)
  /\ UNCHANGED <<content, append, err>>

Write ==
  LET at == IF append THEN Len(content) ELSE pos IN
  /\ last'.op = "write"
  /\ content' = Overlay(content, at, last'.arg) /\ pos' = at + Len(last'.arg) /\ pushed' = <<>>
  /\ UNCHANGED <<append, err>>

\* Refused, or the position is stepped back over the byte.
Unget ==
  /\ last'.op = "unget"
  /\ \/ last'.ret = <<>> /\ UNCHANGED <<pos, pushed>>
     \/ /\ pos > 0 /\ last'.ret = last'.arg /\ pos' = pos - 1
        /\ pushed' = IF content[pos] = last'.arg[1] THEN <<>> ELSE last'.arg
  /\ UNCHANGED <<content, append, err>>

Seek ==
  /\ last'.op = "seek" /\ pos' = last'.arg[1] /\ pushed' = <<>>
  /\ UNCHANGED <<content, append, err>>

Tell == last'.op = "tell" /\ last'.ret = <<pos>> /\ UNCHANGED <<content, pos, pushed, append, err>>

Flush == last'.op = "flush" /\ UNCHANGED <<content, pos, pushed, append, err>>

Close == last'.op = "close" /\ pos' = 0 /\ pushed' = <<>> /\ UNCHANGED <<content, append, err>>

Fail == err \/ err' \/ ~last'.ok

Init == pos \in Nat /\ pushed = <<>> /\ last.op = "open" /\ err = FALSE
Next == Read \/ Write \/ Unget \/ Seek \/ Tell \/ Flush \/ Close \/ Fail
Spec == Init /\ [][Next]_vars
=============================================================================

------------------------------- MODULE FakeExc -------------------------------
(***************************************************************************)
(* What the exception machinery promises, without descriptors, segment     *)
(* limits, frames or pointers: one request at a time is held until it is   *)
(* taken, exactly once, before anything else; exceptions nest; only a fake *)
(* one is ever resumed, and a real one is left by a jump to a place the    *)
(* program has marked, or never.                                           *)
(***************************************************************************)
EXTENDS Naturals, Sequences

CONSTANTS Fakes,   \* numbers of fake exceptions
          Reals    \* numbers of processor exceptions

VARIABLES pending, \* the request held, or 0
          active,  \* the exceptions being handled, innermost last
          marks,   \* where the program may jump to: how many were active there
          over     \* the program has ended

vars == <<pending, active, marks, over>>

Init == pending = 0 /\ active = <<>> /\ marks = {} /\ over = FALSE

\* An interrupt is accepted when no request is held.
Accept(n) == pending = 0 /\ pending' = n /\ UNCHANGED <<active, marks, over>>

\* The request is taken; it comes before any exception of the program's own.
Take ==
  /\ pending # 0
  /\ active' = Append(active, pending) /\ pending' = 0
  /\ UNCHANGED <<marks, over>>

Fault(n) ==
  /\ pending = 0
  /\ active' = Append(active, n)
  /\ UNCHANGED <<pending, marks, over>>

\* The innermost exception is over and the interrupted code goes on.
Resume ==
  /\ active # <<>> /\ active[Len(active)] \in Fakes
  /\ Len(active) \notin marks
  /\ active' = SubSeq(active, 1, Len(active) - 1)
  /\ UNCHANGED <<pending, marks, over>>

\* The program marks the place where it is, or gives up the one it had marked.
Mark == marks' \in {{}, {Len(active)}} /\ UNCHANGED <<pending, active, over>>

\* The program jumps to a mark, out of the handlers entered since.
Jump ==
  \E k \in marks : active' = SubSeq(active, 1, k) /\ UNCHANGED <<pending, marks, over>>

End == over' = TRUE /\ UNCHANGED <<pending, active, marks>>

Next ==
  /\ ~ over
  /\ \/ \E n \in Fakes : Accept(n)
     \/ Take
     \/ \E n \in Reals : Fault(n)
     \/ Resume
     \/ Mark
     \/ Jump
     \/ End

Spec == Init /\ [][Next]_vars
=============================================================================

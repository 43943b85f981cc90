------------------------------ MODULE KraioLib ------------------------------
(***************************************************************************)
(* The interface of libkraio, as kraio.h declares it and the patches use   *)
(* it.  The library itself is a binary.  The declarations matter where C   *)
(* converts between them and their use: write_async() returns a size_t,    *)
(* which one caller keeps in an int and another compares as it is.         *)
(* The patches were written against an older header: they submit without   *)
(* the three parameters para1..para3 and find the client by the descriptor *)
(* that the callback is given.                                             *)
(***************************************************************************)
EXTENDS Integers

CONSTANT SizeMax         \* the largest size_t

ASSUME SizeMaxAssumption == SizeMax \in Nat /\ SizeMax >= 3

\* The functions a program may register: register_write_callback(),
\* register_writev_callback() and register_logfunc().
Registrable == {"write", "writev", "log"}

\* write_async(fd, buf, count) or writev_async() accepts: an operation for count units
\* from address buf.
Operation(call, fd, buf, count) ==
  [call |-> call, fd |-> fd, buf |-> buf, count |-> count, st |-> "flight", ret |-> 0,
   err |-> "none"]

\* The ret that write_callback_t will be given, with the errno that goes with -1.
Reported(op, n, e) == [op EXCEPT !.st = "done", !.ret = n, !.err = e]

\* The library tells of op by the function registered for its call, if there is one.
CallsBack(op, registered) == op.st = "done" /\ op.call \in registered

\* What the library may answer to a submission: accepted, or not.
Results == {1, 0, -1}

\* The answer as the size_t that write_async() is declared to return.
SizeT(n) == n % (SizeMax + 1)

\* int ret = write_async(...).
IntOf(s) == IF s > SizeMax \div 2 THEN s - (SizeMax + 1) ELSE s

\* The size_t compared as it is, as the 6.0 patch does (and, for KraioReplica, a variant):
\* is the answer taken for an acceptance?
TakenUnsigned(n) == SizeT(n) > 0

\* Does a caller that keeps the answer in an int take it for an acceptance?
Taken(n) == IntOf(SizeT(n)) > 0
=============================================================================

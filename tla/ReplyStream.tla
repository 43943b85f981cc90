---------------------------- MODULE ReplyStream ----------------------------
(***************************************************************************)
(* What a Redis connection promises its peer, whatever the write path: the *)
(* reply units the server produces reach the socket once each and in the   *)
(* order of production; a connection that is closed after its reply        *)
(* (CLIENT_CLOSE_AFTER_REPLY) is closed only when nothing is left to send; *)
(* only an aborted connection (write error, CLIENT KILL, lost peer) may    *)
(* drop units.                                                             *)
(***************************************************************************)
EXTENDS Naturals, Sequences, SequencesExt

CONSTANT Unit       \* the reply units; what they contain is irrelevant

VARIABLES
  pending,          \* produced, not yet handed to the socket
  delivered,        \* handed to the socket, in order
  state             \* "open", "last" (no more replies), "done", "aborted"

rsvars == <<pending, delivered, state>>

Init ==
  /\ pending = <<>>
  /\ delivered = <<>>
  /\ state = "open"

\* A command, or several read at once, add replies.
Produce ==
  /\ state = "open"
  /\ IsStrictPrefix(pending, pending')
  /\ \A i \in (Len(pending) + 1)..Len(pending') : pending'[i] \in Unit
  /\ state' \in {"open", "last"}
  /\ UNCHANGED delivered

\* The socket takes any non-empty prefix of what is pending.
Deliver ==
  /\ \E n \in 1..Len(pending) :
       /\ delivered' = delivered \o SubSeq(pending, 1, n)
       /\ pending' = SubSeq(pending, n + 1, Len(pending))
  /\ UNCHANGED state

\* The socket takes a prefix and, within the same step, the connection ends.
DeliverAndClose ==
  /\ \E n \in 0..Len(pending) :
       /\ delivered' = delivered \o SubSeq(pending, 1, n)
       /\ pending' = SubSeq(pending, n + 1, Len(pending))
  /\ \/ state = "last" /\ pending' = <<>> /\ state' = "done"
     \/ state \in {"open", "last"} /\ state' = "aborted"

Discard ==
  /\ state = "aborted"
  /\ pending' = <<>>
  /\ UNCHANGED <<delivered, state>>

\* The descriptor serves another connection.
Reopen ==
  /\ state \in {"done", "aborted"} /\ pending = <<>>
  /\ state' = "open" /\ delivered' = <<>>
  /\ UNCHANGED pending

Next == Produce \/ Deliver \/ DeliverAndClose \/ Discard \/ Reopen

Spec == Init /\ [][Next]_rsvars
=============================================================================

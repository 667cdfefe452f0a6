----------------------------- MODULE EventQueue -----------------------------
(***************************************************************************)
(* What the event message queue of handystats promises its users: the      *)
(* measuring points of any number of threads push event messages, one      *)
(* thread at a time takes them out in the order in which they were pushed, *)
(* and frees each of them exactly once.                                    *)
(*                                                                         *)
(* A message is identified with its heap address, so the same element of   *)
(* Messages may be pushed again once it has been freed.                    *)
(***************************************************************************)
EXTENDS Naturals, Sequences

CONSTANTS Messages,     \* heap addresses of event messages
          nullptr       \* "no message"

VARIABLES q,            \* the messages pushed and not yet taken, oldest first
          taken         \* the message the consumer holds, or nullptr

vars == <<q, taken>>

\* The messages waiting in the queue.
Queued == {q[i] : i \in 1 .. Len(q)}

Init == q = <<>> /\ taken = nullptr

\* A producer hands over a message it owns.
Push(n) ==
    /\ n \notin Queued
    /\ n # taken
    /\ q' = Append(q, n)
    /\ UNCHANGED taken

\* The consumer takes the oldest message.
Pop ==
    /\ taken = nullptr
    /\ q # <<>>
    /\ taken' = Head(q)
    /\ q' = Tail(q)

\* The consumer has processed the message and frees it.
Release ==
    /\ taken # nullptr
    /\ taken' = nullptr
    /\ UNCHANGED q

Next == (\E n \in Messages : Push(n)) \/ Pop \/ Release

Spec == Init /\ [][Next]_vars

\* Every message that stays at the front is eventually taken, and freed.
FairSpec == Spec /\ WF_vars(Pop) /\ WF_vars(Release)
=============================================================================

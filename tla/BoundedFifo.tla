---- MODULE BoundedFifo ----
(***************************************************************************)
(* What a bhapi port promises: a bounded queue whose messages come out once  *)
(* each, in the order they went in.  A shut queue takes no more messages but *)
(* still gives out those it has.                                             *)
(***************************************************************************)
EXTENDS Naturals, Sequences

CONSTANTS Messages, Capacity,
          NoMessage     \* what has come out at first

VARIABLES queue, shut,
          got       \* the message that came out last

vars == <<queue, shut, got>>

Init ==
    /\ queue = <<>>
    /\ shut = FALSE
    /\ got = NoMessage

Put(m) == /\ ~shut
          /\ Len(queue) < Capacity
          /\ queue' = Append(queue, m)
          /\ UNCHANGED <<shut, got>>

Get == /\ queue # <<>>
       /\ got' = Head(queue)
       /\ queue' = Tail(queue)
       /\ UNCHANGED shut

Look == /\ queue # <<>>
        /\ got' = Head(queue)
        /\ UNCHANGED <<queue, shut>>

Shut == /\ ~shut
        /\ shut' = TRUE
        /\ UNCHANGED <<queue, got>>

Next == \/ \E m \in Messages : Put(m)
        \/ Get \/ Look
        \/ Shut

Spec == Init /\ [][Next]_vars
====

---------------------------- MODULE BoundedQueue ----------------------------
(***************************************************************************)
(* What a queue promises: a bounded sequence to whose ends items are added *)
(* whole and from whose head each item is handed to one reader.            *)
(***************************************************************************)
EXTENDS Naturals, Sequences

CONSTANT Values

VARIABLES
  uxLength,   \* the bound, fixed when the queue is created
  items,      \* the messages, in the order they will be received
  pvBuffer    \* the message handed to a reader last

qvars == <<uxLength, items, pvBuffer>>

Init ==
  /\ uxLength \in Nat \ {0}
  /\ items = <<>>
  /\ pvBuffer \in Values

SendToBack(v) ==
  /\ Len(items) < uxLength
  /\ items' = Append(items, v)
  /\ UNCHANGED <<uxLength, pvBuffer>>

SendToFront(v) ==
  /\ Len(items) < uxLength
  /\ items' = <<v>> \o items
  /\ UNCHANGED <<uxLength, pvBuffer>>

\* Only for queues of length 1.
Overwrite(v) ==
  /\ uxLength = 1
  /\ items' = <<v>>
  /\ UNCHANGED <<uxLength, pvBuffer>>

Receive ==
  /\ items # <<>>
  /\ pvBuffer' = Head(items)
  /\ items' = Tail(items)
  /\ UNCHANGED uxLength

Peek ==
  /\ items # <<>>
  /\ pvBuffer' = Head(items)
  /\ UNCHANGED <<uxLength, items>>

Next ==
  \/ \E v \in Values : SendToBack(v) \/ SendToFront(v) \/ Overwrite(v)
  \/ Receive \/ Peek

Spec == Init /\ [][Next]_qvars
=============================================================================

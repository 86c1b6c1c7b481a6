-------------------------- MODULE OrderedDelivery ---------------------------
(***************************************************************************)
(* What the indexer promises, without batches, workers, handlers, caches   *)
(* and faults: events 1, 2, ... of several families are handled at least   *)
(* once, those of one family for the first time in chain order, and a mark *)
(* that a restart resumes from only ever covers handled events.  It may    *)
(* move back.                                                              *)
(***************************************************************************)
EXTENDS Integers, Sequences

VARIABLES
  family,   \* the family of each event
  handled,  \* events handled so far
  mark      \* the position a restart resumes from

vars == <<family, handled, mark>>

Init == mark = 0 /\ handled = {}

\* The first handling of e: the earlier events of its family are handled.
Handle(e) ==
  /\ \A f \in 1..(e - 1) : family[f] = family[e] => f \in handled
  /\ handled' = handled \cup {e}
  /\ UNCHANGED <<family, mark>>

Mark(n) ==
  /\ 1..n \subseteq handled
  /\ mark' = n
  /\ UNCHANGED <<family, handled>>

Next ==
  \/ \E e \in DOMAIN family : Handle(e)
  \/ \E n \in 0..Len(family) : Mark(n)

Spec == Init /\ [][Next]_vars
=============================================================================

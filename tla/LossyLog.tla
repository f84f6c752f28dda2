------------------------------ MODULE LossyLog ------------------------------
(***************************************************************************)
(* What the access log promises: a first-in first-out queue of lines, one  *)
(* line of slack beyond its bound, that loses a line only when it is full. *)
(***************************************************************************)
EXTENDS Naturals, Sequences

CONSTANTS Lines, BufferSize

VARIABLES
  queue,  \* lines accepted and not yet written
  log,    \* lines written
  lost    \* lines refused because the queue was full

vars == <<queue, log, lost>>

Init == queue = <<>> /\ log = <<>> /\ lost = <<>>

Accept(l) ==
  /\ Len(queue) <= BufferSize
  /\ queue' = Append(queue, l)
  /\ UNCHANGED <<log, lost>>

Lose(l) ==
  /\ Len(queue) >= BufferSize
  /\ lost' = Append(lost, l)
  /\ UNCHANGED <<queue, log>>

Write ==
  /\ queue # <<>>
  /\ log' = Append(log, Head(queue))
  /\ queue' = Tail(queue)
  /\ UNCHANGED lost

Next == Write \/ \E l \in Lines : Accept(l) \/ Lose(l)

Safety == Init /\ [][Next]_vars
Spec   == Safety /\ WF_vars(Write)
=============================================================================

------------------------------ MODULE ByteFifo ------------------------------
(***************************************************************************)
(* What a buffer between a device and a recorder promises: the bytes the    *)
(* device delivers, numbered 1, 2, 3, ..., come out in order, each at most  *)
(* once; the buffer may be emptied, which loses a run of bytes.  The        *)
(* promise is void (`broken`) once somebody empties the buffer under a      *)
(* reader's hands.                                                          *)
(***************************************************************************)
EXTENDS Naturals, Sequences

VARIABLES
  next,     \* number of the last byte taken from the device
  queue,    \* bytes in the buffer, oldest first
  buf,      \* bytes the current (or the last) call of Read returned so far
  broken    \* the promise no longer holds

vars == <<next, queue, buf, broken>>

\* The numbers a+1, ..., b in order.
Run(a, b) == [i \in 1 .. (b - a) |-> a + i]

Init ==
  /\ next = 0
  /\ queue = <<>>
  /\ buf = <<>>
  /\ broken = FALSE

\* The device delivered some bytes.
Put ==
  /\ next' > next
  /\ queue' = queue \o Run(next, next')
  /\ UNCHANGED buf

\* A reader begins to fill its memory anew.
Begin ==
  /\ buf' = <<>>
  /\ UNCHANGED <<next, queue>>

\* The first n bytes go to the reader.
Get ==
  \E n \in 1 .. Len(queue) :
    /\ buf' = buf \o SubSeq(queue, 1, n)
    /\ queue' = SubSeq(queue, n + 1, Len(queue))
    /\ UNCHANGED next

Clear ==
  /\ queue' = <<>>
  /\ UNCHANGED <<next, buf>>

Next ==
  \/ broken'
  \/ ~broken' /\ (Put \/ Begin \/ Get \/ Clear)

Spec == Init /\ [][Next]_vars
=============================================================================

------------------------------ MODULE Buffers -------------------------------
(***************************************************************************)
(* The two-slot buffers of pallet-acurast-compute.  A memory buffer holds  *)
(* a value and the one it replaced, with the times they became valid; a    *)
(* sliding buffer holds the values of two adjacent epochs; a provisional   *)
(* buffer holds a value and the one that replaces it from an epoch on.     *)
(* Time only goes forward, so a write into the past of a memory buffer     *)
(* does not occur.                                                         *)
(***************************************************************************)
EXTENDS Naturals

CONSTANT None

Entries(V) == [at : Nat, value : V]

MemoryBuffers(V) == [past : {None} \cup Entries(V), current : Entries(V)]

MemoryBuffer(t, v) == [past |-> None, current |-> [at |-> t, value |-> v]]

\* set, and mutate with the mutated value.
Remember(b, t, v) ==
    IF t = b.current.at THEN [b EXCEPT !.current.value = v]
    ELSE [past |-> b.current, current |-> [at |-> t, value |-> v]]

\* The value that was valid at t, None if it is forgotten.
get_latest(b, t) ==
    IF t >= b.current.at THEN b.current.value
    ELSE IF b.past # None /\ t >= b.past.at THEN b.past.value
    ELSE None

SlidingBuffer(v) == [epoch |-> 0, prev |-> v, cur |-> v]

\* set: writing the next epoch shifts the buffer, a later one clears it.
Slide(b, e, v, default) ==
    CASE e + 1 = b.epoch -> [b EXCEPT !.prev = v]
      [] e = b.epoch     -> [b EXCEPT !.cur = v]
      [] OTHER           -> [epoch |-> e, cur |-> v,
                             prev |-> IF e = b.epoch + 1 THEN b.cur ELSE default]

At(b, e, default) ==
    IF e + 1 = b.epoch THEN b.prev ELSE IF e = b.epoch THEN b.cur ELSE default

ProvisionalBuffer(v) == [current |-> v, next |-> None]

\* set fails if the value in between would have to be forgotten while it is
\* still needed.
CanProvide(b, current_epoch, e) ==
    current_epoch < e /\ b.next # None => e <= b.next.epoch \/ b.next.epoch <= current_epoch

Provide(b, current_epoch, e, v) ==
    IF current_epoch >= e THEN ProvisionalBuffer(v)
    ELSE [current |-> IF b.next # None /\ e > b.next.epoch THEN b.next.value ELSE b.current,
          next    |-> [epoch |-> e, value |-> v]]

ProvidedAt(b, e) == IF b.next # None /\ b.next.epoch <= e THEN b.next.value ELSE b.current

next_epoch(b, e) == IF b.next # None /\ b.next.epoch > e THEN {b.next.epoch} ELSE {}
=============================================================================

------------------------------- MODULE DynArray -------------------------------
(***************************************************************************)
(* The growing array of pointers (dynamic_array.c).  The C structure is a  *)
(* record; ram is the memory its elements are in, a function from          *)
(* addresses, counted in pointers, to what is there.                       *)
(***************************************************************************)
EXTENDS Integers

ArrayAt(address, initialSize) ==
  [array |-> address, used |-> 0, size |-> initialSize]

IsFull(a) == a.used = a.size

GrownSize(a) == 2 * a.size

\* What lies outside of ram is something else
WordAt(ram, at) == IF at \in DOMAIN ram THEN ram[at] ELSE << >>

(***************************************************************************)
(* The loop of insertArray copies the elements, and moves both pointers as *)
(* it goes.  a->array is then set to the end of the copies, and mm_free is *)
(* given the end of the old elements.  If new begins inside the array, the *)
(* loop comes to elements it has written over, and repeats the first ones. *)
(***************************************************************************)
Copied(ram, a, new) ==
  LET apart   == new - a.array
      from(i) == a.array + (IF apart \in 1..i THEN i % apart ELSE i)
  IN  [at \in DOMAIN ram |-> IF at \in new..(new + a.size - 1)
                             THEN WordAt(ram, from(at - new)) ELSE ram[at]]

Grown(a, new) ==
  [array |-> new + a.size, used |-> a.used, size |-> GrownSize(a)]

FreedByGrowth(a) == a.array + a.size

\* A mutant: used is counted up before it is used
InsertedPast(ram, a, element) == [ram EXCEPT ![a.array + a.used + 1] = element]

Inserted(ram, a, element) == [ram EXCEPT ![a.array + a.used] = element]

Longer(a) == [a EXCEPT !.used = @ + 1]

ElementOf(ram, a, i) == WordAt(ram, a.array + i)
=============================================================================

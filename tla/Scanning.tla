------------------------------ MODULE Scanning ------------------------------
(***************************************************************************)
(* What bufio.Scanner, bufio.Reader.ReadLine and ReplaceAllStringFunc have *)
(* in common: they go through a text from left to right and take it apart. *)
(***************************************************************************)
EXTENDS Naturals, Sequences

\* The parts of p: partAt[i] is the part taken at place i, and where the next one is.
Parts(p, partAt) ==
  LET from[i \in 1 .. Len(p) + 2] ==
        IF i > Len(p) THEN <<>> ELSE <<partAt[i].part>> \o from[partAt[i].next]
  IN  from[1]

Part(s, next) == [part |-> s, next |-> next]
=============================================================================

-------------------------------- MODULE Loops --------------------------------
(* The loops of kiro-gateway's converters and parsers over a list.         *)
EXTENDS Integers, Sequences

(* What is done before the first of the items, and what each one makes of  *)
(* what was done before it.                                                *)
ForEach(Op(_, _), before, items) ==
    LET done[i \in 0..Len(items)] ==
            IF i = 0 THEN before ELSE Op(done[i - 1], items[i])
    IN done[Len(items)]
=============================================================================

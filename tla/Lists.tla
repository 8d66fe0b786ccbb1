------------------------------- MODULE Lists --------------------------------
(* Operators on sequences that several of the parts use. *)
EXTENDS Integers, Sequences

\* What is left of s without the elements of `out`.
Kept(s, out) ==
    LET kept[k \in 0..Len(s)] ==
            IF k = 0 THEN <<>>
            ELSE IF s[k] \in out THEN kept[k - 1] ELSE Append(kept[k - 1], s[k])
    IN  kept[Len(s)]
=============================================================================

---------------------------- MODULE ProspectingData ----------------------------
(***************************************************************************)
(* What the models of the prospecting components share.                    *)
(***************************************************************************)
EXTENDS Naturals, Sequences

\* The elements of a sequence that are in a set, in their order.
Among(seq, set) ==
    LET among[n \in 0 .. Len(seq)] ==
            IF n = 0 THEN <<>>
            ELSE IF seq[n] \in set THEN Append(among[n - 1], seq[n]) ELSE among[n - 1]
    IN  among[Len(seq)]
=============================================================================

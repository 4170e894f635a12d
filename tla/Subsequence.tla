---- MODULE Subsequence ----
(***************************************************************************)
(* What a filter leaves of a sequence, by the positions it keeps.  It is   *)
(* SelectSeq as a recursive function, of which facts can be proved.        *)
(***************************************************************************)
EXTENDS Naturals, Sequences

Keep(s, I) ==
    LET F[i \in 0 .. Len(s)] ==
            IF i = 0 THEN <<>>
            ELSE IF i \in I THEN Append(F[i - 1], s[i])
            ELSE F[i - 1]
    IN  F[Len(s)]
====

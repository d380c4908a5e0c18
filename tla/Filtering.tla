------------------------------ MODULE Filtering ------------------------------
(***************************************************************************)
(* What the head keeps of a list: the iterator's filter and the deque's    *)
(* retain (coach-game/src).                                                *)
(***************************************************************************)
EXTENDS Naturals, Sequences

(* What of a sequence is in a set, in the order of the sequence. *)
Among(s, S) ==
    LET among[i \in 0..Len(s)] ==
            IF i = 0 THEN <<>>
            ELSE IF s[i] \in S THEN Append(among[i - 1], s[i]) ELSE among[i - 1]
    IN among[Len(s)]
=============================================================================

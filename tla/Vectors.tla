-------------------------------- MODULE Vectors --------------------------------
(***************************************************************************)
(* The elements of a vector that are in a set, in their order, and         *)
(* std::erase, which leaves one element out.  (SelectSeq does the same;    *)
(* its definition is not accessible to proofs.)                            *)
(***************************************************************************)
EXTENDS Integers, Sequences

(* What is selected of each prefix of s.                                   *)
SelectedOfPrefixes(s, S) ==
  LET chosen[n \in 0 .. Len(s)] ==
        IF n = 0 THEN << >>
        ELSE IF s[n] \in S THEN Append(chosen[n - 1], s[n]) ELSE chosen[n - 1]
  IN  chosen

Selected(s, S) == SelectedOfPrefixes(s, S)[Len(s)]

erase(s, e) == Selected(s, {s[i] : i \in DOMAIN s} \ {e})

===============================================================================

----------------------------- MODULE SeqFilter -----------------------------
(***************************************************************************)
(* A sequence without the members of a set.  SelectSeq would do, but the   *)
(* proof system has no definition of it: this one it can unfold.           *)
(***************************************************************************)
EXTENDS Integers, Sequences

Strip(seq, S) ==
  LET kept[i \in 0 .. Len(seq)] ==
        IF i = 0 THEN << >>
        ELSE IF seq[i] \in S THEN kept[i - 1] ELSE Append(kept[i - 1], seq[i])
  IN  kept[Len(seq)]
=============================================================================

------------------------------ MODULE TextSizes ------------------------------
(***************************************************************************)
(* The size of a text, which is the sequence of the byte widths of its     *)
(* characters: len(text.encode("utf-8")).                                  *)
(***************************************************************************)
EXTENDS Integers, Sequences

\* The sums of the first n numbers of a sequence, for each n.
Sums(numbers) ==
    LET sum[n \in 0..Len(numbers)] == IF n = 0 THEN 0 ELSE sum[n - 1] + numbers[n]
    IN  sum

Bytes(text) == Sums(text)[Len(text)]
=============================================================================

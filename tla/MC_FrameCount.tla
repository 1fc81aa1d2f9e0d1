--------------------------- MODULE MC_FrameCount ---------------------------
(* Words of four bits; the erased word has all of them. *)
EXTENDS FrameCount

Bit(n, k) == (n \div 2^k) % 2
MCTorn ==
  [n \in 0 .. MaxCount |->
     {t \in 0 .. MaxCount : \A k \in 0 .. 3 : Bit(n, k) = 1 => Bit(t, k) = 1}]
=============================================================================

---- MODULE MCPlayerShop ----
(* Two items, a stack of two and a single one, or the stack alone, and two
   buyers. *)
EXTENDS PlayerShop, TLC
CONSTANTS arrows, sword, b1, b2
MCStack == arrows :> 2 @@ sword :> 1
MCArrows == arrows :> 2
MCSymmetry == Permutations({b1, b2})
====

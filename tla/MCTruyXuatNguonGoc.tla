-------------------------- MODULE MCTruyXuatNguonGoc --------------------------
(* The hub contract on a small instance. *)
EXTENDS TruyXuatNguonGoc, TLC, FiniteSetsExt

CONSTANTS w1, w2, shrimp, blank, biz

MCWallet   == {w1, w2}
MCCard     == {shrimp, blank}
MCProfile  == {biz}

\* Wallets are interchangeable: no definition names one.
MCSymmetry == Permutations(MCWallet)

\* Bound: steps in all histories together.  Three are enough for a step before
\* the mint, the initial step and one after it, in one history.
MCMaxAllSteps == 3
MCFewSteps ==
  MapThenSumSet(LAMBDA id : Len(products[id].history), ProductId)
    <= MCMaxAllSteps
===============================================================================

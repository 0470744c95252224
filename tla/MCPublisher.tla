---------------------------- MODULE MCPublisher ----------------------------
(* Publisher on a few offers: what the constants stand for in TLC's runs.   *)
EXTENDS Publisher

CONSTANTS k1, k2, k3

MCKeys == {k1, k2, k3}

\* One quote, or two of them on one key or on two.
BatchesOf(keys) ==
  {<<q>> : q \in [key : keys, price : Prices]}
    \cup {<<q, r>> : q, r \in [key : keys, price : Prices]}

MCBatches == BatchesOf(Keys)
=============================================================================

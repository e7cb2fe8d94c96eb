----------------------------- MODULE MCWsQueue -----------------------------
(* Model-checking companion of WsQueue. *)
EXTENDS WsQueue, TLC

\* The texts are interchangeable.
TextSymmetry == Permutations(Texts)
=============================================================================

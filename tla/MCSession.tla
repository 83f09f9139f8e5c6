------------------------------ MODULE MCSession ------------------------------
(* Instances of Session for TLC: small sets of threads and prompts.          *)
EXTENDS Session, TLC

(* Threads and prompts are interchangeable, and no liveness property is      *)
(* checked in the runs that use this.                                        *)
Symmetric == Permutations(Threads) \cup Permutations(Prompts)

=============================================================================

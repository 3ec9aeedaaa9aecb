------------------------------ MODULE MCAccess -------------------------------
(***************************************************************************)
(* Instances of Access for TLC.                                            *)
(***************************************************************************)
EXTENDS Access, TLC

\* The write keys and the stray share one prefix, the secret keys another.
MCPrefix == [k \in Keys |-> IF k \in SecretKeys THEN "sk" ELSE "rk"]

\* Keys are told apart only by what they were issued for.
MCSymmetry ==
  Permutations(WriteKeys) \cup Permutations(SecretKeys) \cup Permutations(Requests)
    \cup Permutations(Emails) \cup Permutations(Consoles) \cup Permutations(Tokens)

\* Bound: either keys are presented or two sessions are started.  What a key is
\* granted does not depend on sessions, nor what a session may do on the cache.
MCBound == asked = 0 \/ Cardinality(minted) < 2
==============================================================================

---------------------------- MODULE MCAuthState ----------------------------
(* AuthState for TLC: interchangeable devices, random tokens and tasks.    *)
EXTENDS AuthState, TLC

\* Bound of the concurrent run: the link is not guessed away and does not
\* expire, so that what is left to explore is the store.
LinkStaysOpen == pending.live

\* Bound of the serial run: no device keeps a name.
NoNames == named = {}

Symmetry == Permutations(Device) \cup Permutations(RandomToken) \cup Permutations(Task)
=============================================================================

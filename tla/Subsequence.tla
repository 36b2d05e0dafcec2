----------------------------- MODULE Subsequence -----------------------------
(***************************************************************************)
(* What erasing elements from the middle of a deque (std::erase_if) can    *)
(* leave: the elements at some of its positions, in their order; and what  *)
(* bringing one to the front (std::rotate) makes of it.                    *)
(***************************************************************************)
EXTENDS Naturals, Sequences

\* The ways to pick m positions out of 1..n, in ascending order.
Picks(m, n) ==
    {f \in [1..m -> 1..n] : \A a, b \in 1..m : a < b => f[a] < f[b]}

Subsequences(s) ==
    UNION {{[k \in 1..m |-> s[f[k]]] : f \in Picks(m, Len(s))} : m \in 0..Len(s)}

\* What is left when all elements but those in `kept` are erased; one sequence.
Remaining(s, kept) ==
    UNION {{[k \in 1..m |-> s[f[k]]] :
               f \in {g \in Picks(m, Len(s)) :
                         {g[k] : k \in 1..m} = {i \in 1..Len(s) : s[i] \in kept}}} :
           m \in 0..Len(s)}

\* The n-th element first, the others in their order.
ToFront(s, n) ==
    [k \in 1..Len(s) |-> IF k = 1 THEN s[n] ELSE IF k <= n THEN s[k - 1] ELSE s[k]]
=============================================================================

----------------------------- MODULE MCRegistry -----------------------------
(* Instances of Registry for TLC. *)
EXTENDS Registry, TLC

CONSTANTS a1, a2, d1, d2, x1, s1, s2

NoExports == [x \in {x1} |-> None]
Dep == [exports |-> NoExports, tls |-> TRUE, key |-> FALSE]

\* One application that names its deployment, or follows the default; the other
\* one is not registered yet.
MCStartApps == { [a \in {a1, a2} |-> IF a = a1 THEN [deployment |-> d, source |-> s1] ELSE None]
                 : d \in {d1, None} }
MCStartDeps == { [d \in {d1, d2} |-> IF d \in E THEN Dep ELSE None] : E \in {{}, {d1}} }
MCStartDefaults == {None, d1}
Symmetry == Permutations(Tasks)
=============================================================================

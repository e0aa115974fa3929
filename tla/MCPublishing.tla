---------------------------- MODULE MCPublishing ----------------------------
(* Instances of Publishing for TLC. *)
EXTENDS Publishing, TLC

CONSTANTS a1, a2, d1, d2, x1, s1

Dep == [exports |-> [x \in Domains |-> None], tls |-> TRUE, key |-> FALSE]

\* Two applications, one where its record says and one that follows the default.
MCStartApps == { [a \in {a1, a2} |-> [deployment |-> IF a = a1 THEN d1 ELSE None, source |-> s1]] }
MCStartDeps == { [d \in {d1, d2} |-> IF d \in E THEN Dep ELSE None] : E \in {{d1}, {d1, d2}} }
MCStartDefaults == {d1}
MCStartProxies == { [d \in {d1, d2} |-> IF d = d1 THEN c ELSE None] :
                    c \in {None, [id |-> Old, running |-> TRUE, routes |-> {}]} }

\* The bound on refusals: those that nobody looks at meet one task only.
OneSkips == Cardinality(skipped) <= 1

Symmetry == Permutations(Tasks)
=============================================================================

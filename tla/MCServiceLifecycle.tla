-------------------------- MODULE MCServiceLifecycle --------------------------
(***************************************************************************)
(* TLC instances of ServiceLifecycle.                                      *)
(***************************************************************************)
EXTENDS ServiceLifecycle, TLC

Symmetry == Permutations(Tasks)

\* All but the history, for properties that do not mention it; what a task that
\* is over had seen is gone with its generator.
WithoutHistory ==
  <<docker, registry, op, target, scrub, progress, job,
    [k \in Tasks |-> IF stage[k] = "over" THEN {} ELSE seen[k]]>>
=============================================================================

----------------------------- MODULE MCLabWorker -----------------------------
EXTENDS LabWorker

\* g: good work; x: the same with a path that is not handed on; m: what g is on
\* a baseline that has its Python already; u: complete, but does not compile;
\* o: a draft outside the paths handed on.
CONSTANTS g, x, m, u, o, none

AllPatches == {g, x, m, u, o}
KeptPart == [p \in AllPatches |-> CASE p = x -> g [] p = o -> none [] OTHER -> p]
MovedTo == [p \in AllPatches |-> CASE p = g -> {m, u} [] p = m -> {g, none}
                                   [] OTHER -> {}]
=============================================================================

------------------------------ MODULE ChunkPlan ------------------------------
(***************************************************************************)
(* How an episode of a given horizon is cut into rounds (chunk_plan and    *)
(* rounds_for in stepped_episode.py).                                      *)
(***************************************************************************)
EXTENDS Integers

CONSTANTS DefaultRounds,  \* DEFAULT_ROUNDS
          MinChunk,       \* MIN_CHUNK_TICKS
          MaxChunk        \* MAX_CHUNK_TICKS

ASSUME PlanAssumption ==
  /\ DefaultRounds \in Nat \ {0}
  /\ MinChunk \in Nat \ {0} /\ MaxChunk \in Nat \ {0}

\* Two chunks that are just too short make one that is not too long.
ASSUME ChunkAssumption == 2 * MinChunk <= MaxChunk + 1

Least(a, b)    == IF a < b THEN a ELSE b
Greatest(a, b) == IF a > b THEN a ELSE b

\* Mutant: a last, shorter round is not counted.
RoundsForWhole(h) == Greatest(DefaultRounds, h \div MaxChunk)

\* rounds_for: as many as it takes for no chunk to exceed MaxChunk.
RoundsFor(h) == Greatest(DefaultRounds, (h + MaxChunk - 1) \div MaxChunk)

\* len(chunk_plan(h, asked)): no chunk gets shorter than MinChunk.
Rounds(h, asked) ==
  IF h <= 0 THEN 0
  ELSE Greatest(1, Least(asked, Greatest(1, h \div MinChunk)))

\* Mutant: the remainder of the division is dropped.
EvenChunk(h, n, i) == h \div n

\* chunk_plan(h, asked)[i], of n chunks: the remainder goes to the first ones.
Chunk(h, n, i) == h \div n + (IF i < h % n THEN 1 ELSE 0)
=============================================================================

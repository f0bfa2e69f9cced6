------------------------------- MODULE MCParts ------------------------------
(***************************************************************************)
(* Four parts that share no state: the episode runner, the probes, their   *)
(* guard and the evaluator.  One instance, in which one part moves while   *)
(* the others rest.                                                        *)
(***************************************************************************)
EXTENDS EpisodeRun, Observations, ProbeGuard, EvaluatorLoop, TLC

CONSTANTS Garbage,     \* an amount of ticks that is not a number
          Parts        \* the parts that are explored: "episode", "probes", "guard", "evaluator"

VARIABLE part

MCSeeds == {1, 2}
MCCitizens == {"urist", "zon"}
MCDiesAt == [s \in MCSeeds |-> [c \in MCCitizens |->
  CASE s = 1 /\ c = "urist" -> 3 [] s = 1 -> 6 [] c = "urist" -> 4 [] OTHER -> 99]]

Do(cmd, key, args) == [cmd |-> cmd, key |-> key, args |-> args]
MCActions ==
  {Do("advance", "command", <<3>>), Do("advance", "command", <<Garbage>>),
   Do("unpause", "command", <<>>), Do("pause", "name", <<>>), Do("observe", "name", <<>>)}

JobTypes ==
  {"ConstructBed", "ConstructChest", "ConstructBallistaParts", "PrepareMeal",
   "ButcherAnimal", "CatchLiveLandAnimal", "MakeBarrel", "SmeltOre", "CutGems",
   "CollectSand", "HarvestFruits", "CookFood", "Pause", "CutStone"}

Job(t, c, s, i, k, f) ==
  [id |-> ToString(<<t, c, s, i, k, f>>), type |-> t, cancelled |-> c, suspended |-> s,
   flags |-> f, indexed |-> i, worker |-> k,
   state |-> IF i THEN "ACTIVE" ELSE "QUEUED", quality |-> 0]

\* A job of every state and of the given types, whose flags say what its fields do.
JobsOf(types) ==
  {Job(t, c, s, i, k, {f \in {"cancelled", "suspend"} : IF f = "suspend" THEN s ELSE c}) :
     t \in types, c \in BOOLEAN, s \in BOOLEAN, i \in BOOLEAN, k \in {"urist", Null}}

\* Four jobs more, of which only the flags, or only the fields, say so.
Mixed ==
  {Job("SmeltOre", c, FALSE, TRUE, "urist", f) : c \in BOOLEAN, f \in {{"cancelled"}, {"suspend"}}}

Unit(id, civ, alive, pctile, ratings, dire) ==
  [id |-> id, civ |-> civ, alive |-> alive, animal |-> id = "cat", profession |-> civ,
   labors |-> {"MINE"}, happiness |-> pctile, pctile |-> pctile, hp |-> IF alive THEN 5 ELSE 0,
   maxHp |-> 5, inMortuary |-> FALSE, emotion |-> "calm", fatigue |-> 0, morale |-> 1,
   skills |-> {[skill |-> "MINING", rating |-> r] : r \in ratings}, dire |-> dire,
   urgent |-> dire, distress |-> {"pain"}, status |-> "idle"]

Fort ==
  [jobs |-> {}, units |-> {}, items |-> {}, stockpiles |-> {}, buildings |-> {},
   factions |-> <<>>, herds |-> {}, tiles |-> {}, designated |-> 0, portal |-> FALSE,
   paused |-> TRUE, instant |-> FALSE, waterAtOrigin |-> FALSE, advancement |-> FALSE,
   time |-> 0, temperature |-> 20, season |-> "spring", year |-> 259, size |-> 1,
   tileMaterial |-> 3, weather |-> "clear", age |-> Null, bridgeTicks |-> 0]

Lively ==
  [Fort EXCEPT
     !.units = {Unit("urist", "1", TRUE, 39, {8, 9, 15}, {"hunger", "thirst"}),
                Unit("zon", "1", TRUE, 40, {-1, 0}, {}), Unit("ral", "1", TRUE, 19, {}, {"thirst"}),
                Unit("cat", "2", TRUE, 80, {}, {}), Unit("id", "1", FALSE, 20, {14}, {})},
     !.items = {[idx |-> 1, id |-> "i1", type |-> "FOOD", food |-> TRUE, value |-> 5, weight |-> 1,
                 material |-> "3"],
                [idx |-> 2, id |-> "i2", type |-> "WOOD", food |-> FALSE, value |-> 5, weight |-> 2,
                 material |-> Null],
                [idx |-> 3, id |-> "i3", type |-> "BED", food |-> FALSE, value |-> 7, weight |-> 2,
                 material |-> "3"]},
     !.stockpiles = {[id |-> "s1", types |-> {"BED"}]},
     !.buildings = {[id |-> "b1", type |-> "GeneralStockpile"]},
     !.factions = "f1" :> 3, !.herds = {[males |-> 1, females |-> 2], [males |-> 2, females |-> 0]},
     !.tiles = {[id |-> t, type |-> t] : t \in {0, 300, 1024, 1280, 1536}},
     !.age = 125, !.bridgeTicks = 43200]

MCWorlds ==
  {Fort, Lively, [Lively EXCEPT !.jobs = JobsOf(JobTypes)],
   [Lively EXCEPT !.jobs = JobsOf({"SmeltOre"}) \cup Mixed, !.items = {i \in @ : i.idx < 3}]}
    \cup {[Fort EXCEPT !.jobs = JobsOf({t})] : t \in JobTypes}

MCInit ==
  /\ part \in Parts /\ RunInit /\ ProbesInit /\ GuardInit /\ Init
  /\ part # "episode" => seed = 1 /\ budget = 1
  /\ part # "probes" => world = Fort
  /\ part # "guard" => guard = "spawning"
  /\ part # "evaluator" => suite = "v3"

MCNext ==
  \/ part = "episode" /\ RunNext /\ UNCHANGED <<part, probeVars, guardVars, vars>>
  \/ part = "probes" /\ ProbesNext /\ UNCHANGED <<part, runVars, guardVars, vars>>
  \/ part = "guard" /\ GuardNext /\ UNCHANGED <<part, runVars, probeVars, vars>>
  \/ part = "evaluator" /\ Next /\ UNCHANGED <<part, runVars, probeVars, guardVars>>

MCSpec == MCInit /\ [][MCNext]_<<part, runVars, probeVars, guardVars, vars>>
=============================================================================

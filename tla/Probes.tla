------------------------------- MODULE Probes -------------------------------
(***************************************************************************)
(* The probes of bridge/: each sends a Lua script to the game through      *)
(* _dfhack_run (game_runner/episode.py), which prints one JSON value, and  *)
(* takes or refuses what comes back.  One definition per probe: what its   *)
(* script prints of a world, and which answers its Python half takes.      *)
(*                                                                         *)
(* A world is the part of a fort the scripts read.  A script that names a  *)
(* field the running game does not have, or finds a section missing, ends  *)
(* like any other run that fails, or prints an empty world's answer: both  *)
(* are among the worlds and the transport outcomes.  JSON keys are strings,*)
(* so a table keyed by numbers has the numbers' names as its keys.         *)
(***************************************************************************)
EXTENDS Integers, FiniteSets, FiniteSetsExt

CONSTANTS
  Worlds,      \* the worlds that are probed
  Null         \* no value

\* A fort has finitely much of everything, and its items are in some order; shares,
\* ratings and values are whole numbers.
ASSUME WorldsAssumption ==
  \A w \in Worlds :
    /\ IsFiniteSet(w.jobs) /\ IsFiniteSet(w.units) /\ IsFiniteSet(w.items)
    /\ {i.idx : i \in w.items} = 1..Cardinality(w.items)
    /\ \A i \in w.items : i.value \in Nat /\ \A j \in w.items : i.idx = j.idx => i = j
    /\ IsFiniteSet(w.tiles) /\ \A t \in w.tiles : t.type \in Int
    /\ \A u \in w.units :
         /\ u.pctile \in Int /\ IsFiniteSet(u.dire) /\ IsFiniteSet(u.distress)
         /\ IsFiniteSet(u.skills) /\ \A s \in u.skills : s.rating \in Int

VARIABLES
  world,       \* the world of the moment
  answer       \* the last probe, how its call went, and what it returned

probeVars == <<world, answer>>

-----------------------------------------------------------------------------
(* What a script prints, as the set of values it may be; [is, of].         *)

Object(f) == [is |-> "object", of |-> f]
List(f) == [is |-> "list", of |-> f]
Failure == [is |-> "failure", of |-> <<>>]

Plain(f) == {Object(f)}               \* json.encode({ ... })
Boxed(f) == {List(f)}                 \* json.encode{{ ... }}: a list of one object
\* json.encode(t): whether an empty t is {} or [] is the encoder's choice.
Table(f) == {Object(f)} \cup {List(f) : x \in {y \in {1} : DOMAIN f = {}}}
Broken == {Failure}                   \* the script is not Lua: it has a [] in it
Silent == {Object(<<>>)}              \* nothing is printed, which is read as {}

(* The transport: what _dfhack_run returns of a call that went as told.    *)
Transport == {"ran", "failed", "garbled", "timeout"}

_dfhack_run(t, printed) ==
  CASE t = "ran"     -> printed
    [] t = "failed"  -> Failure                              \* _dfhack_error
    [] t = "garbled" -> [is |-> "raw", of |-> <<>>]          \* _raw
    [] t = "timeout" -> Object([error |-> "timeout"])

Raised == [is |-> "raised", of |-> <<>>]
Nothing == [is |-> "none", of |-> <<>>]

(* The Python half of the probes: which answers are taken.                 *)
Take(how, r) ==
  LET Only(ok) == IF r.is = "object" /\ ok THEN r ELSE Nothing
      late == "error" \in DOMAIN r.of
  IN CASE how = "dict"     -> Only(TRUE)
       [] how = "paused"   -> Only("pause_jobs" \in DOMAIN r.of)
       [] how = "tile"     -> Only(~late)
       [] how = "festival" -> Only("festival_schedule" \in DOMAIN r.of)
       [] how = "mood"     -> Only("mean_happiness" \in DOMAIN r.of)
       [] how = "map"      -> Only({"has_map", "width", "height", "tiles"} \subseteq DOMAIN r.of)
       [] how = "numbered" -> IF r.is = "object" /\ late THEN Raised ELSE Only(TRUE)
       [] how = "skills"   -> Only(DOMAIN r.of = {})
       [] how = "parsed"   -> Nothing
       [] how = "records"  -> IF r.is = "list" THEN r ELSE Nothing
       [] how = "listed"   -> IF r.is = "list" THEN r ELSE List(<<>>)

Probe(prints, how) == [prints |-> prints, takes |-> how]
Standard(prints) == Probe(prints, "dict")

-----------------------------------------------------------------------------
(* Helpers the scripts share.                                              *)

Jobs(w, types) == {j \in w.jobs : j.type \in types}

JobCount(w, key, types) ==
  Standard(Boxed([k \in {key} |-> Cardinality(Jobs(w, types))]))

Quality(w, types) ==
  [i \in {j.id : j \in Jobs(w, types)} |-> (CHOOSE j \in w.jobs : j.id = i).quality]

Tally(S, Key(_)) == [k \in {Key(x) : x \in S} |-> Cardinality({x \in S : Key(x) = k})]

OfUnits(w, F(_)) == [i \in {u.id : u \in w.units} |-> F(CHOOSE u \in w.units : u.id = i)]

Total(S, F(_)) == SumFunction([x \in S |-> F(x)])

-----------------------------------------------------------------------------
(* The jobs of the fort, counted by one type each.                         *)

advancement_progress_probe(w) == JobCount(w, "advancement_jobs", {"LearnSkill"})
building_construction_probe(w) == JobCount(w, "construction_jobs", {"ConstructBed"})
crafting_progress_probe(w) == JobCount(w, "crafting_jobs", {"CraftItem"})
cutting_progress_probe(w) == JobCount(w, "cutting_jobs", {"CutPlant", "CutTree"})
defense_jobs_probe(w) == JobCount(w, "defense_jobs", {"Defend"})
digging_progress_probe(w) == JobCount(w, "digging_jobs", {"Dig"})
equipment_repair_probe(w) == JobCount(w, "repair_jobs", {"RepairItem"})
harvest_progress_probe(w) == JobCount(w, "harvest_jobs", {"HarvestFruits", "HarvestDwarf"})
labor_progress_probe(w) == JobCount(w, "hauling_jobs", {"Hauling"})
material_extraction_probe(w) == JobCount(w, "extraction_jobs", {"Extract"})
metal_smelting_probe(w) == JobCount(w, "smelting_jobs", {"SmeltOre"})
metal_smelting_progress_probe(w) == JobCount(w, "smelting_jobs", {"CastMetal"})
metalworking_progress_probe(w) == JobCount(w, "metalworking_jobs", {"CastMetal", "RefineMetal"})
plant_gathering_progress_probe(w) == JobCount(w, "gathering_jobs", {"GatherPlant"})
planting_progress_probe(w) == JobCount(w, "planting_jobs", {"Plant"})
refining_progress_probe(w) == JobCount(w, "refining_jobs", {"RefineMaterial"})
siege_engine_probe(w) == JobCount(w, "siege_jobs", {"SiegeWeapon"})
smelting_progress_probe(w) == JobCount(w, "smelting_jobs", {"SmeltMetal"})
spellcasting_progress_probe(w) == JobCount(w, "spellcasting_jobs", {"CastSpell"})
stone_extraction_probe(w) == JobCount(w, "stone_extraction_jobs", {"ExtractOre", "ExtractRock"})
training_progress_probe(w) == JobCount(w, "training_jobs", {"TrainItem"})
unit_training_probe(w) == JobCount(w, "training_jobs", {"TrainUnit"})

pause_progress_probe(w) ==
  Probe(Boxed([pause_jobs |-> Cardinality(Jobs(w, {"Pause"}))]), "paused")

queue_progress_probe(w) ==
  Standard(Boxed([queue_length |-> Cardinality({j \in w.jobs : j.state = "QUEUED"})]))

stone_use_status_probe(w) ==
  Standard(Boxed([stone_jobs |-> Cardinality(Jobs(w, {"CutStone"})),
                  stone_jobs_paused |-> w.paused]))

food_preparation_quality_probe(w) == Standard(Table(Quality(w, {"CookFood"})))
metalwork_quality_probe(w) == Standard(Table(Quality(w, {"SmeltOre"})))
job_queue_probe(w) == Standard(Boxed([total_jobs |-> Cardinality(w.jobs)]))

\* Five types of job have a category of their own; the rest are "other".
JobCountsCategory ==
  [ConstructBed |-> "construction", PrepareMeal |-> "food",
   MakeBarrel |-> "manufacturing", CollectSand |-> "harvesting"]

\* cat_map: nine types have one.
JobSummaryCategory ==
  [ConstructBed |-> "construction", ConstructChest |-> "construction",
   PrepareMeal |-> "food", ButcherAnimal |-> "food",
   MakeBarrel |-> "manufacturing", SmeltOre |-> "manufacturing", CutGems |-> "manufacturing",
   CollectSand |-> "harvesting", HarvestFruits |-> "harvesting"]

Categories == {"construction", "food", "manufacturing", "harvesting", "other"}
States == {"queued", "active", "suspended", "cancelled"}

\* How many jobs fall under each key, with a zero for a key without any.
Count(w, keys, Key(_)) == [k \in keys |-> Cardinality({j \in w.jobs : Key(j) = k})]

CategoryIn(table, j) == IF j.type \in DOMAIN table THEN table[j.type] ELSE "other"

job_counts_probe(w) ==
  LET Category(j) == CategoryIn(JobCountsCategory, j)
  IN Standard(Plain(Count(w, Categories, Category)))

\* The fields job.cancelled and job.suspended, not the flags of job_list.  Queued:
\* no index of a next and none of an active job.
SummaryState(j) ==
  IF j.cancelled THEN "cancelled" ELSE IF j.suspended THEN "suspended"
  ELSE IF ~j.indexed THEN "queued" ELSE "active"

job_summary_probe(w) ==
  LET Category(j) == CategoryIn(JobSummaryCategory, j)
  IN Standard(Plain([state_counts |-> Count(w, States, SummaryState),
                     category_counts |-> Count(w, Categories, Category)]))

-----------------------------------------------------------------------------
(* Units, items, stores and the world.                                     *)

animal_breeding_probe(w) ==
  Standard(Boxed([breeding_pairs |-> Cardinality({h \in w.herds : h.males > 0 /\ h.females > 0})]))

animal_care_probe(w) ==
  LET Health(u) == [health |-> IF u.hp = u.maxHp THEN "healthy"
                               ELSE IF u.hp > 0 /\ u.hp < u.maxHp THEN "injured"
                               ELSE IF u.inMortuary THEN "dead" ELSE "ill"]
      animals == {u.id : u \in {x \in w.units : x.animal}}
  IN Standard(Table([i \in animals |-> OfUnits(w, Health)[i]]))

faction_probe(w) == Standard(Table(w.factions))

\* get_faction_morale and get_food_stock hand on what the probe returns.
faction_api(w) == faction_probe(w)

food_stock_probe(w) ==
  Standard(Boxed([food_stock |-> Cardinality({i \in w.items : i.food})]))

food_stock_probe_api(w) == food_stock_probe(w)

ValueOf(i) == i.value

inventory_value_probe(w) == Standard(Boxed([total_inventory_value |-> Total(w.items, ValueOf)]))

inventory_weight_probe(w) ==
  LET Weight(i) == i.weight
  IN Standard(Boxed([total_inventory_weight |-> Total(w.items, Weight)]))

item_probe(w) == Standard(Boxed([total_value |-> Total(w.items, ValueOf)]))

\* An item without a material is not counted.
material_probe(w) ==
  LET Material(i) == i.material
  IN Standard(Table(Tally({i \in w.items : i.material # Null}, Material)))

\* Answers of these three have their keys made numbers outside the try.
labor_probe(w) ==
  LET Labors(u) == u.labors
  IN Probe(Table(OfUnits(w, Labors)), "numbered")

unit_population_probe(w) ==
  LET Civ(u) == u.civ IN Probe(Table(Tally(w.units, Civ)), "numbered")

\* Sums of happiness, the n-th profession that is visited divided by n.
profession_probe(w) ==
  LET profs == {u.profession : u \in w.units}
      Mood(u) == u.happiness
      Sum(p) == Total({u \in w.units : u.profession = p}, Mood)
      Visits == {v \in [profs -> 1..Cardinality(profs)] :
                   \A p, q \in profs : v[p] = v[q] => p = q}
  IN Probe(UNION {Table([p \in profs |-> Sum(p) \div v[p]]) : v \in Visits}, "numbered")

labour_probe(w) ==
  LET active == UNION {u.labors : u \in w.units}
  IN Standard(Table([l \in active |-> Cardinality({u \in w.units : l \in u.labors})]))

\* The keys of an answer are strings, and only numbers are taken.
skill_probe(w) ==
  LET Skills(u) == u.skills IN Probe(Table(OfUnits(w, Skills)), "skills")

unit_deaths_probe(w) ==
  Standard(Boxed([unit_deaths |-> Cardinality({u \in w.units : ~u.animal /\ ~u.alive})]))

unit_emotions_probe(w) ==
  LET Primary(u) == u.emotion IN Standard(Table(OfUnits(w, Primary)))

unit_fatigue_probe(w) ==
  LET Fatigue(u) == [fatigue |-> u.fatigue] IN Standard(Table(OfUnits(w, Fatigue)))

unit_happiness_probe(w) ==
  LET alive == {u \in w.units : u.alive}
      Mood(u) == u.happiness
  IN Probe(Boxed(IF alive = {} THEN <<>>
                 ELSE [mean_happiness |-> Total(alive, Mood) \div Cardinality(alive)]), "mood")

unit_health_probe(w) == Probe(Broken, "parsed")

unit_morale_probe(w) ==
  LET Morale(u) == [morale |-> u.morale] IN Standard(Table(OfUnits(w, Morale)))

unit_needs_probe(w) == Standard(Plain(<<>>))

\* Two of hunger, thirst and tiredness at the limits of this script, which are
\* not those of Observations.
needs_probe(w) ==
  Probe({List({u.id : u \in {x \in w.units : Cardinality(x.urgent) >= 2}})}, "parsed")

unit_status_probe(w) ==
  Standard({List([status |-> s]) : s \in IF w.units = {} THEN {"unknown"}
                                        ELSE {u.status : u \in w.units}})

designation_probe(w) == Standard(Boxed([designated_tiles |-> w.designated]))

stockpile_contents_probe(w) ==
  Standard(Table([i \in {p.id : p \in w.stockpiles} |->
                    (CHOOSE p \in w.stockpiles : p.id = i).types]))

stockpile_progress_probe(w) ==
  Standard(Boxed([stockpile_count |-> Cardinality(w.stockpiles)]))

stockpile_query_probe(w) ==
  LET general == {b \in w.buildings : b.type = "GeneralStockpile"}
  IN Standard(Boxed([general_stockpiles |-> Cardinality(general)]))

stockpile_status_probe(w) ==
  Standard(Boxed([stockpiles |-> Cardinality(w.stockpiles)]))

festival_schedule_probe(w) == Probe(Broken, "festival")

portal_open_probe(w) == Standard(Boxed([portal_opened |-> w.portal]))

-----------------------------------------------------------------------------
(* The pause, spelt in five ways, and the other values of the world.       *)

pause_commands_probe(w) == Standard(Boxed([paused |-> w.paused]))
pause_mode_probe(w) == Standard(Boxed([paused |-> w.paused]))
pause_probe(w) == Standard(Boxed([paused |-> w.instant]))
pause_state_probe(w) == Standard(Boxed([paused |-> w.paused]))
pause_status_probe(w) == Standard(Plain([paused |-> w.paused]))

\* No state, unpaused or paused: the script says paused in each case.
pause_advancement_probe(w) ==
  Standard(Boxed([paused |-> TRUE, advancement_allowed |-> w.waterAtOrigin]))

advancement_commands_probe(w) ==
  Standard(Plain([advancement_commands_enabled |-> w.advancement]))

current_time_probe(w) == Standard(Plain([time |-> w.time]))
room_temperature_probe(w) == Standard(Boxed([room_temperature |-> w.temperature]))
temperature_probe(w) == Standard(Plain([ambient_temp |-> w.temperature]))
season_probe(w) == Standard(Boxed([season |-> w.season]))
year_probe(w) == Standard(Boxed([year |-> w.year, season |-> w.season]))
stress_probe(w) == Standard(Boxed([stress |-> 0]))
tile_map_probe(w) ==
  Standard(Boxed([width |-> w.size + 1, height |-> w.size + 1, depth |-> w.size]))
tile_probe(w) == Probe(Boxed([material |-> w.tileMaterial]), "tile")
weather_probe(w) ==
  Standard(Plain([is_rainy |-> w.weather = "rain", is_stormy |-> w.weather = "storm",
                  is_snowy |-> w.weather = "snow", temperature |-> w.temperature]))
weather_status_probe(w) == Standard(Boxed([weather |-> w.weather]))
world_age_probe(w) ==
  Standard(Plain(IF w.age = Null THEN <<>> ELSE [world_age |-> w.age]))

\* finish_probe asks no game: Bridge.finished is set with the last of 43200 ticks.
finish_probe(w) == Plain([finished |-> w.bridgeTicks >= 30 * 24 * 60])

-----------------------------------------------------------------------------
(* The probes of probe.py.  All but the first call a function of core.lua, *)
(* which returns its value and prints nothing.                             *)

probe_time(w) ==
  Standard(Plain([year |-> w.year, season |-> w.season, tick |-> w.time, paused |-> w.paused]))

probe_stockpiles(w) == Probe(Silent, "listed")
probe_zones(w) == Probe(Silent, "listed")
map_features_probe(w) == Probe(Silent, "listed")
probe_tile_map(w) == Probe(Silent, "map")
probe_unit_skills(w) == Probe(Silent, "records")
probe_unit_needs(w) == Probe(Silent, "records")
probe_thought_emotions(w) == Probe(Silent, "records")

-----------------------------------------------------------------------------
(* A client probes a world.                                                *)

AllProbes(w) ==
  [advancement_commands |-> advancement_commands_probe(w),
   advancement_progress |-> advancement_progress_probe(w),
   animal_breeding |-> animal_breeding_probe(w), animal_care |-> animal_care_probe(w),
   building_construction |-> building_construction_probe(w),
   crafting_progress |-> crafting_progress_probe(w), current_time |-> current_time_probe(w),
   cutting_progress |-> cutting_progress_probe(w), defense_jobs |-> defense_jobs_probe(w),
   designation |-> designation_probe(w), digging_progress |-> digging_progress_probe(w),
   equipment_repair |-> equipment_repair_probe(w), faction |-> faction_api(w),
   festival_schedule |-> festival_schedule_probe(w),
   food_preparation_quality |-> food_preparation_quality_probe(w),
   food_stock |-> food_stock_probe_api(w), harvest_progress |-> harvest_progress_probe(w),
   inventory_value |-> inventory_value_probe(w), inventory_weight |-> inventory_weight_probe(w),
   item |-> item_probe(w), job_counts |-> job_counts_probe(w), job_queue |-> job_queue_probe(w),
   job_summary |-> job_summary_probe(w), labor |-> labor_probe(w),
   labor_progress |-> labor_progress_probe(w), labour |-> labour_probe(w),
   material_extraction |-> material_extraction_probe(w), material |-> material_probe(w),
   metal_smelting |-> metal_smelting_probe(w),
   metal_smelting_progress |-> metal_smelting_progress_probe(w),
   metalwork_quality |-> metalwork_quality_probe(w),
   metalworking_progress |-> metalworking_progress_probe(w), needs |-> needs_probe(w),
   pause_advancement |-> pause_advancement_probe(w), pause_commands |-> pause_commands_probe(w),
   pause_mode |-> pause_mode_probe(w), pause |-> pause_probe(w),
   pause_progress |-> pause_progress_probe(w), pause_state |-> pause_state_probe(w),
   pause_status |-> pause_status_probe(w),
   plant_gathering_progress |-> plant_gathering_progress_probe(w),
   planting_progress |-> planting_progress_probe(w), portal_open |-> portal_open_probe(w),
   profession |-> profession_probe(w), queue_progress |-> queue_progress_probe(w),
   refining_progress |-> refining_progress_probe(w),
   room_temperature |-> room_temperature_probe(w), season |-> season_probe(w),
   siege_engine |-> siege_engine_probe(w), skill |-> skill_probe(w),
   smelting_progress |-> smelting_progress_probe(w),
   spellcasting_progress |-> spellcasting_progress_probe(w),
   stockpile_contents |-> stockpile_contents_probe(w),
   stockpile_progress |-> stockpile_progress_probe(w),
   stockpile_query |-> stockpile_query_probe(w), stockpile_status |-> stockpile_status_probe(w),
   stone_extraction |-> stone_extraction_probe(w), stone_use_status |-> stone_use_status_probe(w),
   stress |-> stress_probe(w), temperature |-> temperature_probe(w),
   tile_map |-> tile_map_probe(w), tile |-> tile_probe(w),
   training_progress |-> training_progress_probe(w), unit_deaths |-> unit_deaths_probe(w),
   unit_emotions |-> unit_emotions_probe(w), unit_fatigue |-> unit_fatigue_probe(w),
   unit_happiness |-> unit_happiness_probe(w), unit_health |-> unit_health_probe(w),
   unit_morale |-> unit_morale_probe(w), unit_needs |-> unit_needs_probe(w),
   unit_population |-> unit_population_probe(w), unit_status |-> unit_status_probe(w),
   unit_training |-> unit_training_probe(w), weather |-> weather_probe(w),
   weather_status |-> weather_status_probe(w), world_age |-> world_age_probe(w),
   year |-> year_probe(w), time |-> probe_time(w), stockpiles |-> probe_stockpiles(w),
   zones |-> probe_zones(w), map_features |-> map_features_probe(w),
   whole_tile_map |-> probe_tile_map(w), unit_skills |-> probe_unit_skills(w),
   all_unit_needs |-> probe_unit_needs(w), thought_emotions |-> probe_thought_emotions(w)]

Idle == [probe |-> "none", went |-> "ran", got |-> Nothing]

ProbesInit == world \in Worlds /\ answer = Idle

\* One probe, one call of the game, one answer.
Ask ==
  /\ answer = Idle
  /\ LET all == AllProbes(world) IN
       \E p \in DOMAIN all, t \in Transport : \E printed \in all[p].prints :
         answer' = [probe |-> p, went |-> t, got |-> Take(all[p].takes, _dfhack_run(t, printed))]
  /\ UNCHANGED world

\* The caller has its answer, and the game has gone on to another world.
GameMoves ==
  /\ answer # Idle /\ answer' = Idle
  /\ world' \in Worlds

ProbesNext == Ask \/ GameMoves

ProbesSpec == ProbesInit /\ [][ProbesNext]_probeVars

(* The docstrings of the probes: a value "on success, or None if the probe *)
(* fails".  A call that did not go well returns None, and one that went    *)
(* well does not.                                                          *)
NoneOnFailure ==
  answer # Idle => (answer.got = Nothing <=> answer.went # "ran")
=============================================================================

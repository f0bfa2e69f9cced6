---------------------------- MODULE Observations ----------------------------
(***************************************************************************)
(* What bridge/probe.py makes of an observation offline: states and        *)
(* categories of jobs, and the labels and summaries of units, items, needs,*)
(* skills, moods and tiles.  The scripts of the probes classify the same   *)
(* jobs, units and items once more, each in its own way.                   *)
(*                                                                         *)
(* The name of a job's type is a member of a set: the substrings that      *)
(* job_category looks for are the sets of modelled names holding them.     *)
(* Scales are in hundredths, and limits keep their order, not their size.  *)
(***************************************************************************)
EXTENDS Probes

CONSTANT MaxListed   \* how many of the fort's items an observation lists (300)

ASSUME MaxListedAssumption == MaxListed \in Nat

\* The suspension is looked at before the cancellation (a mutant).
SuspendedFirst(j) ==
  IF "suspend" \in j.flags THEN "suspended" ELSE IF "cancelled" \in j.flags THEN "cancelled"
  ELSE IF j.worker # Null THEN "active" ELSE "queued"

\* job_list fills a job's cancelled and suspended from its flags.
job_state(j) ==
  IF "cancelled" \in j.flags THEN "cancelled" ELSE IF "suspend" \in j.flags THEN "suspended"
  ELSE IF j.worker # Null THEN "active" ELSE "queued"

\* The tests of job_category in their order; the first that holds decides.
job_category(j) ==
  CASE j.type \in {"ConstructBed", "ConstructChest", "ConstructBallistaParts"} -> "construction"
    [] OTHER ->
  CASE j.type \in {"PrepareMeal", "ButcherAnimal", "CatchLiveLandAnimal"} -> "food"
    [] OTHER ->
  CASE j.type \in {"LoadCatapult", "ConstructBallistaParts"} -> "military"
    [] OTHER ->
  CASE j.type \in {"CollectSand", "HarvestFruits", "CatchLiveLandAnimal"} -> "harvesting"
    [] OTHER ->
  CASE j.type \in {"MakeBarrel", "SmeltOre", "SmeltMetal", "CutGems"} -> "manufacturing"
    [] OTHER -> "other"

count_jobs_by_state(w) == Count(w, States, job_state)
count_jobs_by_category(w) == Count(w, Categories \cup {"military"}, job_category)

-----------------------------------------------------------------------------
alive_units(w) == {u \in w.units : u.alive}
dead_units(w) == {u \in w.units : ~u.alive}
units_by_civ_id(w) == [c \in {u.civ : u \in w.units} |-> {u \in w.units : u.civ = c}]

\* The first items of the fort: what is past the limit no observation has.
item_list(w) == {i \in w.items : i.idx <= MaxListed}

item_category(i) ==
  CASE i.type \in {"FOOD", "MEAT", "PLANT", "CHEESE", "GLOB", "LIQUID_MISC", "POISON_FLASK"} -> "consumable"
    [] i.type \in {"WOOD", "STONE"} -> "structural"
    [] i.type \in {"METAL_INGOT", "BAR_GEMS", "CLOTH"} -> "metalwork"
    [] i.type \in {"ARMOR", "HELM", "GLOVES", "PANTS", "SHOES"} -> "protection"
    [] i.type = "TOOL" -> "tool"
    [] i.type \in {"BOOK", "PAPER", "ARTIFACT"} -> "knowledge"
    [] i.type = "CONTAINER" -> "storage"
    [] OTHER -> "other"

count_items_by_category(w) == Tally(item_list(w), item_category)
total_inventory_value(w) == Total(item_list(w), ValueOf)

\* Two of the three timers and the four signs of distress, as the names of
\* those that are over their limit.
is_in_dire_need(u) == u.dire # {}
need_severity(u) == 100 * Cardinality(u.dire) + 50 * Cardinality(u.distress)

-----------------------------------------------------------------------------
unit_happiness_rating(u) ==
  CASE u.pctile < 20 -> "depressed"
    [] u.pctile \in 20..39 -> "miserable"
    [] u.pctile \in 40..59 -> "okay"
    [] u.pctile \in 60..79 -> "happy"
    [] OTHER -> "ecstatic"

units_by_happiness(w) == Tally(w.units, unit_happiness_rating)
unhappy_faction_count(w) == Cardinality({u \in w.units : u.pctile < 40})

skill_rank_tier(r) ==
  CASE r < 0 -> "unlearned"
    [] r \in 0..2 -> "novice"
    [] r \in 3..5 -> "competent"
    [] r \in 6..8 -> "skilled"
    [] r \in 9..14 -> "master"
    [] OTHER -> "legendary"

\* Learned skills, and those at or above the rating of a master.
mastery_fraction(w) ==
  LET Slots(lowest) == Total(w.units, LAMBDA u : Cardinality({s \in u.skills : s.rating >= lowest}))
  IN <<Slots(9), Slots(0)>>

is_liquid_tile(t) == t >= 1024
is_floor_tile(t) == t \in 256..511

classify_tile_label(t) ==
  CASE t \in 1280..1535 -> "WALL"
    [] t \notin 1280..1535 /\ is_liquid_tile(t) -> "LIQUID"
    [] is_floor_tile(t) -> "FLOOR"
    [] OTHER -> "DEFAULT"

\* The counts of sampled tiles that tile_summary makes percentages of.
tile_summary(w) ==
  LET Having(P(_)) == Cardinality({t \in w.tiles : P(t.type)})
  IN [total_sampled |-> Cardinality(w.tiles), liquid |-> Having(is_liquid_tile),
      floor |-> Having(is_floor_tile)]

-----------------------------------------------------------------------------
Value(probe) == (CHOOSE v \in probe.prints : TRUE).of

\* The jobs whose own fields and flags do not say the same of a cancellation or a
\* suspension.
Unlike(w) ==
  {j \in w.jobs : \/ j.cancelled # ("cancelled" \in j.flags)
                  \/ j.suspended # ("suspend" \in j.flags)}

(* The three classifications of jobs, one in Python and two in scripts:    *)
(* every job is counted once in each; the cancelled and the suspended are  *)
(* as many in the script, which asks a job's own fields, as in Python, for *)
(* which job_list asks its flags, but for the jobs where the two differ;   *)
(* and a category that one of them draws wider holds all that a narrower   *)
(* one counts, down to the probes of single types.                         *)
JobsAgree ==
  LET counts == Value(job_counts_probe(world))
      summary == Value(job_summary_probe(world))
      states == count_jobs_by_state(world)
      categories == count_jobs_by_category(world)
      all == Value(job_queue_probe(world)).total_jobs
      unlike == Cardinality(Unlike(world))
  IN /\ \A c \in {counts, summary.state_counts, summary.category_counts, states, categories} :
          SumFunction(c) = all
     /\ \A s \in {"cancelled", "suspended"} :
          /\ summary.state_counts[s] <= states[s] + unlike
          /\ states[s] <= summary.state_counts[s] + unlike
     /\ \A c \in Categories \ {"other"} :
          counts[c] <= summary.category_counts[c] /\ summary.category_counts[c] <= categories[c]
     /\ Value(building_construction_probe(world)).construction_jobs <= counts["construction"]
     /\ Value(metal_smelting_probe(world)).smelting_jobs
          <= summary.category_counts["manufacturing"]

(* What Python makes of an observation's items: each listed item is in one *)
(* category, no more are listed than the limit, and their value is that of *)
(* the whole fort if it has no more and never above it.                    *)
ItemsListed ==
  LET all == Cardinality(world.items)
      value == Value(inventory_value_probe(world)).total_inventory_value
  IN /\ SumFunction(count_items_by_category(world)) = IF all <= MaxListed THEN all ELSE MaxListed
     /\ total_inventory_value(world) <= value
     /\ all <= MaxListed => total_inventory_value(world) = value

(* Jobs are classified alike wherever they are, and the summaries of units *)
(* and items count what the labels given one by one say: a civilisation's  *)
(* population is its living and its dead, whoever is dire is severe, the   *)
(* unhappy are the depressed and the miserable, and mastery starts with    *)
(* the tier of masters.                                                    *)
SummariesAgree ==
  /\ JobsAgree
  /\ ItemsListed
  /\ \A c \in DOMAIN units_by_civ_id(world) :
       Value(unit_population_probe(world))[c] =
         Cardinality(units_by_civ_id(world)[c] \cap alive_units(world))
           + Cardinality(units_by_civ_id(world)[c] \cap dead_units(world))
  /\ \A u \in world.units : is_in_dire_need(u) => need_severity(u) >= 100
  /\ LET by == units_by_happiness(world)
         Of(t) == IF t \in DOMAIN by THEN by[t] ELSE 0
     IN unhappy_faction_count(world) = Of("depressed") + Of("miserable")
  /\ mastery_fraction(world)[1] =
       Total(world.units, LAMBDA u :
         Cardinality({s \in u.skills : skill_rank_tier(s.rating) \in {"master", "legendary"}}))

(* unit_population_probe: the count is "of living units belonging to that  *)
(* civ".  Its script asks no unit whether it lives.                        *)
PopulationLives ==
  \A c \in DOMAIN units_by_civ_id(world) :
    Value(unit_population_probe(world))[c] =
      Cardinality(units_by_civ_id(world)[c] \cap alive_units(world))

(* classify_tile_label keeps walls from being taken for liquid, "because   *)
(* this range falls within the >= 1024 liquid boundary".  The share of     *)
(* liquid tiles in a summary counts the tiles that are labelled liquid.    *)
TilesAgree ==
  tile_summary(world).liquid =
    Cardinality({t \in world.tiles : classify_tile_label(t.type) = "LIQUID"})
=============================================================================

------------------------------- MODULE Scenario -------------------------------
(***************************************************************************)
(* Scenario documents as JSON values, what scenario/parse.py accepts and   *)
(* the normal form scenario_document gives of it.  Every section keeps the *)
(* fields its cross checks read and one of each other kind.                *)
(***************************************************************************)
EXTENDS Integers, Sequences, FiniteSets, SequencesExt, TLC

CONSTANTS MaxWindow, MaxSamples,  \* MAX_WINDOW and MAX_GRID_SAMPLES
          MaxStep                 \* an eighth of the shortest period: what events need

\* JSON values; a timestamp is a text that is one.
Object(m) == [members |-> m]
Array(s)  == [items |-> s]
Whole(n)  == [int |-> n]
Real(n)   == [real |-> n]
Text(s)   == [text |-> s]
Time(n)   == [time |-> n]
Flag(b)   == [flag |-> b]
Null      == [null |-> TRUE]
Failed    == [failed |-> TRUE]

Is(kind, v) == DOMAIN v = {kind}
IsNumber(v) == Is("int", v) \/ Is("real", v)
NumberOf(v) == IF Is("int", v) THEN v.int ELSE v.real

\* 15 and 15.0 are the same number, whatever holds them.
RECURSIVE NumbersEqual(_, _)
NumbersEqual(a, b) ==
  CASE IsNumber(a) /\ IsNumber(b) -> NumberOf(a) = NumberOf(b)
    [] Is("members", a) /\ Is("members", b) ->
         DOMAIN a.members = DOMAIN b.members /\ \A k \in DOMAIN a.members : NumbersEqual(a.members[k], b.members[k])
    [] Is("items", a) /\ Is("items", b) ->
         Len(a.items) = Len(b.items) /\ \A i \in DOMAIN a.items : NumbersEqual(a.items[i], b.items[i])
    [] OTHER -> a = b

\* What one token of a pointer names.
Index == [t \in {"0", "1", "2"} |-> CASE t = "0" -> 1 [] t = "1" -> 2 [] t = "2" -> 3]
HasChild(v, t) == \/ Is("members", v) /\ t \in DOMAIN v.members
                  \/ Is("items", v) /\ t \in DOMAIN Index /\ Index[t] <= Len(v.items)
Child(v, t) == IF Is("members", v) THEN v.members[t] ELSE v.items[Index[t]]
At(v, path) == FoldLeft(LAMBDA node, t : IF HasChild(node, t) THEN Child(node, t) ELSE Failed, v, path)

-----------------------------------------------------------------------------
(* The metadata of the fields, and the readers it drives (_Section).       *)

Number(low, high)  == [kind |-> "number", low |-> low, high |-> high]
Integer(low, high) == [kind |-> "integer", low |-> low, high |-> high]
Choice(S)          == [kind |-> "choice", of |-> S]
Kind(k)            == [kind |-> k]
Nullable(s)        == [kind |-> "nullable", of |-> s]
List(s)            == [kind |-> "list", of |-> s, unique |-> FALSE]
UniqueList(s)      == [kind |-> "list", of |-> s, unique |-> TRUE]
Map(s)             == [kind |-> "map", of |-> s]
Section(required, optional) == [kind |-> "section", required |-> required, optional |-> optional]
Default(s, v)      == [kind |-> "default", of |-> s, value |-> v]

StationSection == Section([name |-> Kind("text")],
  [terminal |-> Default(Kind("text"), Text("t")), minimum_elevation_deg |-> Default(Nullable(Number(0, 89)), Null)])
NetworkSection == Section(
  [pairs |-> UniqueList(Section([source |-> Kind("text"), target |-> Kind("text")], <<>>)),
   route_models |-> UniqueList(Choice({"minimum_delay", "maximum_rate", "fixed_capacity"}))],
  [fixed_capacity_bps |-> Default(Nullable(Number(1, 1000)), Null)])
TimeSection == Section([start_utc |-> Kind("time"), stop_utc |-> Kind("time"), step_s |-> Number(1, MaxWindow)],
  [events |-> Default(Kind("flag"), Flag(TRUE)),
   convergence |-> Default(Choice({"error", "warn", "off"}), Text("error"))])
SpaceSection == Section([catalogs |-> List(Kind("text"))],
  [select_norad_ids |-> Default(Nullable(UniqueList(Integer(1, 99))), Null)])
PropagationSection == Section([model |-> Choice({"free_space", "itu_reference"})],
  [hydrometeors |-> Default(Nullable(Map(Number(0, 20))), Null)])
ScenarioSection == Section(
  [time |-> TimeSection, space_segment |-> SpaceSection, propagation |-> PropagationSection,
   terminals |-> Map(Section([gain |-> Number(-100, 100)], <<>>)),
   ground_segment |-> Section([default_minimum_elevation_deg |-> Number(0, 89),
                               stations |-> List(StationSection)], <<>>),
   radio |-> Section([frequency |-> Number(1, 2000), bandwidth |-> Number(1, 1000)], <<>>),
   adaptation |-> Section([symbol_rate |-> Number(1, 1000)], <<>>)],
  [network |-> Default(Nullable(NetworkSection), Null)])

\* A section has its required fields and no unknown one; a list is not empty, 4.0 is an integer.
RECURSIVE Reads(_, _)
Reads(v, s) ==
  CASE s.kind \in {"number", "integer"} -> IsNumber(v) /\ NumberOf(v) \in s.low..s.high
    [] s.kind = "choice" -> Is("text", v) /\ v.text \in s.of
    [] s.kind = "nullable" -> v = Null \/ Reads(v, s.of)
    [] s.kind = "default" -> Reads(v, s.of)
    [] s.kind = "list" ->
         /\ Is("items", v) /\ v.items # <<>>
         /\ \A i \in DOMAIN v.items : Reads(v.items[i], s.of)
         /\ s.unique => \A i, j \in DOMAIN v.items : i < j => ~NumbersEqual(v.items[i], v.items[j])
    [] s.kind = "map" -> Is("members", v) /\ \A k \in DOMAIN v.members : Reads(v.members[k], s.of)
    [] s.kind = "section" ->
         /\ Is("members", v)
         /\ DOMAIN s.required \subseteq DOMAIN v.members
         /\ \A k \in DOMAIN v.members :
              \/ k \in DOMAIN s.required /\ Reads(v.members[k], s.required[k])
              \/ k \in DOMAIN s.optional /\ Reads(v.members[k], s.optional[k])
    [] OTHER -> Is(s.kind, v)

\* Every default explicit, every number a float, every integer an int.
RECURSIVE Filled(_, _)
Filled(v, s) ==
  CASE s.kind = "number" -> Real(NumberOf(v))
    [] s.kind = "integer" -> Whole(NumberOf(v))
    [] s.kind = "nullable" -> IF v = Null THEN Null ELSE Filled(v, s.of)
    [] s.kind = "default" -> Filled(v, s.of)
    [] s.kind = "list" -> Array([i \in DOMAIN v.items |-> Filled(v.items[i], s.of)])
    [] s.kind = "map" -> Object([k \in DOMAIN v.members |-> Filled(v.members[k], s.of)])
    [] s.kind = "section" ->
         Object([k \in (DOMAIN s.required) \union DOMAIN s.optional |->
                   IF k \in DOMAIN s.required THEN Filled(v.members[k], s.required[k])
                   ELSE IF k \in DOMAIN v.members THEN Filled(v.members[k], s.optional[k])
                   ELSE s.optional[k].value])
    [] OTHER -> v

-----------------------------------------------------------------------------
(* The checks across fields.                                               *)

Start(d) == At(d, <<"time", "start_utc">>).time
Stop(d)  == At(d, <<"time", "stop_utc">>).time
StepOf(d) == NumberOf(At(d, <<"time", "step_s">>))
Samples(d) == -((-(Stop(d) - Start(d))) \div StepOf(d)) + 1
Stations(d) == At(d, <<"ground_segment", "stations">>).items
StationNames(d) == [i \in DOMAIN Stations(d) |-> At(Stations(d)[i], <<"name">>).text]
Network(d) == At(d, <<"network">>)
RouteModelsOf(d) == [i \in DOMAIN At(Network(d), <<"route_models">>).items |->
                       At(Network(d), <<"route_models">>).items[i].text]

IsTime(d) == /\ 0 < Stop(d) - Start(d) /\ Stop(d) - Start(d) <= MaxWindow
             /\ StepOf(d) <= Stop(d) - Start(d)
             /\ Samples(d) <= MaxSamples

IsModel(d) == At(d, <<"propagation", "model">>).text = "itu_reference"
Masked(station, d) ==
  LET mask == At(station, <<"minimum_elevation_deg">>)
  IN IF mask = Null THEN At(d, <<"ground_segment", "default_minimum_elevation_deg">>) ELSE mask

IsGround(d) ==
  /\ IsInjective(StationNames(d))
  /\ \A i \in DOMAIN Stations(d) :
       /\ At(Stations(d)[i], <<"terminal">>).text \in DOMAIN At(d, <<"terminals">>).members
       /\ IsModel(d) => NumberOf(Masked(Stations(d)[i], d)) >= 5

IsPropagation(d) ==
  LET states == At(d, <<"propagation", "hydrometeors">>)
      frequency == NumberOf(At(d, <<"radio", "frequency">>))    \* in GHz
  IN /\ IsModel(d) => frequency <= 1000
     /\ states # Null => /\ IsModel(d) /\ frequency <= 200
                         /\ DOMAIN states.members = Range(StationNames(d))

IsNetwork(d) ==
  LET models == RouteModelsOf(d)
  IN Network(d) # Null =>
       /\ \A p \in Range(At(Network(d), <<"pairs">>).items) :
            /\ At(p, <<"source">>).text \in Range(StationNames(d))
            /\ At(p, <<"target">>).text \in Range(StationNames(d))
            /\ At(p, <<"source">>) # At(p, <<"target">>)
       /\ ("fixed_capacity" \in Range(models)) = (At(Network(d), <<"fixed_capacity_bps">>) # Null)

\* A station without a mask takes the default's value, for good: the normal form has no null mask.
WithMasks(d) ==
  LET stations == [i \in DOMAIN Stations(d) |->
        Object([Stations(d)[i].members EXCEPT !["minimum_elevation_deg"] = Masked(Stations(d)[i], d)])]
  IN Object([d.members EXCEPT !["ground_segment"] =
               Object([d.members["ground_segment"].members EXCEPT !["stations"] = Array(stations)])])

\* parse_scenario, then scenario_document.
IsScenario(d) ==
  /\ IsTime(d)
  /\ NumberOf(At(d, <<"radio", "bandwidth">>)) >= NumberOf(At(d, <<"adaptation", "symbol_rate">>))
  /\ IsPropagation(d) /\ IsGround(d) /\ IsNetwork(d)

Normalised(d) == IF IsScenario(d) THEN WithMasks(d) ELSE Failed
Parsed(doc) == IF Reads(doc, ScenarioSection) THEN Normalised(Filled(doc, ScenarioSection)) ELSE Failed
=============================================================================

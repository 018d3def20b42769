------------------------------ MODULE Documents ------------------------------
(***************************************************************************)
(* A small scenario and specifications over it, for the instances that     *)
(* expand sweeps.                                                          *)
(***************************************************************************)
EXTENDS Sweep

StationA == Object([name |-> Text("a")])
StationB == Object([name |-> Text("b"), minimum_elevation_deg |-> Whole(5), terminal |-> Text("u")])
Terminal == Object([gain |-> Whole(3)])
Pair == Object([source |-> Text("a"), target |-> Text("b")])
BaseDocument == Object(
  [time |-> Object([start_utc |-> Time(0), stop_utc |-> Time(8), step_s |-> Whole(2)]),
   space_segment |-> Object([catalogs |-> Array(<<Text("gp")>>)]),
   terminals |-> Object([t |-> Terminal, T |-> Terminal, u |-> Terminal]),
   ground_segment |-> Object([default_minimum_elevation_deg |-> Whole(10),
                              stations |-> Array(<<StationA, StationB>>)]),
   radio |-> Object([frequency |-> Whole(20), bandwidth |-> Whole(40)]),
   adaptation |-> Object([symbol_rate |-> Whole(30)]),
   propagation |-> Object([model |-> Text("free_space")]),
   network |-> Object([pairs |-> Array(<<Pair>>),
                       route_models |-> Array(<<Text("minimum_delay"), Text("maximum_rate")>>)])])

StepPath == <<"time", "step_s">>
StopPath == <<"time", "stop_utc">>
DefaultMask == <<"ground_segment", "default_minimum_elevation_deg">>
First == <<"ground_segment", "stations", "0">>
FirstMask == First \o <<"minimum_elevation_deg">>
SecondMask == <<"ground_segment", "stations", "1", "minimum_elevation_deg">>
SecondTerminal == <<"ground_segment", "stations", "1", "terminal">>
Model == <<"propagation", "model">>
Rain == <<"propagation", "hydrometeors">>
Net == <<"network">>
Bandwidth == <<"radio", "bandwidth">>
Gate1 == <<"time", "convergence">>

Rained == Object([a |-> Whole(1), b |-> Whole(2)])
Par(path, nominal, values) == [path |-> path, nominal |-> nominal, values |-> values]
Nums(s) == [i \in DOMAIN s |-> Whole(s[i])]

Sweeping(mode, parameters, variants, window, replay) ==
  [mode |-> mode, parameters |-> parameters, variants |-> variants, window |-> window, replay |-> replay,
   max_runs |-> MaxRuns]
GridOf(parameters, window) == Sweeping("grid", parameters, <<>>, window, NoReplay)
OatOf(parameters, window) == Sweeping("oat", parameters, <<>>, window, NoReplay)
Variant(id, patch, baseline) == [id |-> id, patch |-> patch, baseline |-> baseline]
VariantsOf(variants, window) == Sweeping("variants", <<>>, variants, window, NoReplay)
Op(op, path, value) == [op |-> op, path |-> path, value |-> value]
=============================================================================

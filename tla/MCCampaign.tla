------------------------------ MODULE MCCampaign ------------------------------
(***************************************************************************)
(* Small campaigns: sweeps of every mode with what a specification gets    *)
(* wrong, replays with and without backends, and engine runs that fail.    *)
(***************************************************************************)
EXTENDS Campaign, Documents

MCFoldedText == [t \in {"T", "X"} |-> CASE t = "T" -> "t" [] t = "X" -> "x"]
MCDottedText == {"x."}
MCCatalogIds == [archived |-> <<7, 3, 5>>, edited |-> <<7, 3, 5, 3>>]
MCMetrics == [bits |-> [class |-> "link", absolute |-> 1, count |-> FALSE],
              passes |-> [class |-> "station", absolute |-> 0, count |-> TRUE],
              delay |-> [class |-> "route", absolute |-> 0, count |-> FALSE]]
MCOutcomes == {[bits |-> b, passes |-> p, delay |-> d] :
                 b \in {<<20, 22>>, <<20, 30>>}, p \in {<<1, 1>>}, d \in {<<NaN, NaN>>, <<NaN, 5>>}}
               \union {[bits |-> <<0, 1>>, passes |-> <<10, 11>>, delay |-> <<5, 5>>]}

Middle == [offset |-> 2, duration |-> 4]
Beyond == [offset |-> 6, duration |-> 4]
Windows == {NoWindow, Middle}

Grids == {
  <<Par(StepPath, Null, Nums(<<1, 2>>)), Par(FirstMask, Null, Nums(<<5, 15>>))>>,
  <<Par(FirstMask, Null, Nums(<<5, 15>>)), Par(First, Null, <<StationA>>)>>,
  <<Par(First, Null, <<StationA, StationB>>), Par(FirstMask, Null, Nums(<<5, 15>>))>>,
  <<Par(FirstMask, Null, <<Whole(15), Real(15)>>)>>,
  <<Par(DefaultMask, Null, Nums(<<5, 20>>)), Par(SecondMask, Null, <<Null, Whole(20)>>)>>,
  <<Par(StepPath, Null, Nums(<<1, 5>>))>>,
  <<Par(StopPath, Null, <<Time(6), Time(8)>>)>>,
  <<Par(Net, Null, <<Null, Object([pairs |-> Array(<<Pair>>), route_models |-> Array(<<Text("maximum_rate")>>)])>>)>>,
  <<Par(Bandwidth, Null, Nums(<<20, 40>>))>>,
  <<Par(<<"radio", "power">>, Null, Nums(<<20, 40>>))>>,
  <<Par(Model, Null, <<Text("itu_reference")>>), Par(Rain, Null, <<Null, Rained>>)>>,
  <<Par(StepPath, Null, Nums(<<1, 2>>)), Par(FirstMask, Null, Nums(<<5, 15, 20>>))>>}

Oats == {
  <<Par(FirstMask, Whole(10), Nums(<<10, 5, 15>>)), Par(StepPath, Real(2), Nums(<<1>>))>>,
  <<Par(FirstMask, Whole(5), Nums(<<15>>))>>,
  <<Par(FirstMask, Whole(10), <<Real(10)>>)>>,
  <<Par(SecondTerminal, Text("u"), <<Text("t"), Text("T")>>)>>,
  <<Par(Model, Text("free_space"), <<Text("itu_reference")>>)>>,
  <<Par(Rain, Null, <<Rained>>)>>}

Lists == {
  <<Variant("x", <<>>, FALSE), Variant("y", <<Op("replace", FirstMask, Whole(5))>>, TRUE)>>,
  <<Variant("x", <<>>, TRUE), Variant("y", <<>>, TRUE)>>,
  <<Variant("x", <<>>, FALSE), Variant("x", <<>>, FALSE)>>,
  <<Variant("x", <<>>, FALSE), Variant("X", <<>>, FALSE)>>,
  <<Variant("x.", <<>>, FALSE)>>,
  <<Variant("x", <<Op("remove", SecondMask, Null), Op("remove", First, Null), Op("remove", Net, Null)>>, FALSE)>>,
  <<Variant("x", <<Op("add", <<"ground_segment", "stations", "-">>, Object([name |-> Text("c")])),
                   Op("add", First, Object([name |-> Text("d")]))>>, FALSE)>>,
  <<Variant("x", <<Op("add", <<"ground_segment", "stations", "2">>, StationA)>>, FALSE)>>,
  <<Variant("x", <<Op("remove", First, Null)>>, FALSE)>>,
  <<Variant("x", <<Op("remove", Rain, Null), Op("remove", Rain, Null)>>, FALSE)>>,
  <<Variant("x", <<Op("replace", <<"time">>, Null)>>, FALSE)>>}

Designs == {GridOf(g, w) : g \in Grids, w \in Windows} \union {OatOf(o, w) : o \in Oats, w \in Windows}
             \union {VariantsOf(l, w) : l \in Lists, w \in Windows}
             \union {GridOf(<<Par(FirstMask, Null, Nums(<<5>>))>>, Beyond)}

Campaigning(spec_, workers, faults, backends, release) ==
  [base |-> BaseDocument, spec |-> spec_, workers |-> workers, faults |-> faults,
   backends |-> backends, release |-> release]
Both == {"link", "network"}

Replays == {[link |-> l, network |-> n, models |-> m, station |-> "a"] :
              l \in {<<>>, <<1, 2>>}, n \in {<<>>, <<1>>}, m \in {<<>>, <<"maximum_rate">>}}
MaskPair == <<Par(FirstMask, Null, Nums(<<5, 15>>))>>
Replayed(window) == {Sweeping("grid", MaskPair, <<>>, window, r) : r \in Replays}
NetReplay == [link |-> <<>>, network |-> <<1>>, models |-> <<>>, station |-> "a"]

\* The convergence mode and the satellites are the base's; the grid varies the mode.
Modes == <<Par(Gate1, Null, <<Text("error"), Text("off")>>)>>
Chosen(ids) == <<Variant("x", <<Op("replace", <<"space_segment", "select_norad_ids">>, Array(Nums(ids)))>>, FALSE)>>

MCCampaigns ==
  {Campaigning(d, 1, {}, {}, FALSE) : d \in Designs}
    \union {Campaigning(d, 1, {"rival", "replay", "packets"}, b, r) :
              d \in Replayed(Middle) \union Replayed(NoWindow), b \in SUBSET Both, r \in BOOLEAN}
    \union {Campaigning(Sweeping("grid", <<Par(Net, Null, <<Null>>)>>, <<>>, Middle, NetReplay), 1, {}, Both, FALSE)}
    \union {Campaigning(GridOf(Modes, NoWindow), w, f, {}, FALSE) :
              w \in {1, 2}, f \in {{"catalog", "stage"}, {"cancel", "death"}}}
    \union {Campaigning(VariantsOf(Chosen(ids), NoWindow), 3, {"catalog", "death"}, {}, FALSE) :
              ids \in {<<3, 7>>, <<3, 4>>, <<5>>}}
=============================================================================

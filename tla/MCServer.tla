------------------------------- MODULE MCServer -------------------------------
(***************************************************************************)
(* Two threads and one kind of request for the rate limit; one thread and  *)
(* every kind of body and bad header for the queue; and two threads that   *)
(* read files while they go.                                               *)
(***************************************************************************)
EXTENDS Server, Documents

CONSTANTS h1, h2

MCFoldedText == [t \in {} |-> t]

\* A specification as a client writes it, with nothing but what its mode asks for.
Pointer(path) == [pointer |-> path]
List_(s, Written(_)) == Array([i \in DOMAIN s |-> Written(s[i])])
WrittenParameter(p) == [path |-> Pointer(p.path), values |-> Array(p.values)]
WrittenNominal(p) == Object([nominal |-> p.nominal] @@ WrittenParameter(p))
WrittenValues(p) == Object(WrittenParameter(p))
WrittenOperation(op) ==
  Object([op |-> Text(op.op), path |-> Pointer(op.path)] @@ IF op.op = "remove" THEN <<>> ELSE [value |-> op.value])
WrittenVariant(v) ==
  Object([id |-> Text(v.id), patch |-> List_(v.patch, WrittenOperation)]
           @@ IF v.baseline THEN [baseline |-> Flag(TRUE)] ELSE <<>>)
Written(spec) ==
  Object([name |-> Text("s"), mode |-> Text(spec.mode)]
           @@ CASE spec.mode = "variants" -> [variants |-> List_(spec.variants, WrittenVariant)]
                [] spec.mode = "oat" -> [parameters |-> List_(spec.parameters, WrittenNominal)]
                [] spec.mode = "grid" -> [parameters |-> List_(spec.parameters, WrittenValues)])
Besides(document, more) == Object(more @@ document.members)

Good == [host |-> "own", origin |-> "own", path |-> "index", method |-> "GET", token |-> "own",
         type |-> "json", encoding |-> "none", length |-> "right", kind |-> "run", body |-> Failed]
Get(path, kind) == [Good EXCEPT !.path = path, !.kind = kind]
Post(path, body) == [Good EXCEPT !.path = path, !.method = "POST", !.body = body]

With(doc, path, value) == Replaced(doc, path, value)
Selected == Object([catalogs |-> Array(<<Text("gp")>>), select_norad_ids |-> Array(<<Whole(3)>>)])
Elsewhere == With(BaseDocument, <<"space_segment">>, Selected)
TooLong == With(BaseDocument, StopPath, Time(9))

MaskGrid == GridOf(<<Par(FirstMask, Null, Nums(<<5, 15>>))>>, NoWindow)
Catalogs == <<"space_segment", "catalogs">>
Selection == <<"space_segment", "select_norad_ids">>
Designs == {GridOf(<<Par(FirstMask, Null, Nums(<<5, 5>>))>>, NoWindow),
            GridOf(<<Par(FirstMask, Null, Nums(<<5, 95>>))>>, NoWindow),
            GridOf(<<Par(Selection, Null, <<Null, Array(<<Whole(3)>>)>>)>>, NoWindow),
            OatOf(<<Par(Rain, Null, <<Rained>>), Par(FirstMask, Real(10), Nums(<<10, 15>>))>>, NoWindow),
            OatOf(<<Par(FirstMask, Whole(5), Nums(<<15>>))>>, NoWindow),
            VariantsOf(<<Variant("x", <<Op("add", Selection, Array(<<Whole(3)>>))>>, FALSE)>>, NoWindow),
            VariantsOf(<<Variant("x", <<Op("add", Catalogs \o <<"-">>, Text("gp2"))>>, FALSE)>>, NoWindow),
            VariantsOf(<<Variant("x", <<>>, FALSE), Variant("y", <<Op("remove", Net, Null)>>, TRUE)>>, NoWindow)}

\* What is null, absent or in the wrong place: a design of another mode that holds null, blocks that
\* are null, a replay of one kind or of none, a label that is null.
Grid == Written(MaskGrid)
Listed == Written(VariantsOf(<<Variant("x", <<>>, FALSE)>>, NoWindow))
Window(offset, duration) == Object([start_offset_s |-> Whole(offset), duration_s |-> Whole(duration)])
NetworkLoads == Object([loads_bps |-> Array(Nums(<<1, 2>>))])
LinkLoads == Object([station |-> Text("a"), loads_bps |-> Array(<<Real(1)>>)])
Blocks ==
  {[window |-> Null, replay |-> Null], [window |-> Window(2, 4)], [window |-> Window(0, 6)],
   [window |-> Window(2, 4), replay |-> Object([link |-> Null, network |-> NetworkLoads])],
   [window |-> Window(2, 4), replay |-> Object([link |-> LinkLoads])],
   [window |-> Window(2, 6), replay |-> Object([link |-> LinkLoads])],
   [window |-> Window(2, 4), replay |-> Object([network |-> Besides(NetworkLoads, [routing_models |-> Null])])],
   [replay |-> Object([link |-> Null, network |-> Null])], [replay |-> Object(<<>>)],
   [max_runs |-> Whole(1)], [max_runs |-> Whole(2)], [max_runs |-> Null], [base_scenario |-> Text("own")]}
Specs == {Written(d) : d \in Designs} \union {Besides(Grid, b) : b \in Blocks}
           \union {Grid, Besides(Grid, [variants |-> Null]), Besides(Listed, [parameters |-> Null]), Null,
                   Besides(Listed, [window |-> Null, replay |-> Null]),
                   Besides(Grid, [parameters |-> Null]),
                   Besides(Listed, [variants |-> Array(<<Object([id |-> Text("x"), patch |-> Array(<<>>), label |-> Null])>>)])}

Bodies == {Post("runs", Object([scenario |-> d])) : d \in {BaseDocument, Elsewhere, TooLong, Parsed(BaseDocument)}}
            \union {Post("validate", Object([scenario |-> d])) : d \in {BaseDocument, Elsewhere, TooLong}}
            \union {Post("sweeps", Object([spec |-> s])) : s \in Specs}
            \union {Post("sweeps", Object([spec |-> Grid, scenario |-> d])) : d \in {Elsewhere, TooLong}}
            \union {Post("sweeps", Object([spec |-> Grid, base_scenario |-> Null])), Post("runs", Object(<<>>))}

RunBase == Post("runs", Object([scenario |-> BaseDocument]))
Bad == {[RunBase EXCEPT !.host = "other"], [RunBase EXCEPT !.origin = "other"],
        [RunBase EXCEPT !.token = "other"], [RunBase EXCEPT !.method = "GET"],
        [RunBase EXCEPT !.type = "text"], [RunBase EXCEPT !.encoding = "chunked"],
        [RunBase EXCEPT !.body = Failed], [RunBase EXCEPT !.path = "unknown"]}
       \union {[RunBase EXCEPT !.length = l] : l \in {"none", "invalid", "too long", "longer than sent", "cut off"}}

Reads_ == {Get(p, k) : p \in {"status", "results", "table"}, k \in {"run", "sweep"}} \union {Get("sweep run", "sweep")}

MCSetups == {[requests |-> {Good}, threads |-> Handlers, most |-> 5, ticks |-> 5],
             [requests |-> Bodies \union Bad, threads |-> {h1}, most |-> 2, ticks |-> 0],
             [requests |-> {RunBase, Post("sweeps", Object([spec |-> Grid]))} \union Reads_, threads |-> {h1, h2}, most |-> 2, ticks |-> 0]}
=============================================================================

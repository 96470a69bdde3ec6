----------------------------- MODULE MCGeoRecord -----------------------------
(***************************************************************************)
(* GeoRecord over every small block of names, in each of the places that   *)
(* may have one, and over numbers of all types at the edges of the ranges. *)
(***************************************************************************)
EXTENDS GeoRecord

\* The maps with some of the keys of f, each with one of the values for it.
Maps(f) ==
  UNION {{Map(g) : g \in {h \in [K -> UNION Range(f)] : \A k \in K : h[k] \in f[k]}}
         : K \in SUBSET DOMAIN f}

Padded(core) == [Text(core) EXCEPT !.padded = TRUE]
Lower(core)  == [Text(core) EXCEPT !.lower = TRUE]
Flag == [type |-> "bool"]

Names  == Maps([en |-> {Padded("A"), Padded(""), Flag}, de |-> {Text("B"), Blank}, fr |-> {Text("B"), Text("C"), Flag}])
Blocks == Maps([names |-> Names \cup {Text("A")}, name |-> {Padded("N")}])
Few    == {Map([names |-> Map([en |-> Text("A"), de |-> Text("B")]), iso_code |-> Lower("X")]),
           Map([names |-> Map([de |-> Text("B"), fr |-> Text("C")])]), Map([iso_code |-> Padded("")])}

Countries == Maps([country |-> Blocks \cup Few \cup {Padded("P"), Flag}, country_code |-> {Lower("Y")},
                   country_name |-> {Text("Q")}])
Cities == Maps([city |-> Blocks \cup {Padded("P"), Flag}, country |-> Few])
Slices == {[type |-> "slice", at |-> s] : s \in {<<>>, <<Flag>>} \cup {<<b>> : b \in Blocks \cup Few}}
Regions == Maps([subdivisions |-> Slices \cup {Flag}, region |-> {Padded("R")}, city |-> Few])

Numbers(S) == {Number("float64", n) : n \in S} \cup {NotFinite("float64")}
Latitudes  == Numbers({-181, -180, -1, 0, 180, 181}) \cup {Number("int", 2), Text("2")}
Longitudes == Numbers({-361, -360, 0, 1, 360, 361}) \cup {Number("float32", 3), Flag}
Radii      == Numbers({-1, 0, 1, 6, 7}) \cup {Number("uint64", 4), Number("int64", 5), Text("1")}
Locations  == {Map([location |-> l]) :
                 l \in Maps([latitude |-> Latitudes, longitude |-> Longitudes, accuracy_radius |-> Radii])}

MCRecords == Countries \cup Cities \cup Regions \cup Locations \cup {Nil, NoReader, Corrupt}
=============================================================================

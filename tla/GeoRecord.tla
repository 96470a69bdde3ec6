------------------------------ MODULE GeoRecord ------------------------------
(***************************************************************************)
(* geoip.Reader.Lookup (geoip/geoip.go): one record of a database, looked  *)
(* up again and again.  Decoded values are tagged with the type that       *)
(* mapRecord branches on.  A string is its text, whether blanks surround   *)
(* it and whether it has lower-case letters; a number is counted in half   *)
(* degrees or half kilometres, so that fractions occur.                    *)
(* localizedName ranges over a Go map, in an order that is chosen anew for *)
(* every call: it may return any of the names, so mapRecord has a set of   *)
(* results.                                                                *)
(***************************************************************************)
EXTENDS Integers, Sequences, FiniteSets, Functions

CONSTANTS
  Addresses,             \* the kinds of address asked for
  Records,               \* what the database may say of the address
  MaxLookups,            \* bound on the Lookups of a behaviour
  maxAccuracyRadiusKm

ASSUME LookupBounds == MaxLookups \in Nat /\ maxAccuracyRadiusKm \in Nat

VARIABLES
  record,    \* what the database holds for the address
  answers    \* the Locations that were returned for it, in order

lookupVars == <<record, answers>>

-----------------------------------------------------------------------------
\* Decoded values; at is the contents of a map or of a slice.
Nil        == [type |-> "nil"]
Map(f)     == [type |-> "map", at |-> f]
Text(core) == [type |-> "string", core |-> core, padded |-> FALSE, lower |-> FALSE]
Blank      == Text("")
Number(type, halves) == [type |-> type, finite |-> TRUE, halves |-> halves]
NotFinite(type)      == [type |-> type, finite |-> FALSE]

IsMap(v) == v.type = "map"

\* Indexing a Go map.
Get(m, key) == IF key \in DOMAIN m.at THEN m.at[key] ELSE Nil

\* Any value as a string, without the blanks around it.
str(v) == IF v.type = "string" THEN [v EXCEPT !.padded = FALSE] ELSE Blank

ToUpper(s) == [s EXCEPT !.lower = FALSE]

-----------------------------------------------------------------------------
\* localizedName: English first, else any name there is.
Named(names) == {l \in DOMAIN names.at : str(names.at[l]) # Blank}

localizedName_Trusting(m) ==
  LET names == Get(m, "names")
  IN  IF ~IsMap(names) THEN {str(Get(m, "name"))}
      ELSE IF "en" \in DOMAIN names.at THEN {str(names.at["en"])}
      ELSE IF Named(names) = {} THEN {Blank}
      ELSE {str(names.at[l]) : l \in Named(names)}

localizedName_NoEnglish(m) ==
  LET names == Get(m, "names")
  IN  IF ~IsMap(names) THEN {str(Get(m, "name"))}
      ELSE IF Named(names) = {} THEN {Blank}
      ELSE {str(names.at[l]) : l \in Named(names)}

localizedName(m) ==
  LET names == Get(m, "names")
  IN  IF ~IsMap(names) THEN {str(Get(m, "name"))}
      ELSE IF str(Get(names, "en")) # Blank THEN {str(Get(names, "en"))}
      ELSE IF Named(names) = {} THEN {Blank}
      ELSE {str(names.at[l]) : l \in Named(names)}

\* localizedNames: the names by locale, or none (the empty function) unless
\* there are two.
NoNames == <<>>

localizedNames(m) ==
  LET names == Get(m, "names")
  IN  IF ~IsMap(names) \/ Cardinality(Named(names)) < 2 THEN NoNames
      ELSE [l \in Named(names) |-> str(names.at[l])]

-----------------------------------------------------------------------------
\* number: what counts as one.
NumberTypes == {"float64", "float32", "uint64", "int", "int64"}
IsNumber(v) == v.type \in NumberTypes /\ v.finite

\* coordinates: the pair is validated together, the radius goes with it.
NoPlace == [Latitude |-> 0, Longitude |-> 0, AccuracyRadiusKm |-> 0]

Within(v, degrees) == IsNumber(v) /\ v.halves \in -(2 * degrees)..(2 * degrees)

\* The radius, rounded up; out of range, none.
RadiusKm(r) ==
  IF IsNumber(r) /\ r.halves \in 0..(2 * maxAccuracyRadiusKm) THEN (r.halves + 1) \div 2 ELSE 0

coordinates_Halves(loc) ==
  LET lat == Get(loc, "latitude")
      lon == Get(loc, "longitude")
  IN  IF ~Within(lat, 90) /\ ~Within(lon, 180) THEN NoPlace
      ELSE [Latitude |-> IF Within(lat, 90) THEN lat.halves ELSE 0,
            Longitude |-> IF Within(lon, 180) THEN lon.halves ELSE 0,
            AccuracyRadiusKm |-> RadiusKm(Get(loc, "accuracy_radius"))]
coordinates(loc) ==
  LET lat == Get(loc, "latitude")
      lon == Get(loc, "longitude")
  IN  IF ~Within(lat, 90) \/ ~Within(lon, 180) THEN NoPlace
      ELSE IF lat.halves = 0 /\ lon.halves = 0 THEN NoPlace
      ELSE [Latitude |-> lat.halves, Longitude |-> lon.halves,
            AccuracyRadiusKm |-> RadiusKm(Get(loc, "accuracy_radius"))]

-----------------------------------------------------------------------------
\* A place that a record may give as a map of names or as a plain string: the
\* names it may be shown under, and those by locale.
Block(m) == [shown |-> localizedName(m), localized |-> localizedNames(m)]
Plain(s) == [shown |-> {s}, localized |-> NoNames]

\* The branches of mapRecord.  The name in the ipinfo schema is taken as it is.
CountryOf(rec) ==
  LET c == Get(rec, "country")
  IN  IF IsMap(c) THEN Block(c)
      ELSE IF c.type = "string" THEN Plain(c)
      ELSE Plain(str(Get(rec, "country_name")))

CountryCodeOf(rec) ==
  LET c == Get(rec, "country")
  IN  ToUpper(IF IsMap(c) /\ str(Get(c, "iso_code")) # Blank THEN str(Get(c, "iso_code"))
              ELSE str(Get(rec, "country_code")))

CityOf(rec) ==
  IF IsMap(Get(rec, "city")) THEN Block(Get(rec, "city")) ELSE Plain(str(Get(rec, "city")))

\* The outermost subdivision, if the record has one that is a map.
FirstSubdivision(rec) ==
  LET subs == Get(rec, "subdivisions")
  IN  IF subs.type = "slice" /\ subs.at # <<>> /\ IsMap(subs.at[1]) THEN subs.at[1] ELSE Map(<<>>)

RegionOf(rec) ==
  LET first == Block(FirstSubdivision(rec))
  IN  [first EXCEPT !.shown = {IF s = Blank THEN str(Get(rec, "region")) ELSE s : s \in first.shown}]


\* setLocalized, for the three places: LocalizedNames is made when there is a
\* first map to keep; three empty maps here are a nil pointer there.
setLocalized(country, region, city) == [Country |-> country, Region |-> region, City |-> city]

Zero == [CountryCode |-> Blank, Country |-> Blank, City |-> Blank, Region |-> Blank,
         RegionCode |-> Blank, Place |-> NoPlace,
         LocalizedNames |-> setLocalized(NoNames, NoNames, NoNames)]

\* mapRecord: the Locations that a record may come out as.
mapRecord(rec) ==
  IF rec = Nil THEN {Zero}
  ELSE LET loc == Get(rec, "location")
       IN  [CountryCode : {CountryCodeOf(rec)},
            Country : CountryOf(rec).shown, City : CityOf(rec).shown, Region : RegionOf(rec).shown,
            RegionCode : {ToUpper(str(Get(FirstSubdivision(rec), "iso_code")))},
            Place : {IF IsMap(loc) THEN coordinates(loc) ELSE NoPlace},
            LocalizedNames : {setLocalized(CountryOf(rec).localized, RegionOf(rec).localized,
                                           CityOf(rec).localized)}]

-----------------------------------------------------------------------------
NoReader == [type |-> "no reader"]
Corrupt  == [type |-> "corrupt"]

\* External: what the database's decoder can yield for an address.  Its maps
\* are finite, and a number that is finite has a value.
FiniteNames(m) == IsMap(m) /\ IsMap(Get(m, "names")) => IsFiniteSet(DOMAIN Get(m, "names").at)
HasValue(v) == IsNumber(v) => v.halves \in Int

Decodable(rec) ==
  \/ rec \in {Nil, NoReader, Corrupt}
  \/ /\ IsMap(rec)
     /\ FiniteNames(Get(rec, "country")) /\ FiniteNames(Get(rec, "city"))
     /\ FiniteNames(FirstSubdivision(rec))
     /\ IsMap(Get(rec, "location")) =>
          \A key \in {"latitude", "longitude", "accuracy_radius"} :
            HasValue(Get(Get(rec, "location"), key))

ASSUME RecordsType == \A rec \in Records : Decodable(rec)

\* The kinds of address that no database has.
IsResolvable(ip) ==
  ip \notin {"unparseable", "loopback", "private", "unspecified", "link-local", "multicast"}

LookupInit == record \in Records /\ answers = <<>>

\* Lookup, on a nil Reader too.  An address that is not to be looked up, and
\* one the database does not know, are answered with a zero Location.
Lookup(ip) ==
  /\ Len(answers) < MaxLookups
  /\ \E loc \in IF record \in {NoReader, Corrupt} \/ ~IsResolvable(ip) THEN {Zero}
                ELSE mapRecord(record) :
       answers' = Append(answers, [ip |-> ip, loc |-> loc,
                                   failed |-> record = Corrupt /\ IsResolvable(ip)])
  /\ UNCHANGED record

LookupNext == \E ip \in Addresses : Lookup(ip)

LookupSpec == LookupInit /\ [][LookupNext]_lookupVars

-----------------------------------------------------------------------------
Found == {answers[i].loc : i \in {j \in DOMAIN answers : IsResolvable(answers[j].ip)}}
Whole == IsMap(record)

\* A place that is shown, against the location block it is read from.
PlaceOf(p, at) ==
  LET In(key) == IF IsMap(at) THEN Get(at, key) ELSE Nil
      lat  == In("latitude")
      lon  == In("longitude")
      r    == In("accuracy_radius")
      pair == /\ IsNumber(lat) /\ lat.halves >= -180 /\ lat.halves <= 180
              /\ IsNumber(lon) /\ lon.halves >= -360 /\ lon.halves <= 360
  IN  /\ <<p.Latitude, p.Longitude>> =
            IF pair THEN <<lat.halves, lon.halves>> ELSE <<0, 0>>
      /\ p.AccuracyRadiusKm # 0 => /\ <<p.Latitude, p.Longitude>> # <<0, 0>>
                                   /\ IsNumber(r)
                                   /\ p.AccuracyRadiusKm <= maxAccuracyRadiusKm
      /\ IsNumber(r) /\ <<p.Latitude, p.Longitude>> # <<0, 0>> =>
           \/ r.halves \notin 0..(2 * maxAccuracyRadiusKm) /\ p.AccuracyRadiusKm = 0
           \/ 2 * p.AccuracyRadiusKm >= r.halves /\ 2 * (p.AccuracyRadiusKm - 1) < r.halves

\* "Latitude and Longitude are a pair, set together or not at all, and (0, 0)
\* means there are none" (geoip.go:51-52), "the radius is returned only alongside a
\* pair" and "never claims more precision than the database did" (geoip.go:
\* 291-294): a place that is shown is the record's own pair, whichever of the
\* numeric types it came in, a usable pair is always shown, and the radius is
\* the least whole number that is not below the record's.
PairOrNothing ==
  \A loc \in Found : PlaceOf(loc.Place, IF Whole THEN Get(record, "location") ELSE Nil)

\* Whatever order the names were visited in, the name that is shown is one of
\* those that go with it by locale, and the English one if that is among them
\* ("extracts the English display name", geoip.go:335); names by locale are there
\* only with "an alternate language" (geoip.go:76-78), and never blank.
NamesAgree ==
  \A loc \in Found :
    \A place \in {"Country", "Region", "City"} :
      LET byLocale == loc.LocalizedNames[place]
      IN  byLocale # NoNames =>
            /\ loc[place] \in Range(byLocale)
            /\ "en" \in DOMAIN byLocale => loc[place] = byLocale["en"]
            /\ Cardinality(DOMAIN byLocale) >= 2 /\ Blank \notin Range(byLocale)

\* "this only needs to be stable" (geoip.go:338-339): a record looked up again
\* gives the same answer, but for a place that has several names of which none
\* is English.
StableUnlessForeign ==
  \A a, b \in Found :
    \A place \in {"Country", "Region", "City"} :
      a[place] # b[place] =>
        /\ "en" \notin DOMAIN a.LocalizedNames[place]
        /\ Cardinality(Range(a.LocalizedNames[place])) >= 2
=============================================================================

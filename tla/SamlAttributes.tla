--------------------------- MODULE SamlAttributes ---------------------------
(***************************************************************************)
(* The attribute loop of assertionFromCrewjam (saml/assertion.go): what    *)
(* one <Attribute> element adds to Assertion.Attributes and                *)
(* Assertion.AttributesByName.                                             *)
(*                                                                         *)
(* A Go slice is a record of its values and the backing array they are in, *)
(* 0 for the nil slice.  Arrays are numbered as they are allocated.        *)
(***************************************************************************)
EXTENDS Integers, Sequences

\* The locals of the loop: both maps, the keys seen (strict only), how many
\* arrays were allocated, and whether the loop returned ErrDuplicateAttribute.
NoAttributes ==
  [byName |-> [k \in {} |-> <<>>], merged |-> [k \in {} |-> <<>>], seen |-> {},
   arrays |-> 0, failed |-> FALSE]

\* The nil slice, which a lookup of an absent key yields.
Lookup(map, key) == IF key \in DOMAIN map THEN map[key] ELSE [vals |-> <<>>, array |-> 0]

\* append(slice, vals...): nothing to append leaves the slice alone, a nil
\* slice gets an array of its own.  (A slice that has one may move to a larger
\* one: it is still its own.)
AppendTo_Assigns(slice, vals, arrays) ==
  IF slice.array = 0 THEN vals ELSE [slice EXCEPT !.vals = @ \o vals.vals]
AppendTo(slice, vals, arrays) ==
  CASE vals.vals = <<>> -> slice
    [] vals.vals # <<>> /\ slice.array = 0 -> [vals |-> vals.vals, array |-> arrays + 1]
    [] OTHER -> [slice EXCEPT !.vals = @ \o vals.vals]

Put(map, key, slice) ==
  [k \in (DOMAIN map) \cup {key} |-> IF k = key THEN slice ELSE map[k]]

\* dedupeKeys(attr.Name, attr.FriendlyName).
Unless(key, skipped) == IF key \in skipped THEN <<>> ELSE <<key>>

dedupeKeys_KeepsBoth(name, friendlyName) == Unless(name, {""}) \o Unless(friendlyName, {""})
dedupeKeys(name, friendlyName) == Unless(name, {""}) \o Unless(friendlyName, {"", name})

\* AttributesByName: under the Name alone.
ByName(out, name, vals) ==
  IF name = "" THEN out
  ELSE [out EXCEPT !.byName = Put(@, name, AppendTo(Lookup(@, name), vals, out.arrays)),
                   !.arrays = @ + 1]

\* One turn of the loop over the keys.
ByKey(out, key, vals, strict) ==
  CASE out.failed \/ (strict /\ key \in out.seen) -> [out EXCEPT !.failed = TRUE]
    [] OTHER -> [out EXCEPT !.seen = IF strict THEN @ \cup {key} ELSE @,
                            !.merged = Put(@, key, AppendTo(Lookup(@, key), vals, out.arrays)),
                            !.arrays = @ + 1]

\* One <Attribute> element.  Its values are collected in a slice of their own.
AddAttribute(out, attr, strict) ==
  LET vals  == [vals |-> attr.values, array |-> IF attr.values = <<>> THEN 0 ELSE out.arrays + 1]
      named == ByName([out EXCEPT !.arrays = @ + 1], attr.name, vals)
      keys  == dedupeKeys(attr.name, attr.friendlyName)
  IN  CASE Len(keys) = 0 -> named
        [] Len(keys) = 1 -> ByKey(named, keys[1], vals, strict)
        [] OTHER -> ByKey(ByKey(named, keys[1], vals, strict), keys[2], vals, strict)
=============================================================================

----------------------------- MODULE Attachments -----------------------------
(* The attachments of an action's parameters, by the parameters' types. *)
EXTENDS Expressions

AttachmentTo(provider) == [Scalar("attachment") EXCEPT !.to = provider]
\* A map's keys are text.
MapOf(type) == Type("map", "", <<Field("keyType", Scalar("string")), Field("valueType", type)>>)
EntryType(type) == Entry(type.of, "valueType").type

----------------------------------------------------------------------------
(* The uses of attachments in a value, in the order they are come across. *)

\* Mutant: maps are not looked into.
RECURSIVE CollectedOutsideMaps(_, _, _)
CollectedOutsideMaps(ir, declared, value) ==
  LET type == ResolveType(ir, declared)
  IN  IF value = Undefined THEN <<>>
      ELSE CASE type.kind = "attachment" -> <<[id |-> value.atom, target |-> type.to]>>
             [] type.kind = "optional" -> CollectedOutsideMaps(ir, Inner(type), value)
             [] type.kind = "list" ->
                  FlattenSeq([i \in DOMAIN value.items |-> CollectedOutsideMaps(ir, Inner(type), value.items[i])])
             [] OTHER -> <<>>

\* The entries of a map or struct are come across in some order.
RECURSIVE Collected(_, _, _)
Collected(ir, declared, value) ==
  LET type == ResolveType(ir, declared)
      names == IF type.kind \in {"map", "struct"} THEN SetToSeq(DOMAIN value.fields) ELSE <<>>
  IN  IF value = Undefined THEN <<>>
      ELSE CASE type.kind = "attachment" -> <<[id |-> value.atom, target |-> type.to]>>
             [] type.kind = "optional" -> Collected(ir, Inner(type), value)
             [] type.kind = "list" ->
                  FlattenSeq([i \in DOMAIN value.items |-> Collected(ir, Inner(type), value.items[i])])
             [] type.kind = "map" ->
                  FlattenSeq([i \in DOMAIN names |-> Collected(ir, EntryType(type), value.fields[names[i]])])
             [] type.kind = "struct" ->
                  FlattenSeq([i \in DOMAIN names |->
                    IF Has(type.of, names[i])
                    THEN Collected(ir, Entry(type.of, names[i]).type, value.fields[names[i]]) ELSE <<>>])
             [] OTHER -> <<>>

AllCollected(ir, parameters, values) ==
  FlattenSeq([i \in DOMAIN parameters |-> Collected(ir, parameters[i].type, values[parameters[i].name])])

----------------------------------------------------------------------------
(* The uses that the backend comes across in the parameters it is given. *)

RECURSIVE Occurrences(_, _, _)
Occurrences(ir, declared, value) ==
  LET type == ResolveType(ir, declared)
  IN  IF value = Undefined THEN {}
      ELSE CASE type.kind = "attachment" -> {[id |-> value.atom, target |-> type.to]}
             [] type.kind = "optional" -> Occurrences(ir, Inner(type), value)
             [] type.kind = "list" -> UNION {Occurrences(ir, Inner(type), item) : item \in ToSet(value.items)}
             [] type.kind = "map" -> UNION {Occurrences(ir, EntryType(type), entry) : entry \in Range(value.fields)}
             [] type.kind = "struct" ->
                  UNION {Occurrences(ir, field.type, value.fields[field.name]) : field \in ToSet(type.of)}
             [] OTHER -> {}

AllOccurrences(ir, parameters, values) ==
  UNION {Occurrences(ir, p.type, values[p.name]) : p \in ToSet(parameters)}
=============================================================================

---------------------------- MODULE IndexEntries ----------------------------
(***************************************************************************)
(* The entries that the IndexedDB adapter keeps for an index of a stored   *)
(* collection.                                                             *)
(*                                                                         *)
(* A value is a record of its type, a rank that orders the values of one   *)
(* type, and its text, a sequence of letters, when it is a string.  An     *)
(* instant's rank counts halves of a millisecond.  A row gives every path  *)
(* a value.                                                                *)
(***************************************************************************)
EXTENDS Naturals, Sequences, FiniteSets

CONSTANTS Lower   \* the lower case of every letter

Undefined == [type |-> "undefined", rank |-> 0, text |-> <<>>]
ToLower(text) == [i \in DOMAIN text |-> Lower[text[i]]]
Field(row, path) == IF path \in DOMAIN row THEN row[path] ELSE Undefined

----------------------------------------------------------------------------
(* The entries of an index *)

\* Nothing for a value that has no key; an instant's key is its millisecond.
EncodeIndexValue(value) ==
  CASE value.type = "object" -> {}
    [] value.type = "instant" -> {[value EXCEPT !.rank = value.rank \div 2]}
    [] OTHER -> {value}

\* A string has a second entry in lower case.
Encodings(value) ==
  LET encoded == EncodeIndexValue(value)
  IN  encoded \cup {[type |-> "string-ci", rank |-> 0, text |-> ToLower(v.text)] :
                      v \in {w \in encoded : w.type = "string"}}

\* `present' is a function from the keys that have a row to their rows.
BuildIndexRecords(path, present) ==
  LET entries == UNION {{[key |-> k, at |-> v] : v \in Encodings(Field(present[k], path))} :
                          k \in DOMAIN present}
  IN  [path |-> path, entries |-> entries, types |-> {e.at.type : e \in entries},
       unsupported |-> \E k \in DOMAIN present : EncodeIndexValue(Field(present[k], path)) = {}]
=============================================================================

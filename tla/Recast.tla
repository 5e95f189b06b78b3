------------------------------- MODULE Recast -------------------------------
(* recast_object, which gives the primitives of a document their types back, *)
(* and the generated type hints it goes by.                                  *)
EXTENDS Casts, SequencesExt

CONSTANT Schema   \* per model class its properties in order, as [name, type] records

\* A resolved type of the schema: [c |-> container] with the name of a primitive or
\* of a model class, or the type of the items.
ContainerType == {"PRIMITIVE", "MODEL", "LIST", "SET", "DICT", "MULTIPLE"}

\* A class that has one property only could be called with a primitive.
ASSUME SchemaAssumption ==
    \A M \in DOMAIN Schema :
        /\ Len(Schema[M]) >= 2
        /\ \A i \in DOMAIN Schema[M] : Schema[M][i].type.c \in ContainerType

-----------------------------------------------------------------------------
(* Type hints: translate_type writes them, _field_to_type reads them.        *)

PRIMITIVE_TYPES ==
    [t \in {"string", "integer", "boolean", "undefined"} |->
        CASE t = "string" -> "str" [] t = "integer" -> "int"
          [] t = "boolean" -> "bool" [] t = "undefined" -> "Any"]

RECURSIVE TranslateType(_)
TranslateType(t) ==
    CASE t.c = "MODEL" -> [hint |-> t.name]
      [] t.c = "PRIMITIVE" -> [hint |-> PRIMITIVE_TYPES[t.name]]
      [] t.c = "MULTIPLE" -> [hint |-> "Any"]
      [] t.c = "DICT" -> [hint |-> "MutableMapping", of |-> TranslateType(t.item)]
      [] t.c = "LIST" -> [hint |-> "Sequence", of |-> TranslateType(t.item)]
      [] t.c = "SET" -> [hint |-> "AbstractSet", of |-> TranslateType(t.item)]

RECURSIVE ContainsModel(_)
ContainsModel(t) ==
    IF t.c \in {"LIST", "SET"} THEN ContainsModel(t.item) ELSE t.c = "MODEL"

RECURSIVE FieldToType(_), OneArm(_)

\* _field_to_type of a hint that is not Optional: a mapping has two arguments.
FieldToType(h) ==
    CASE h.hint = "MutableMapping" -> "InvalidRequest"
      [] h.hint \in {"Sequence", "AbstractSet"} -> OneArm(h.of)
      [] OTHER -> h.hint

\* ... from where one argument is left.
OneArm(h) ==
    IF h.hint \in {"MutableMapping", "Sequence", "AbstractSet"} THEN FieldToType(h.of)
    ELSE h.hint

IsModel(cls) == cls \in DOMAIN Schema
Fields(cls) == {Schema[cls][i].name : i \in DOMAIN Schema[cls]}
TypeOf(cls, k) == Schema[cls][CHOOSE i \in DOMAIN Schema[cls] : Schema[cls][i].name = k].type

\* _field_to_type(cls.__dataclass_fields__[k].type, ...): a class, or what is raised.
ClassOf(cls, k) ==
    CASE ~IsModel(cls) -> "AttributeError"
      [] IsModel(cls) /\ k \notin Fields(cls) -> "KeyError"
      [] OTHER -> OneArm(TranslateType(TypeOf(cls, k)))

-----------------------------------------------------------------------------
(* The cast of a document.                                                   *)

RECURSIVE RecastObject(_, _), RecastLists(_, _, _), RecastNestedDict(_, _, _)

CastSequenceItem(cls, k, item) ==
    CASE item.py \in PRIMITIVES -> RecastPrimitive(cls, item)
      [] item.py = "list" -> RecastLists(cls, k, item)
      [] item.py = "dict" -> RecastObject(cls, item)
      [] OTHER -> Raises("InvalidRequest", item)

RecastLists(cls, k, v) ==
    LET items == IF IsModel(cls) /\ k \in Fields(cls) THEN ClassOf(cls, k) ELSE cls
    IN CASE cls = "Any" -> Returns(v, v)
         [] items \in Errors -> Raises(items, v)
         [] OTHER -> Comprehension(LAMBDA item : CastSequenceItem(items, k, item), v)

\* A slip: the dict is not looked at a second time.
RecastNestedDictOnce(cls, k, v) ==
    LET child == ClassOf(cls, k)
    IN IF child \in Errors THEN Raises(child, v) ELSE RecastObject(child, v)

\* A KeyError, from whatever depth, is taken to mean that v maps names to objects of
\* the class: its values are recast, after what the first attempt did to them.
RecastNestedDict(cls, k, v) ==
    LET child == ClassOf(cls, k)
        whole == RecastObject(child, v)
    IN CASE child \in Errors -> Raises(child, v)
         [] child \notin Errors /\ whole.error = "KeyError" ->
               InPlace(LAMBDA e : RecastObject(child, e.value), whole.old)
         [] OTHER -> whole

RecastEntry(cls, e) ==
    LET dest == IF IsModel(cls) THEN ClassOf(cls, e.key) ELSE cls
    IN CASE e.value.py = "dict" -> RecastNestedDict(cls, e.key, e.value)
         [] e.value.py = "list" -> RecastLists(cls, e.key, e.value)
         [] e.value.py \in PRIMITIVES -> CastTo(dest, e.value)
         [] OTHER -> Raises("InvalidRequest", e.value)

RecastObject(cls, d) ==
    CASE d.py # "dict" -> Raises("InvalidRequest", d)
      [] d.py = "dict" /\ cls = "Any" -> Returns(d, d)
      [] OTHER -> InPlace(LAMBDA e : RecastEntry(cls, e), d)
=============================================================================

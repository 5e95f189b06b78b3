----------------------------- MODULE ModelSerde -----------------------------
(* The life of a resource's state between a template and the handler, and     *)
(* between one request and the next: CloudFormation sends it with its         *)
(* primitives as strings, to_modelled recasts it and builds the generated     *)
(* ResourceModel, and a handler that returns the model it was given (a READ,  *)
(* an IN_PROGRESS) answers with its _serialize, which is sent again.          *)
EXTENDS Recast

CONSTANT Documents   \* states as their templates have them, which conform to Schema

ASSUME DocumentsAssumption == \A d \in Documents : d.py = "dict"

VARIABLES
    pc,     \* "stored", "sent", "recast", "modelled", "rejected", "unanswered"
    state,  \* the state, as the template or the latest answer has it
    sent,   \* desiredResourceState, changed in place when it is recast
    model   \* the model the handler has

vars == <<pc, state, sent, model>>

Root == "ResourceModel"

-----------------------------------------------------------------------------
(* Values of a model.                                                        *)

\* A dataclass's instance: its fields in order, each a value or None.
Instance(cls, fields) == [py |-> "instance", cls |-> cls, entries |-> fields]
SetOf(members) == [py |-> "set", members |-> members]
TypeError == [py |-> "TypeError"]

Keys(d) == {e.key : e \in Range(d.entries)}
At(d, k) == (CHOOSE e \in Range(d.entries) : e.key = k).value

\* not v
Falsy(v) == v \in {None, Dict(<<>>), List(<<>>)}

RECURSIVE Holds(_, _)
\* Something of the type py is in v.
Holds(py, v) ==
    \/ v.py = py
    \/ v.py = "list" /\ \E i \in DOMAIN v.items : Holds(py, v.items[i])
    \/ v.py \in {"dict", "instance"} /\ \E i \in DOMAIN v.entries : Holds(py, v.entries[i].value)

\* set() of a list: a dict or a list is not hashable.
SetOrNone(v) ==
    CASE Falsy(v) -> None
      [] ~Falsy(v) /\ (\A i \in DOMAIN v.items : v.items[i].py \in PRIMITIVES) ->
            SetOf(Range(v.items))
      [] OTHER -> TypeError

RECURSIVE Deserialize(_, _), DeserializeList(_, _)

\* deserialize_list, _deser_item
DeserializeList(v, cls) ==
    IF Falsy(v) THEN None
    ELSE List([i \in DOMAIN v.items |->
                 IF v.items[i].py = "list" THEN DeserializeList(v.items[i], cls)
                 ELSE Deserialize(cls, v.items[i])])

\* What the template writes for a property.  It finds no class name for the items of
\* lists in lists, so a schema with lists of lists of models has no Python module.
Property(t, v) ==
    CASE t.c = "MODEL" -> Deserialize(t.name, v)
      [] t.c = "SET" -> SetOrNone(v)
      [] t.c = "LIST" /\ ContainsModel(t) -> DeserializeList(v, t.item.name)
      [] OTHER -> v

\* The generated _deserialize, but for its call of recast_object.
Deserialize(cls, d) ==
    LET value(p) == Property(p.type, IF p.name \in Keys(d) THEN At(d, p.name) ELSE None)
    IN IF Falsy(d) THEN None
       ELSE Instance(cls, [i \in DOMAIN Schema[cls] |->
                             Entry(Schema[cls][i].name, value(Schema[cls][i]))])

\* A slip: the items of a list are left as they are.
SerializeItemFlat(v) ==
    IF v.py # "instance" THEN v
    ELSE Dict(SelectSeq(v.entries, LAMBDA e : e.value # None))

RECURSIVE SerializeTruthy(_)
\* A slip: "if v", which leaves out False and 0 too.
SerializeTruthy(v) ==
    LET truthy == SelectSeq(v.entries, LAMBDA e : e.value \notin {None, PyBool(FALSE), PyInt("0")})
    IN CASE v.py = "instance" ->
              Dict([i \in DOMAIN truthy |-> Entry(truthy[i].key, SerializeTruthy(truthy[i].value))])
         [] v.py = "list" -> List([i \in DOMAIN v.items |-> SerializeTruthy(v.items[i])])
         [] OTHER -> v

RECURSIVE SerializeItem(_)
\* BaseModel._serialize leaves out what is None, and goes into lists and instances.
SerializeItem(v) ==
    LET given == SelectSeq(v.entries, LAMBDA e : e.value # None)
    IN CASE v.py = "instance" ->
              Dict([i \in DOMAIN given |-> Entry(given[i].key, SerializeItem(given[i].value))])
         [] v.py = "list" -> List([i \in DOMAIN v.items |-> SerializeItem(v.items[i])])
         [] OTHER -> v

\* A slip: a set is taken for a list, and written as one.
EncodesAnything(d) == TRUE

\* KitchenSinkEncoder: dates have an encoding, and what has _serialize; a set has none.
Encodes(d) == ~Holds("set", d)

\* CloudFormation's strings for the primitives.
RECURSIVE Stringified(_)
Stringified(v) ==
    CASE v.py = "list" -> List([i \in DOMAIN v.items |-> Stringified(v.items[i])])
      [] v.py = "dict" -> Dict([i \in DOMAIN v.entries |->
                                  Entry(v.entries[i].key, Stringified(v.entries[i].value))])
      [] v.py \in PRIMITIVES -> StringOf(v)
      [] OTHER -> v

-----------------------------------------------------------------------------
Init == pc = "stored" /\ state \in Documents /\ sent = None /\ model = None

\* A request of CloudFormation, or one of the contract tests, which keep the types.
Send ==
    /\ pc = "stored" /\ pc' = "sent"
    /\ sent' \in {Stringified(state), state}
    /\ UNCHANGED <<state, model>>

\* ResourceModel._deserialize recasts what is not empty; no other class does.
RecastState ==
    LET r == RecastObject(Root, sent)
    IN /\ pc = "sent"
       /\ \/ Falsy(sent) /\ pc' = "recast" /\ UNCHANGED sent
          \/ /\ ~Falsy(sent)
             /\ sent' = r.old /\ pc' = IF r.error = Fine THEN "recast" ELSE "rejected"
       /\ UNCHANGED <<state, model>>

Build ==
    LET built == Deserialize(Root, sent)
    IN /\ pc = "recast"
       /\ \/ ~Holds("TypeError", built) /\ model' = built /\ pc' = "modelled"
          \/ Holds("TypeError", built) /\ pc' = "rejected" /\ UNCHANGED model
       /\ UNCHANGED <<state, sent>>

\* The handler answers with its model; what is no JSON becomes an InternalFailure.
Answer ==
    LET answer == SerializeItem(model)
    IN /\ pc = "modelled" /\ model # None
       /\ \/ Encodes(answer) /\ state' = answer /\ pc' = "stored"
          \/ ~Encodes(answer) /\ pc' = "unanswered" /\ UNCHANGED state
       /\ UNCHANGED <<sent, model>>

Next == Send \/ RecastState \/ Build \/ Answer

Spec == Init /\ [][Next]_vars

-----------------------------------------------------------------------------
(* Properties.                                                               *)

\* What is stored and sent is JSON, and the handler has instances of the generated
\* classes, with no failed set in them.
SerdeTypeOK ==
    /\ pc \in {"stored", "sent", "recast", "modelled", "rejected", "unanswered"}
    /\ \A v \in {state, sent} :
          \A py \in {"instance", "set", "TypeError"} : ~Holds(py, v)
    /\ state.py = "dict"
    /\ model.py \in {"None", "instance"} /\ ~Holds("TypeError", model)

RECURSIVE Restored(_, _, _)
\* now is was with every primitive of the type that t declares; where t leaves the
\* type open, a string may have come of it.
Restored(t, was, now) ==
    CASE t.c = "MULTIPLE" \/ t = [c |-> "PRIMITIVE", name |-> "undefined"] ->
            now \in {was, Stringified(was)}
      [] t.c = "PRIMITIVE" /\ t.name # "undefined" -> now = was
      [] t.c \in {"LIST", "SET"} ->
            /\ Len(now.items) = Len(was.items)
            /\ \A i \in DOMAIN now.items : Restored(t.item, was.items[i], now.items[i])
      [] t.c \in {"MODEL", "DICT"} ->
            /\ Len(now.entries) = Len(was.entries)
            /\ \A i \in DOMAIN now.entries :
                  LET k == now.entries[i].key
                  IN /\ k = was.entries[i].key
                     /\ Restored(IF t.c = "DICT" THEN t.item ELSE TypeOf(t.name, k),
                                 was.entries[i].value, now.entries[i].value)

RootType == [c |-> "MODEL", name |-> Root]

\* A state whose primitives have become strings on the way is given back every type
\* the schema declares, at whatever depth of objects, lists and mappings.
RestoresTypes == pc = "recast" => Restored(RootType, state, sent)

\* A state that has its types already, being sent again in the same process or by
\* the contract tests, is not changed and not rejected.
RecastAgain ==
    pc = "recast" /\ ~Falsy(sent) => RecastObject(Root, sent) = Returns(sent, sent)

RECURSIVE Pruned(_, _)
\* The state without what a model cannot hold: empty objects, sets and lists of
\* objects; in a list, an empty object becomes null.
Pruned(t, v) ==
    LET holds(u, w) == \/ ~Falsy(w)
                       \/ u.c \in {"PRIMITIVE", "MULTIPLE", "DICT"}
                       \/ u.c = "LIST" /\ ~ContainsModel(u)
        kept == SelectSeq(v.entries, LAMBDA e : holds(TypeOf(t.name, e.key), e.value))
    IN CASE t.c = "MODEL" ->
              Dict([i \in DOMAIN kept |->
                      Entry(kept[i].key, Pruned(TypeOf(t.name, kept[i].key), kept[i].value))])
         [] t.c = "LIST" /\ ContainsModel(t) ->
              List([i \in DOMAIN v.items |->
                      IF Falsy(v.items[i]) THEN None ELSE Pruned(t.item, v.items[i])])
         [] OTHER -> v

\* A handler that answers with the model it was given loses nothing of the state it
\* was sent but what is empty, False and 0 not being empty.
AnswerKeepsState == pc = "stored" /\ sent # None => state = Pruned(RootType, sent)

RECURSIVE Unsupported(_, _)
\* Mappings inside lists and mappings, sets of anything but primitives, null.
Unsupported(t, v) ==
    \/ v = None
    \/ t.c \in {"LIST", "DICT"} /\ t.item.c = "DICT"
    \/ t.c = "SET" /\ ~Falsy(v) /\ t.item.c \notin {"PRIMITIVE", "MULTIPLE"}
    \/ t.c = "MODEL" /\ \E e \in Range(v.entries) : Unsupported(TypeOf(t.name, e.key), e.value)
    \/ t.c = "DICT" /\ \E e \in Range(v.entries) : Unsupported(t.item, e.value)
    \/ t.c = "LIST" /\ \E i \in DOMAIN v.items : Unsupported(t.item, v.items[i])

\* A state that conforms to its schema reaches the handler unless the schema has
\* types that the hints, or Python's sets, cannot express; then it never does.
RejectsJustTheUnsupported ==
    /\ pc = "rejected" => Unsupported(RootType, state)
    /\ pc = "modelled" => ~Unsupported(RootType, state)

\* The answer is lost exactly when the model has a set that is not empty: the
\* request succeeds up to the handler's return, and CloudFormation is told
\* InternalFailure.
OnlySetsAreUnanswered ==
    LET set(t) == t.c = "SET"
        given == \E e \in Range(sent.entries) : set(TypeOf(Root, e.key)) /\ ~Falsy(e.value)
    IN /\ pc = "unanswered" => given
       /\ pc = "stored" /\ sent # None => ~given
=============================================================================

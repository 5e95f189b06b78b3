---------------------------- MODULE MCModelSerde ----------------------------
(* Every container, one of the other inside where the code tells it apart, and *)
(* every state with at most three properties.                                 *)
EXTENDS ModelSerde, FiniteSets

Prim(name) == [c |-> "PRIMITIVE", name |-> name]
Inner == [c |-> "MODEL", name |-> "Inner"]
Leaf == [c |-> "MODEL", name |-> "Leaf"]
Of(c, item) == [c |-> c, item |-> item]
Prop(name, type) == [name |-> name, type |-> type]

MCSchema ==
    [ResourceModel |-> <<
        Prop("ok", Prim("boolean")), Prop("id", Prim("integer")), Prop("any", Prim("undefined")),
        Prop("inner", Inner), Prop("many", Of("LIST", Inner)),
        Prop("grid", Of("LIST", Of("LIST", Prim("integer")))), Prop("tags", Of("SET", Prim("string"))),
        Prop("pairs", Of("SET", Inner)), Prop("named", Of("DICT", Inner)),
        Prop("flags", Of("DICT", Prim("boolean"))),
        Prop("lists", Of("DICT", Of("LIST", Prim("integer")))),
        Prop("rows", Of("LIST", Of("DICT", Prim("string")))), Prop("either", [c |-> "MULTIPLE"])>>,
     Inner |-> <<
        Prop("flag", Prim("boolean")), Prop("name", Prim("string")),
        Prop("deep", Of("LIST", Prim("integer"))), Prop("leaves", Of("DICT", Leaf))>>,
     Leaf |-> <<Prop("size", Prim("integer")), Prop("title", Prim("string"))>>]

MCIntTexts == [t \in {"0", "1", "7", "+7"} |-> IF t = "+7" THEN "7" ELSE t]

Obj == Dict(<<Entry("flag", PyBool(FALSE)), Entry("name", PyStr("true"))>>)
Deep == Dict(<<Entry("name", PyStr("word")), Entry("deep", List(<<PyInt("7")>>)),
               Entry("leaves", Dict(<<Entry("x", Dict(<<Entry("size", PyInt("7"))>>))>>))>>)
Empty == Dict(<<>>)

\* The values of a property.
Values(k) ==
    CASE k = "ok" -> {PyBool(TRUE), PyBool(FALSE)}
      [] k = "id" -> {PyInt("0"), PyInt("7")}
      [] k = "any" -> {PyBool(TRUE), Dict(<<Entry("a", PyInt("7"))>>)}
      [] k = "inner" -> {Obj, Empty}
      [] k = "many" -> {List(<<Deep, Obj>>), List(<<Obj, Empty>>), List(<<>>)}
      [] k = "grid" -> {List(<<List(<<PyInt("7")>>), List(<<>>)>>)}
      [] k = "tags" -> {List(<<PyStr("7"), PyStr("true")>>), List(<<>>)}
      [] k = "pairs" -> {List(<<Obj>>), List(<<>>)}
      [] k = "named" -> {Dict(<<Entry("a", Obj), Entry("b", Deep)>>), Dict(<<Entry("a", Empty)>>), Empty}
      [] k = "flags" -> {Dict(<<Entry("a", PyBool(FALSE)), Entry("b", PyBool(TRUE))>>)}
      [] k = "lists" -> {Dict(<<Entry("a", List(<<PyInt("7")>>))>>)}
      [] k = "rows" -> {List(<<Dict(<<Entry("a", PyStr("7"))>>)>>)}
      [] k = "either" -> {PyInt("7"), List(<<PyBool(TRUE)>>)}

\* Those with the properties of the given indices, in the schema's order.
StatesWith(indices) ==
    LET at == SetToSortSeq(indices, <)
        key(i) == MCSchema.ResourceModel[at[i]].name
    IN {Dict([i \in DOMAIN at |-> Entry(key(i), f[i])]) :
          f \in {g \in [DOMAIN at -> UNION {Values(key(i)) : i \in DOMAIN at}] :
                   \A i \in DOMAIN at : g[i] \in Values(key(i))}}

MCDocuments ==
    UNION {StatesWith(s) : s \in {t \in SUBSET (1..Len(MCSchema.ResourceModel)) : Cardinality(t) <= 3}}

\* A mapping to objects with a key that is also the name of a property of theirs.
MCNamesakes ==
    {Dict(<<Entry("named", Dict(<<Entry("flag", Obj)>>)), Entry("flags", f)>>) :
        f \in {Dict(<<Entry(k, PyBool(b))>>) : k \in {"flag", "a"}, b \in BOOLEAN}}
=============================================================================

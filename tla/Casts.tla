------------------------------- MODULE Casts -------------------------------
(* What recast_object does where it meets primitives: the cast itself, and    *)
(* the loops that put what is cast into dicts and lists.  A document is       *)
(* changed in place: what an exception leaves of it matters, because one is   *)
(* caught on the way.                                                         *)
EXTENDS Naturals, Sequences, FiniteSetsExt

CONSTANT IntTexts  \* what int() reads in a text, as str() writes it

\* int() reads a bool, and what str() makes of an int.
ASSUME IntTextsAssumption ==
    /\ {"0", "1"} \subseteq DOMAIN IntTexts /\ IntTexts["0"] = "0" /\ IntTexts["1"] = "1"
    /\ \A t \in DOMAIN IntTexts : IntTexts[t] \in DOMAIN IntTexts /\ IntTexts[IntTexts[t]] = IntTexts[t]

-----------------------------------------------------------------------------
(* Python values.  A primitive is its type and what str() makes of it; a dict *)
(* is its entries in order.                                                  *)

PRIMITIVES == {"str", "bool", "int"}
PyStr(text) == [py |-> "str", text |-> text]
PyInt(text) == [py |-> "int", text |-> text]
PyBool(b) == [py |-> "bool", text |-> IF b THEN "True" ELSE "False"]
None == [py |-> "None"]
Entry(k, v) == [key |-> k, value |-> v]
Dict(entries) == [py |-> "dict", entries |-> entries]
List(items) == [py |-> "list", items |-> items]

\* CloudFormation's string for a primitive.
StringOf(v) == PyStr(CASE v = PyBool(TRUE) -> "true" [] v = PyBool(FALSE) -> "false" [] OTHER -> v.text)

-----------------------------------------------------------------------------
(* A call's outcome: what it raised, what it returns, and what is left of the *)
(* object it was called with.                                                *)

Fine == "fine"
Errors == {"KeyError", "InvalidRequest", "AttributeError", "ValueError"}
Returns(new, old) == [error |-> Fine, new |-> new, old |-> old]
Raises(e, old) == [error |-> e, new |-> old, old |-> old]

\* What a loop over seq comes to whose steps do what outcomes says: nothing more is done
\* once one has raised.
Outcome(outcomes, seq) ==
    LET raised == {i \in DOMAIN seq : outcomes[i].error # Fine}
        Reached(i) == \A j \in raised : i <= j
    IN [error |-> IF raised = {} THEN Fine ELSE outcomes[Min(raised)].error,
        new |-> [i \in DOMAIN seq |-> IF Reached(i) THEN outcomes[i].new ELSE seq[i]],
        old |-> [i \in DOMAIN seq |-> IF Reached(i) THEN outcomes[i].old ELSE seq[i]]]

\* \o makes a tuple of the steps, and TLC evaluates each once.
Loop(step(_), seq) == Outcome([i \in DOMAIN seq |-> step(seq[i])] \o <<>>, seq)

\* for k, v in d.items(): d[k] = step, as far as it gets.
InPlace(step(_), d) ==
    LET entry(e) == LET r == step(e)
                    IN [error |-> r.error, old |-> Entry(e.key, r.old),
                        new |-> Entry(e.key, IF r.error = Fine THEN r.new ELSE r.old)]
        all == Loop(entry, d.entries)
    IN [error |-> all.error, new |-> Dict(all.new), old |-> Dict(all.new)]

\* [step for item in v]: a new list, if it gets to the end.
Comprehension(step(_), v) ==
    LET all == Loop(step, v.items)
    IN [error |-> all.error, new |-> List(all.new), old |-> List(all.old)]

-----------------------------------------------------------------------------
\* A slip: bool("false") is true.
RecastPrimitiveTruthy(cls, v) ==
    CASE cls = "bool" -> Returns(PyBool(v.text \notin {"", "False"}), v)
      [] cls = "int" /\ v.text \in DOMAIN IntTexts -> Returns(PyInt(IntTexts[v.text]), v)
      [] cls = "str" -> Returns(PyStr(v.text), v)
      [] OTHER -> Returns(v, v)

\* A slip: v.lower() of what is a bool already.
RecastPrimitiveStrings(cls, v) ==
    CASE cls = "bool" /\ v.py # "str" -> Raises("AttributeError", v)
      [] cls = "bool" /\ v.py = "str" -> Returns(PyBool(v.text \in {"true", "True"}), v)
      [] cls = "int" /\ v.text \in DOMAIN IntTexts -> Returns(PyInt(IntTexts[v.text]), v)
      [] cls = "str" -> Returns(PyStr(v.text), v)
      [] OTHER -> Returns(v, v)

RecastPrimitive(cls, v) ==
    CASE cls = "Any" -> Returns(v, v)
      [] cls = "bool" /\ v.py = "str" ->
            IF v.text \in {"true", "True"} THEN Returns(PyBool(TRUE), v)
            ELSE IF v.text \in {"false", "False"} THEN Returns(PyBool(FALSE), v)
            ELSE Raises("InvalidRequest", v)
      [] cls = "bool" /\ v.py # "str" -> Returns(PyBool(v.text \notin {"0", "False"}), v)
      [] cls = "str" -> Returns(PyStr(v.text), v)
      [] cls = "int" /\ v.py = "bool" -> Returns(PyInt(IF v.text = "True" THEN "1" ELSE "0"), v)
      [] cls = "int" /\ v.py # "bool" /\ v.text \in DOMAIN IntTexts ->
            Returns(PyInt(IntTexts[v.text]), v)
      [] OTHER -> Raises("ValueError", v)

\* The cast of an entry to the class of its property, if it has one.
CastTo(dest, v) == IF dest \in Errors THEN Raises(dest, v) ELSE RecastPrimitive(dest, v)
=============================================================================

------------------------------ MODULE Casts_proofs ------------------------------
(* Proofs about what recast_object does to primitives, and to the lists and    *)
(* dicts they are in, for every int() and for texts and lengths of any kind:   *)
(* the leaves of the recursion whose whole the model checker looks at.         *)
EXTENDS Casts, SequenceTheorems, WellFoundedInduction, TLAPS

-----------------------------------------------------------------------------
(* Primitives.                                                                 *)

\* The classes a primitive may be cast to, but for typing.Any.
Classes == {"str", "int", "bool"}

\* v is a primitive of the class cls.
IsOf(cls, v) ==
    CASE cls = "str" -> v = PyStr(v.text)
      [] cls = "int" -> v = PyInt(v.text) /\ v.text \in DOMAIN IntTexts /\ IntTexts[v.text] = v.text
      [] cls = "bool" -> v \in {PyBool(TRUE), PyBool(FALSE)}

\* v is a primitive, of whatever class.
IsPrimitive(v) == v = PyStr(v.text) \/ v = PyInt(v.text) \/ v \in {PyBool(TRUE), PyBool(FALSE)}

\* A property gets its value back from the string CloudFormation makes of it, whatever
\* class the schema gives it.
THEOREM TypesComeBack ==
  ASSUME NEW cls \in Classes, NEW v, IsOf(cls, v)
  PROVE  RecastPrimitive(cls, StringOf(v)) = Returns(v, StringOf(v))
  <1>1. CASE cls = "str"
    <2>1. v.py = "str" /\ v # PyBool(TRUE) /\ v # PyBool(FALSE) /\ StringOf(v) = v
      BY <1>1 DEF IsOf, PyStr, PyBool, StringOf
    <2>. QED
      BY <1>1, <2>1 DEF IsOf, RecastPrimitive
  <1>2. CASE cls = "int"
    <2>1. v.py = "int" /\ v # PyBool(TRUE) /\ v # PyBool(FALSE) /\ StringOf(v) = PyStr(v.text)
      BY <1>2 DEF IsOf, PyInt, PyBool, StringOf
    <2>2. StringOf(v).py = "str" /\ StringOf(v).text = v.text
      BY <2>1 DEF PyStr
    <2>. QED
      BY <1>2, <2>2 DEF IsOf, RecastPrimitive
  <1>3. CASE cls = "bool"
    <2>1. PyBool(FALSE) # PyBool(TRUE)
      BY DEF PyBool
    <2>2. CASE v = PyBool(TRUE)
      BY <1>3, <2>1, <2>2 DEF RecastPrimitive, StringOf, PyStr
    <2>3. CASE v = PyBool(FALSE)
      BY <1>3, <2>1, <2>3 DEF RecastPrimitive, StringOf, PyStr
    <2>. QED
      BY <1>3, <2>2, <2>3 DEF IsOf
  <1>. QED
    BY <1>1, <1>2, <1>3 DEF Classes

\* What has its type already, is left as it is.
THEOREM TypesStay ==
  ASSUME NEW cls \in Classes, NEW v, IsOf(cls, v)
  PROVE  RecastPrimitive(cls, v) = Returns(v, v)
  <1>1. CASE cls = "str"
    BY <1>1 DEF IsOf, RecastPrimitive
  <1>2. CASE cls = "int"
    BY <1>2 DEF IsOf, RecastPrimitive, PyInt
  <1>3. CASE cls = "bool"
    BY <1>3 DEF IsOf, RecastPrimitive, PyBool
  <1>. QED
    BY <1>1, <1>2, <1>3 DEF Classes

\* A cast that does not raise makes a primitive of the class, from whatever primitive.
LEMMA CastsToClass ==
  ASSUME NEW cls \in Classes, NEW v, IsPrimitive(v), RecastPrimitive(cls, v).error = Fine
  PROVE  IsOf(cls, RecastPrimitive(cls, v).new)
  <1>1. CASE cls = "str"
    BY <1>1 DEF IsOf, RecastPrimitive, Returns, PyStr
  <1>2. CASE cls = "int"
    <2>1. CASE v.py = "bool"
      BY <1>2, <2>1, IntTextsAssumption DEF IsOf, RecastPrimitive, Returns, PyInt
    <2>2. CASE v.py # "bool" /\ v.text \in DOMAIN IntTexts
      BY <1>2, <2>2, IntTextsAssumption DEF IsOf, RecastPrimitive, Returns, PyInt
    <2>3. CASE v.py # "bool" /\ v.text \notin DOMAIN IntTexts
      BY <1>2, <2>3 DEF RecastPrimitive, Raises, Fine
    <2>. QED
      BY <2>1, <2>2, <2>3
  <1>3. CASE cls = "bool"
    <2>1. CASE v.py = "str"
      BY <1>3, <2>1 DEF IsOf, RecastPrimitive, Returns, Raises, Fine
    <2>2. CASE v.py # "str"
      BY <1>3, <2>2 DEF IsOf, RecastPrimitive, Returns, PyBool
    <2>. QED
      BY <2>1, <2>2
  <1>. QED
    BY <1>1, <1>2, <1>3 DEF Classes

\* Casting once more, to the same class, changes nothing; and what raises leaves the
\* primitive as it is.
LEMMA CastAgain ==
  ASSUME NEW dest, NEW v, IsPrimitive(v)
  PROVE  LET r == CastTo(dest, v)
         IN /\ r.error = Fine => CastTo(dest, r.new) = Returns(r.new, r.new)
            /\ r.old = v
            /\ r.error # Fine => r = Raises(r.error, v)
  <1> DEFINE r == CastTo(dest, v)
  <1>1. CASE dest \in Errors
    BY <1>1 DEF CastTo, Raises, Errors, Fine
  <1>2. CASE dest \notin Errors
    <2>1. r = RecastPrimitive(dest, v)
      BY <1>2 DEF CastTo
    <2>2. r.old = v /\ (r.error # Fine => r = Raises(r.error, v))
      BY <2>1 DEF RecastPrimitive, Returns, Raises, Fine
    <2>3. CASE dest \in Classes /\ r.error = Fine
      <3>1. IsOf(dest, r.new)
        BY <2>1, <2>3, CastsToClass
      <3>2. RecastPrimitive(dest, r.new) = Returns(r.new, r.new)
        BY <2>3, <3>1, TypesStay
      <3>. QED
        BY <1>2, <2>2, <3>2 DEF CastTo
    <2>4. CASE dest \notin Classes /\ r.error = Fine
      <3>1. CASE dest = "Any"
        BY <1>2, <2>1, <3>1 DEF CastTo, RecastPrimitive, Returns
      <3>2. CASE dest # "Any"
        <4>1. RecastPrimitive(dest, v) = Raises("ValueError", v)
          BY <2>4, <3>2 DEF RecastPrimitive, Classes
        <4>. QED
          BY <2>1, <2>4, <4>1 DEF Raises, Fine
      <3>. QED
        BY <2>2, <3>1, <3>2
    <2>. QED
      BY <2>2, <2>3, <2>4
  <1>. QED
    BY <1>1, <1>2

-----------------------------------------------------------------------------
(* Loops.                                                                      *)

LEMMA NothingAppended ==
  ASSUME NEW n \in Nat, NEW f, f = [i \in 1..n |-> f[i]]
  PROVE  f \o <<>> = f
  <1>1. f \in Seq({f[i] : i \in 1..n})
    BY SeqDef
  <1>. QED
    BY <1>1, ConcatEmptySeq

\* A loop none of whose steps raises gets to the end.
LEMMA LoopThatEnds ==
  ASSUME NEW seq, NEW outcomes, \A i \in DOMAIN seq : outcomes[i].error = Fine
  PROVE  Outcome(outcomes, seq) =
           [error |-> Fine, new |-> [i \in DOMAIN seq |-> outcomes[i].new],
            old |-> [i \in DOMAIN seq |-> outcomes[i].old]]
  <1> DEFINE raised == {i \in DOMAIN seq : outcomes[i].error # Fine}
             Reached(i) == \A j \in raised : i <= j
  <1>1. raised = {}
    OBVIOUS
  <1>2. /\ [i \in DOMAIN seq |-> IF Reached(i) THEN outcomes[i].new ELSE seq[i]] =
             [i \in DOMAIN seq |-> outcomes[i].new]
        /\ [i \in DOMAIN seq |-> IF Reached(i) THEN outcomes[i].old ELSE seq[i]] =
             [i \in DOMAIN seq |-> outcomes[i].old]
    <2> HIDE DEF raised
    <2>. QED
      BY <1>1
  <1>. QED
    BY <1>1, <1>2 DEF Outcome

\* What recast_object makes of a dict of primitives, where classes[k] is the class of
\* the property k, or what looking for one raises.
CastEntries(classes, entries) == InPlace(LAMBDA e : CastTo(classes[e.key], e.value), Dict(entries))

\* What it makes of a list of them.
CastItems(cls, items) == Comprehension(LAMBDA v : RecastPrimitive(cls, v), List(items))

\* A list gets its items back from their strings, one by one.
THEOREM ItemsComeBack ==
  ASSUME NEW cls \in Classes, NEW n \in Nat, NEW items, items = [i \in 1..n |-> items[i]],
         \A i \in 1..n : IsOf(cls, items[i])
  PROVE  LET strings == [i \in 1..n |-> StringOf(items[i])]
         IN CastItems(cls, strings) = Returns(List(items), List(strings))
  <1> DEFINE strings == [i \in 1..n |-> StringOf(items[i])]
             outcomes == [i \in 1..n |-> RecastPrimitive(cls, strings[i])]
  <1>1. \A i \in 1..n : outcomes[i] = Returns(items[i], strings[i])
    BY TypesComeBack
  <1>2. outcomes \o <<>> = outcomes
    <2>1. outcomes = [i \in 1..n |-> outcomes[i]]
      OBVIOUS
    <2> HIDE DEF outcomes
    <2>. QED
      BY <2>1, NothingAppended
  <1>3. Outcome(outcomes, strings) = [error |-> Fine, new |-> items, old |-> strings]
    <2>1. \A i \in 1..n : /\ outcomes[i].error = Fine
                          /\ outcomes[i].new = items[i] /\ outcomes[i].old = strings[i]
      <3> SUFFICES ASSUME NEW i \in 1..n
                   PROVE  /\ outcomes[i].error = Fine
                          /\ outcomes[i].new = items[i] /\ outcomes[i].old = strings[i]
        OBVIOUS
      <3>1. outcomes[i] = Returns(items[i], strings[i])
        BY <1>1
      <3> HIDE DEF outcomes, strings
      <3>. QED
        BY <3>1 DEF Returns
    <2>2. DOMAIN strings = 1..n /\ strings = [i \in 1..n |-> strings[i]]
      OBVIOUS
    <2> HIDE DEF outcomes, strings
    <2>3. [i \in DOMAIN strings |-> outcomes[i].new] = items
      BY <2>1, <2>2
    <2>4. [i \in DOMAIN strings |-> outcomes[i].old] = strings
      BY <2>1, <2>2
    <2>5. \A i \in DOMAIN strings : outcomes[i].error = Fine
      BY <2>1, <2>2
    <2>6. Outcome(outcomes, strings) =
            [error |-> Fine, new |-> [i \in DOMAIN strings |-> outcomes[i].new],
             old |-> [i \in DOMAIN strings |-> outcomes[i].old]]
      BY <2>5, LoopThatEnds, Zenon
    <2>. QED
      BY <2>3, <2>4, <2>6
  <1>4. CastItems(cls, strings) =
          LET all == Outcome(outcomes \o <<>>, strings)
          IN [error |-> all.error, new |-> List(all.new), old |-> List(all.old)]
    BY DEF CastItems, Comprehension, Loop, List
  <1> HIDE DEF outcomes, strings
  <1>5. CastItems(cls, strings) = Returns(List(items), List(strings))
    BY <1>2, <1>3, <1>4 DEF Returns
  <1>. QED
    BY <1>5 DEF strings

\* The first of some steps.
LEMMA First ==
  ASSUME NEW S, S \subseteq Nat, S # {}
  PROVE  Min(S) \in S
  <1>1. PICK x \in S : \A y \in S : <<y, x>> \notin OpToRel(<, Nat)
    BY WFMin, NatLessThanWellFounded
  <1>2. \A y \in S : ~(y < x)
    BY <1>1 DEF OpToRel
  <1>3. \A y \in S : x <= y
    BY <1>2
  <1>. QED
    BY <1>3 DEF Min

-----------------------------------------------------------------------------
(* Dicts.                                                                      *)

IsEntry(e) == e = Entry(e.key, e.value) /\ IsPrimitive(e.value)

\* What one entry comes to.
EntryOutcome(classes, e) ==
    LET r == CastTo(classes[e.key], e.value)
    IN [error |-> r.error, old |-> Entry(e.key, r.old),
        new |-> Entry(e.key, IF r.error = Fine THEN r.new ELSE r.old)]

\* A dict's outcome is that of the loop over its entries.
LEMMA CastEntriesIs ==
  ASSUME NEW classes, NEW n \in Nat, NEW entries, entries = [i \in 1..n |-> entries[i]]
  PROVE  LET all == Outcome([i \in 1..n |-> EntryOutcome(classes, entries[i])], entries)
         IN CastEntries(classes, entries) =
              [error |-> all.error, new |-> Dict(all.new), old |-> Dict(all.new)]
  <1> DEFINE outcomes == [i \in 1..n |-> EntryOutcome(classes, entries[i])]
  <1>1. outcomes \o <<>> = outcomes
    <2>1. outcomes = [i \in 1..n |-> outcomes[i]]
      OBVIOUS
    <2> HIDE DEF outcomes
    <2>. QED
      BY <2>1, NothingAppended
  <1>2. DOMAIN entries = 1..n
    OBVIOUS
  <1>3. CastEntries(classes, entries) =
          LET all == Outcome(outcomes \o <<>>, entries)
          IN [error |-> all.error, new |-> Dict(all.new), old |-> Dict(all.new)]
    BY <1>2 DEF CastEntries, InPlace, Loop, EntryOutcome, Dict
  <1>. QED
    BY <1>1, <1>3

\* An entry that was cast is cast to itself, and one that raised is as it was.
LEMMA EntryAgain ==
  ASSUME NEW classes, NEW e, IsEntry(e)
  PROVE  LET o == EntryOutcome(classes, e)
         IN /\ o.error = Fine => EntryOutcome(classes, o.new) =
                                   [error |-> Fine, old |-> o.new, new |-> o.new]
            /\ o.error # Fine => o.new = e
  <1> DEFINE r == CastTo(classes[e.key], e.value)
             o == EntryOutcome(classes, e)
  <1>1. e = Entry(e.key, e.value) /\ IsPrimitive(e.value)
    BY DEF IsEntry
  <1>2. /\ r.error = Fine => CastTo(classes[e.key], r.new) = Returns(r.new, r.new)
        /\ r.old = e.value
    BY <1>1, CastAgain
  <1>3. /\ o.error = r.error
        /\ o.new = Entry(e.key, IF r.error = Fine THEN r.new ELSE r.old)
    BY DEF EntryOutcome
  <1>4. ASSUME r.error = Fine
        PROVE  EntryOutcome(classes, o.new) = [error |-> Fine, old |-> o.new, new |-> o.new]
    <2>1. o.new.key = e.key /\ o.new.value = r.new /\ o.new = Entry(e.key, r.new)
      BY <1>3, <1>4 DEF Entry
    <2>2. CastTo(classes[o.new.key], o.new.value) = Returns(r.new, r.new)
      BY <1>2, <1>4, <2>1
    <2> HIDE DEF o, r
    <2>. QED
      BY <2>1, <2>2 DEF EntryOutcome, Returns
  <1>5. r.error # Fine => o.new = e
    BY <1>1, <1>2, <1>3
  <1>. QED
    BY <1>3, <1>4, <1>5

\* The steps that would raise; a loop gets to the first of them.
Raised(n, outcomes) == {i \in 1..n : outcomes[i].error # Fine}
Reached(n, outcomes, i) == \A j \in Raised(n, outcomes) : i <= j

\* A loop makes of its sequence what the steps make that it gets to; the rest is as it
\* was.
LEMMA OutcomeIs ==
  ASSUME NEW n \in Nat, NEW seq, NEW outcomes, DOMAIN seq = 1..n
  PROVE  /\ Outcome(outcomes, seq).new =
              [i \in 1..n |-> IF Reached(n, outcomes, i) THEN outcomes[i].new ELSE seq[i]]
         /\ Outcome(outcomes, seq).error =
              IF Raised(n, outcomes) = {} THEN Fine ELSE outcomes[Min(Raised(n, outcomes))].error
  BY DEF Outcome, Raised, Reached

LEMMA FirstRaised ==
  ASSUME NEW n \in Nat, NEW outcomes, Raised(n, outcomes) # {}
  PROVE  Min(Raised(n, outcomes)) \in 1..n
  <1>1. Raised(n, outcomes) \subseteq 1..n /\ 1..n \subseteq Nat
    BY DEF Raised
  <1>. QED
    BY <1>1, First

\* A dict of primitives whose cast has come to its end, or was cut short by an exception,
\* is cast as if nothing had happened to it yet: the same cast once more raises what the
\* first one raised, and leaves the same.
THEOREM CutShortCastsAreHarmless ==
  ASSUME NEW classes, NEW n \in Nat, NEW entries, entries = [i \in 1..n |-> entries[i]],
         \A i \in 1..n : IsEntry(entries[i])
  PROVE  LET first == CastEntries(classes, entries)
         IN CastEntries(classes, first.old.entries) = first
  <1> DEFINE o == [i \in 1..n |-> EntryOutcome(classes, entries[i])]
             all == Outcome(o, entries)
             after == all.new
             o2 == [i \in 1..n |-> EntryOutcome(classes, after[i])]
             all2 == Outcome(o2, after)
  <1>1. DOMAIN entries = 1..n
    OBVIOUS
  <1>2. /\ after = [i \in 1..n |-> IF Reached(n, o, i) THEN o[i].new ELSE entries[i]]
        /\ all.error = IF Raised(n, o) = {} THEN Fine ELSE o[Min(Raised(n, o))].error
    <2> HIDE DEF o
    <2>. QED
      BY <1>1, OutcomeIs
  <1>3. DOMAIN after = 1..n /\ after = [i \in 1..n |-> after[i]]
    <2> HIDE DEF o, all
    <2>. QED
      BY <1>2
  <1>4. /\ all2.new = [i \in 1..n |-> IF Reached(n, o2, i) THEN o2[i].new ELSE after[i]]
        /\ all2.error = IF Raised(n, o2) = {} THEN Fine ELSE o2[Min(Raised(n, o2))].error
    <2> HIDE DEF o2, after
    <2>. QED
      BY <1>3, OutcomeIs
  <1>5. ASSUME NEW i \in 1..n
        PROVE  o2[i].error = o[i].error /\ (Reached(n, o, i) => o2[i].new = after[i])
    <2>1. /\ o[i].error = Fine => EntryOutcome(classes, o[i].new) =
                                    [error |-> Fine, old |-> o[i].new, new |-> o[i].new]
          /\ o[i].error # Fine => o[i].new = entries[i]
      BY EntryAgain
    <2>2. o[i] = EntryOutcome(classes, entries[i]) /\ o2[i] = EntryOutcome(classes, after[i])
      OBVIOUS
    <2>3. after[i] = IF Reached(n, o, i) THEN o[i].new ELSE entries[i]
      BY <1>2
    <2> HIDE DEF o, o2, after
    <2>. QED
      BY <2>1, <2>2, <2>3
  <1>6. Raised(n, o2) = Raised(n, o) /\ \A i : Reached(n, o2, i) <=> Reached(n, o, i)
    <2> HIDE DEF o, o2
    <2>. QED
      BY <1>5 DEF Raised, Reached
  <1>7. all2.error = all.error
    <2> HIDE DEF o, o2, all, all2
    <2>. QED
      BY <1>2, <1>4, <1>5, <1>6, FirstRaised
  <1>8. all2.new = after
    <2> HIDE DEF o, o2, after, all2
    <2>1. \A i \in 1..n : (IF Reached(n, o2, i) THEN o2[i].new ELSE after[i]) = after[i]
      BY <1>5, <1>6
    <2>. QED
      BY <1>3, <1>4, <2>1
  <1>9. CastEntries(classes, entries) = [error |-> all.error, new |-> Dict(after), old |-> Dict(after)]
    BY CastEntriesIs
  <1>10. CastEntries(classes, after) =
           [error |-> all2.error, new |-> Dict(all2.new), old |-> Dict(all2.new)]
    <2> HIDE DEF after
    <2>. QED
      BY <1>3, CastEntriesIs
  <1> HIDE DEF after, all, all2
  <1>. QED
    BY <1>7, <1>8, <1>9, <1>10 DEF Dict

\* The properties of an object that are primitives get their values back, each by the
\* class of its own; and the object itself is what is changed.
THEOREM PropertiesComeBack ==
  ASSUME NEW classes, NEW n \in Nat, NEW entries, entries = [i \in 1..n |-> entries[i]],
         \A i \in 1..n : /\ entries[i] = Entry(entries[i].key, entries[i].value)
                         /\ classes[entries[i].key] \in Classes
                         /\ IsOf(classes[entries[i].key], entries[i].value)
  PROVE  LET strings == [i \in 1..n |-> Entry(entries[i].key, StringOf(entries[i].value))]
         IN CastEntries(classes, strings) = Returns(Dict(entries), Dict(entries))
  <1> DEFINE strings == [i \in 1..n |-> Entry(entries[i].key, StringOf(entries[i].value))]
             o == [i \in 1..n |-> EntryOutcome(classes, strings[i])]
             all == Outcome(o, strings)
  <1>1. ASSUME NEW i \in 1..n PROVE o[i].error = Fine /\ o[i].new = entries[i]
    <2> DEFINE k == entries[i].key
               v == entries[i].value
    <2>1. classes[k] \in Classes /\ IsOf(classes[k], v) /\ entries[i] = Entry(k, v)
      OBVIOUS
    <2>2. RecastPrimitive(classes[k], StringOf(v)) = Returns(v, StringOf(v))
      BY <2>1, TypesComeBack
    <2>3. classes[k] \notin Errors
      BY <2>1 DEF Classes, Errors
    <2>4. o[i] = EntryOutcome(classes, Entry(k, StringOf(v)))
      OBVIOUS
    <2> HIDE DEF o, k, v
    <2>. QED
      BY <2>1, <2>2, <2>3, <2>4 DEF EntryOutcome, CastTo, Entry, Returns
  <1>2. DOMAIN strings = 1..n /\ strings = [i \in 1..n |-> strings[i]]
    OBVIOUS
  <1>3. all.new = entries /\ all.error = Fine
    <2>1. Raised(n, o) = {}
      <3> HIDE DEF o
      <3>. QED
        BY <1>1 DEF Raised
    <2>2. /\ all.new = [i \in 1..n |-> IF Reached(n, o, i) THEN o[i].new ELSE strings[i]]
          /\ all.error = IF Raised(n, o) = {} THEN Fine ELSE o[Min(Raised(n, o))].error
      <3> HIDE DEF o, strings
      <3>1. DOMAIN strings = 1..n
        BY <1>2
      <3>2. \A seq, outcomes : DOMAIN seq = 1..n =>
              /\ Outcome(outcomes, seq).new =
                   [i \in 1..n |-> IF Reached(n, outcomes, i) THEN outcomes[i].new ELSE seq[i]]
              /\ Outcome(outcomes, seq).error =
                   IF Raised(n, outcomes) = {} THEN Fine ELSE outcomes[Min(Raised(n, outcomes))].error
        BY OutcomeIs
      <3>. QED
        BY <3>1, <3>2
    <2> HIDE DEF o, strings, all
    <2>3. \A i \in 1..n : (IF Reached(n, o, i) THEN o[i].new ELSE strings[i]) = entries[i]
      BY <1>1, <2>1 DEF Reached
    <2>4. [i \in 1..n |-> IF Reached(n, o, i) THEN o[i].new ELSE strings[i]]
            = [i \in 1..n |-> entries[i]]
      BY <2>3
    <2>5. entries = [i \in 1..n |-> entries[i]]
      OBVIOUS
    <2>. QED
      BY <2>1, <2>2, <2>4, <2>5
  <1>4. CastEntries(classes, strings) =
          [error |-> all.error, new |-> Dict(all.new), old |-> Dict(all.new)]
    <2> HIDE DEF strings
    <2>. QED
      BY <1>2, CastEntriesIs
  <1> HIDE DEF all
  <1>. QED
    BY <1>3, <1>4 DEF Returns
=============================================================================

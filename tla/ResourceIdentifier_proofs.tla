--------------------- MODULE ResourceIdentifier_proofs ---------------------
(* The identifier for every limit and all names.                              *)
EXTENDS ResourceIdentifier, TLAPS

\* The shares of the two names, whenever an identifier is made at all.
LEMMA Shares ==
    ASSUME NEW max \in Int, max >= MIN_PHYSICAL_RESOURCE_ID_LENGTH,
           NEW s \in Stacks, CleanStackName(s) \in Nat, NEW l \in Nat
    PROVE  LET free == FreeChars(max)
               id == Identifier(max, s, l)
           IN /\ free \in Nat /\ free >= 2
              /\ id.logical = Least(free \div 2, l)
              /\ id.stack = Least(free - id.logical, CleanStackName(s))
              /\ id.separator = IF Separate(max) THEN 1 ELSE 0
              /\ id.hash = 1 + HASH_LENGTH
              /\ id.logical \in Nat /\ id.logical <= free \div 2
              /\ id.stack \in Nat /\ id.stack + id.logical <= free
              /\ Total(id) = id.stack + id.logical + max - free
<1> DEFINE free == FreeChars(max)
           id == Identifier(max, s, l)
<1>1. free \in Nat /\ free >= 2
  BY DEF FreeChars, Separate, MIN_PHYSICAL_RESOURCE_ID_LENGTH, MIN_PREFERRED_LENGTH, HASH_LENGTH
<1>2. /\ id.logical = Least(free \div 2, l)
      /\ id.stack = Least(free - id.logical, CleanStackName(s))
      /\ id.separator = IF Separate(max) THEN 1 ELSE 0
      /\ id.hash = 1 + HASH_LENGTH
  BY DEF Identifier, CharsForResourceName, CharsForStackName
<1>3. id.logical \in Nat /\ id.logical <= free \div 2
  <2> HIDE DEF free, id
  <2> QED BY <1>1, <1>2 DEF Least
<1>4. id.stack \in Nat /\ id.stack + id.logical <= free
  <2> HIDE DEF free, id
  <2> QED BY <1>1, <1>2, <1>3 DEF Least
<1>5. Total(id) = id.stack + id.logical + max - free
  <2>1. free = max - (HASH_LENGTH + 1) - (IF Separate(max) THEN 1 ELSE 0)
    BY DEF FreeChars
  <2> HIDE DEF free, id
  <2> QED BY <1>2, <1>3, <1>4, <2>1 DEF Total, HASH_LENGTH
<1> QED BY <1>1, <1>2, <1>3, <1>4, <1>5

\* What the properties ask, of the identifier for any arguments.
LEMMA Returned ==
    ASSUME NEW max \in Int, max >= MIN_PHYSICAL_RESOURCE_ID_LENGTH,
           NEW s \in Stacks, CleanStackName(s) \in Nat, NEW l \in Nat,
           NEW id, id = Identifier(max, s, l)
    PROVE  /\ id \in [stack : Nat, separator : {0, 1}, logical : Nat,
                      hash : {0, 1 + HASH_LENGTH}]
           /\ Total(id) <= max /\ id.hash = 1 + HASH_LENGTH
           /\ CleanStackName(s) > 0 => id.stack > 0
           /\ l > 0 => id.logical > 0
           /\ Total(id) < max =>
                /\ id.stack = CleanStackName(s)
                /\ id.logical < l => id.logical = FreeChars(max) \div 2
<1> DEFINE free == FreeChars(max)
<1>1. /\ free \in Nat /\ free >= 2
      /\ id.logical = Least(free \div 2, l)
      /\ id.stack = Least(free - id.logical, CleanStackName(s))
      /\ id.separator = IF Separate(max) THEN 1 ELSE 0
      /\ id.hash = 1 + HASH_LENGTH
      /\ id.logical \in Nat /\ id.logical <= free \div 2
      /\ id.stack \in Nat /\ id.stack + id.logical <= free
      /\ Total(id) = id.stack + id.logical + max - free
  BY Shares
<1>2. id = [stack |-> id.stack, separator |-> id.separator,
            logical |-> id.logical, hash |-> id.hash]
  BY DEF Identifier
<1> HIDE DEF free
<1>3. id \in [stack : Nat, separator : {0, 1}, logical : Nat, hash : {0, 1 + HASH_LENGTH}]
  BY <1>1, <1>2
<1>4. Total(id) <= max
  BY <1>1
<1>5. CleanStackName(s) > 0 => id.stack > 0
  BY <1>1 DEF Least
<1>6. l > 0 => id.logical > 0
  BY <1>1 DEF Least
<1>7. Total(id) < max =>
        /\ id.stack = CleanStackName(s)
        /\ id.logical < l => id.logical = free \div 2
  BY <1>1 DEF Least
<1> QED BY <1>1, <1>3, <1>4, <1>5, <1>6, <1>7 DEF free

IdentifierInv == IdentifierTypeOK /\ IdentifierFits /\ BothNamesShow /\ CutOnlyForLength

-----------------------------------------------------------------------------
(* The conjunction of the properties is inductive: the one step that makes an
   identifier takes no more from the state than its types.                   *)

LEMMA InvariantHolds == Spec => []IdentifierInv
<1>1. Init => IdentifierInv
  <2> SUFFICES ASSUME Init PROVE IdentifierInv
    OBVIOUS
  <2>1. CleanStackName(stack) \in Nat
    <3>1. /\ stack.name \in Nat /\ stack.whole \in Nat /\ stack.doubles \in Nat
          /\ ~stack.arn => stack.name = stack.whole
          /\ LiteralLength(stack) + 2 * stack.doubles <= stack.name
          /\ LiteralLength(stack) \in {0, 3}
      BY LengthsAssumption DEF Init, Stacks, LiteralLength
    <3>2. StackName(stack) = stack.name
      BY <3>1 DEF StackName
    <3>3. \A n, d \in Nat : \A k \in {0, 3} : k + 2 * d <= n => n - k - d \in Nat
      OBVIOUS
    <3> QED BY <3>1, <3>2, <3>3 DEF CleanStackName
  <2> QED BY <2>1 DEF Init, IdentifierInv, IdentifierTypeOK, IdentifierFits, BothNamesShow,
                CutOnlyForLength, NoParts
<1>2. IdentifierInv /\ [Next]_vars => IdentifierInv'
  <2> SUFFICES ASSUME IdentifierInv, [Next]_vars PROVE IdentifierInv'
    OBVIOUS
  <2>1. CASE Refuse
    BY <2>1 DEF Refuse, IdentifierInv, IdentifierTypeOK, IdentifierFits, BothNamesShow,
                CutOnlyForLength
  <2>2. CASE Generate
    <3>1. /\ maxLength >= MIN_PHYSICAL_RESOURCE_ID_LENGTH
          /\ parts' = Identifier(maxLength, stack, logical)
          /\ pc' = "returned" /\ UNCHANGED <<maxLength, stack, logical>>
      BY <2>2 DEF Generate
    <3>2. /\ maxLength \in Limits /\ maxLength \in Int
          /\ stack \in Stacks /\ CleanStackName(stack) \in Nat
          /\ logical \in Lengths /\ logical \in Nat
      BY LimitsAssumption, LengthsAssumption DEF IdentifierInv, IdentifierTypeOK
    <3>3. /\ parts' \in [stack : Nat, separator : {0, 1}, logical : Nat,
                         hash : {0, 1 + HASH_LENGTH}]
          /\ Total(parts') <= maxLength /\ parts'.hash = 1 + HASH_LENGTH
          /\ CleanStackName(stack) > 0 => parts'.stack > 0
          /\ logical > 0 => parts'.logical > 0
          /\ Total(parts') < maxLength =>
               /\ parts'.stack = CleanStackName(stack)
               /\ parts'.logical < logical => parts'.logical = FreeChars(maxLength) \div 2
      BY <3>1, <3>2, Returned
    <3>4. IdentifierTypeOK'
      BY <3>1, <3>2, <3>3 DEF IdentifierTypeOK
    <3>5. IdentifierFits' /\ BothNamesShow' /\ CutOnlyForLength'
      BY <3>1, <3>3 DEF IdentifierFits, BothNamesShow, CutOnlyForLength
    <3> QED BY <3>4, <3>5 DEF IdentifierInv
  <2>3. CASE UNCHANGED vars
    BY <2>3 DEF vars, IdentifierInv, IdentifierTypeOK, IdentifierFits, BothNamesShow,
                CutOnlyForLength
  <2> QED BY <2>1, <2>2, <2>3 DEF Next
<1> QED BY <1>1, <1>2, PTL DEF Spec, IdentifierInv

\* For every limit and all lengths of the names, generate_resource_identifier
\* returns parts that are lengths, with all of the hash or nothing made.
THEOREM IdentifierTypeCorrect == Spec => []IdentifierTypeOK
<1>1. IdentifierInv => IdentifierTypeOK
  BY DEF IdentifierInv
<1> QED BY <1>1, InvariantHolds, PTL

\* What generate_resource_identifier returns is never longer than max_length, and
\* never without its hash, which makes it unique.
THEOREM IdentifierIsRight == Spec => []IdentifierFits
<1>1. IdentifierInv => IdentifierFits
  BY DEF IdentifierInv
<1> QED BY <1>1, InvariantHolds, PTL

\* However short the limit that is accepted, a stack name and a logical id that
\* are not empty both have a part in the identifier.
THEOREM NamesAlwaysShow == Spec => []BothNamesShow
<1>1. IdentifierInv => BothNamesShow
  BY DEF IdentifierInv
<1> QED BY <1>1, InvariantHolds, PTL

\* If there was room left, the stack name is whole, and the logical id is cut to
\* no less than its half of what is free.
THEOREM NothingCutNeedlessly == Spec => []CutOnlyForLength
<1>1. IdentifierInv => CutOnlyForLength
  BY DEF IdentifierInv
<1> QED BY <1>1, InvariantHolds, PTL
=============================================================================

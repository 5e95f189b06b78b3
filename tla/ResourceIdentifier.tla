------------------------- MODULE ResourceIdentifier -------------------------
(* generate_resource_identifier: the name a create handler gives the resource *)
(* it makes, out of the stack's name, the logical id and a hash of the        *)
(* request's token, in no more than max_length characters.  Strings are their *)
(* lengths.                                                                   *)
EXTENDS Integers

CONSTANTS
    Limits,   \* values of max_length
    Lengths   \* lengths of the names that are passed in

ASSUME LimitsAssumption == Limits \subseteq Int
ASSUME LengthsAssumption == Lengths \subseteq Nat

MIN_PHYSICAL_RESOURCE_ID_LENGTH == 15
MIN_PREFERRED_LENGTH == 17
HASH_LENGTH == 12

VARIABLES
    pc,        \* "called", "returned", "raised"
    maxLength, \* the arguments: max_length,
    stack,     \* stack_id_or_name, see Stacks,
    logical,   \* and logical_resource_id
    parts      \* the identifier, by the length of each of its parts

vars == <<pc, maxLength, stack, logical, parts>>

\* A stack's name or ARN: the length of all of it, that of the name an ARN names,
\* whether the text "^-+" is in that name, which str.replace takes literally, and the
\* number of "--" in what is left without it.
Stacks == [arn : BOOLEAN, whole : Lengths, name : Lengths, literal : BOOLEAN,
           doubles : Lengths]

LiteralLength(s) == IF s.literal THEN 3 ELSE 0

NoParts == [stack |-> 0, separator |-> 0, logical |-> 0, hash |-> 0]
Total(p) == p.stack + p.separator + p.logical + p.hash

Least(a, b) == IF a <= b THEN a ELSE b

\* stack_name.split("/")[1] of an ARN, the argument itself otherwise.
StackName(s) == IF s.arn THEN s.name ELSE s.whole

\* .replace("^-+", "", 1).replace("--", "-")
CleanStackName(s) == StackName(s) - LiteralLength(s) - s.doubles

\* The arguments are what they were; no share is negative, which as the bound of a
\* slice would count from the end of the name.
IdentifierTypeOK ==
    /\ pc \in {"called", "returned", "raised"}
    /\ maxLength \in Limits /\ logical \in Lengths
    /\ stack \in Stacks /\ CleanStackName(stack) \in Nat
    /\ parts \in [stack : Nat, separator : {0, 1}, logical : Nat, hash : {0, 1 + HASH_LENGTH}]

Separate(max) == max > MIN_PREFERRED_LENGTH

\* A slip: the separator is not counted.
FreeCharsNoSeparator(max) == max - (HASH_LENGTH + 1)

\* What the hash, the hyphen before it and the separator leave for the two names.
FreeChars(max) == max - (HASH_LENGTH + 1) - (IF Separate(max) THEN 1 ELSE 0)

\* A slip: the logical id gets at most half, and the stack's name too.
CharsForStackNameHalf(max, s, l) == Least(FreeChars(max) \div 2, CleanStackName(s))

\* A slip: the halves are swapped, and the logical id takes what is left.
CharsForResourceNameGreedy(max, l) == Least(FreeChars(max), l)

CharsForResourceName(max, l) == Least(FreeChars(max) \div 2, l)

CharsForStackName(max, s, l) ==
    Least(FreeChars(max) - CharsForResourceName(max, l), CleanStackName(s))

\* The last part is a hyphen and the first characters of the hash.
Identifier(max, s, l) ==
    [stack |-> CharsForStackName(max, s, l),
     separator |-> IF Separate(max) THEN 1 ELSE 0,
     logical |-> CharsForResourceName(max, l),
     hash |-> 1 + HASH_LENGTH]

Init ==
    /\ pc = "called" /\ parts = NoParts
    /\ maxLength \in Limits /\ logical \in Lengths
    /\ stack \in {s \in Stacks :
                     /\ s.arn => s.name < s.whole /\ ~s.literal
                     /\ ~s.arn => s.name = s.whole
                     /\ LiteralLength(s) + 2 * s.doubles <= s.name}

Refuse ==
    /\ pc = "called" /\ maxLength < MIN_PHYSICAL_RESOURCE_ID_LENGTH
    /\ pc' = "raised"
    /\ UNCHANGED <<maxLength, stack, logical, parts>>

\* A slip: no identifier is refused.
GenerateAnyLength ==
    /\ pc = "called"
    /\ pc' = "returned" /\ parts' = Identifier(maxLength, stack, logical)
    /\ UNCHANGED <<maxLength, stack, logical>>

Generate ==
    /\ pc = "called" /\ maxLength >= MIN_PHYSICAL_RESOURCE_ID_LENGTH
    /\ pc' = "returned" /\ parts' = Identifier(maxLength, stack, logical)
    /\ UNCHANGED <<maxLength, stack, logical>>

Next == Refuse \/ Generate

Spec == Init /\ [][Next]_vars

-----------------------------------------------------------------------------
(* Properties.                                                               *)

\* The identifier is never longer than was asked for, at any of the lengths where
\* the arithmetic changes, and never loses a character of the hash, which is what
\* makes it unique.
IdentifierFits ==
    pc = "returned" => Total(parts) <= maxLength /\ parts.hash = 1 + HASH_LENGTH

\* A name that is not empty shows in the identifier, however long the other is.
BothNamesShow ==
    pc = "returned" =>
        /\ CleanStackName(stack) > 0 => parts.stack > 0
        /\ logical > 0 => parts.logical > 0

\* Characters are given away only where the code says so: an identifier shorter
\* than max_length has the whole name of the stack, and a logical id that is cut
\* has taken its half.
CutOnlyForLength ==
    pc = "returned" /\ Total(parts) < maxLength =>
        /\ parts.stack = CleanStackName(stack)
        /\ parts.logical < logical => parts.logical = FreeChars(maxLength) \div 2
=============================================================================

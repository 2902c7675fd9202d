--------------------------- MODULE BusinessRules ---------------------------
(***************************************************************************)
(* Validation of an entity: AbstractUpdatableClass.Validate and the rules  *)
(* of Model/BusinessRules, over an object whose properties change between  *)
(* one validation and the next.                                            *)
(***************************************************************************)
EXTENDS Integers, Sequences

CONSTANTS
  Properties, \* the properties of the object
  May,        \* May[p]: the values property p may have
  Null,       \* no value
  Order,      \* Order[t][v]: where value v stands among those of data type t
  NoParse,    \* ... if it parses as one
  NaN,        \* ... and is not NaN, which double.Parse accepts
  Length,     \* Length[v]: the length of v as a text
  Matches,    \* Matches[pattern]: the values that match
  Zero,       \* the key of an object that is not stored yet
  Rules       \* the rules added to the object, in order

ValidationDataType == {"String", "Integer", "Double", "Decimal", "Date"}

ValidationOperator ==
  {"Equal", "NotEqual", "GreaterThan", "GreaterThanEqual", "LessThan", "LessThanEqual"}

ASSUME KeyAssumption == {"ID", "Deleted", "DeletedBy"} \subseteq Properties
ASSUME TextsAssumption ==
  \A v \in (UNION {May[p] : p \in Properties}) \ {Null} :
    Order["String"][v] \notin {NoParse, NaN}
ASSUME RulesAssumption == Len(Rules) \in Nat /\ DOMAIN Rules = 1 .. Len(Rules)

VARIABLES
  object,   \* the values of the properties
  messages, \* messages[i]: ErrorMessage of rule i, its own or that of the catch block
  errors,   \* ValidationErrors: rules with their messages
  outcome   \* what the last Validate did

rulesVars == <<object, messages, errors, outcome>>
-----------------------------------------------------------------------------
(***************************************************************************)
(* The rules.                                                              *)
(***************************************************************************)
\* How two values stand to each other as values of type t.
Relation(t, v, w) ==
  LET a == Order[t][v]
      b == Order[t][w]
  IN IF NaN \in {a, b} THEN "unordered"
     ELSE IF a < b THEN "less" ELSE IF a = b THEN "equal" ELSE "greater"

Parses(t, v) == v # Null /\ Order[t][v] # NoParse

\* Mutant of Holding: one boundary is missing.
HoldingStrictly ==
  [Equal |-> {"equal"}, NotEqual |-> {"less", "greater", "unordered"},
   GreaterThan |-> {"greater"}, GreaterThanEqual |-> {"greater"},
   LessThan |-> {"less"}, LessThanEqual |-> {"less", "equal"}]

\* The relations in which an operator holds.
Holding ==
  [Equal |-> {"equal"}, NotEqual |-> {"less", "greater", "unordered"},
   GreaterThan |-> {"greater"}, GreaterThanEqual |-> {"greater", "equal"},
   LessThan |-> {"less"}, LessThanEqual |-> {"less", "equal"}]

\* ValidateCompare.  A catch block rejects what is null or does not parse.
Compare(o, p, other, op, t) ==
  /\ Parses(t, o[p]) /\ Parses(t, o[other])
  /\ Relation(t, o[p], o[other]) \in Holding[op]

\* ValidateRange; for texts the comparison with the lower bound has its
\* operands the other way round.
InRange(o, p, min, max, t) ==
  /\ Parses(t, o[p]) /\ Parses(t, min) /\ Parses(t, max)
  /\ IF t = "String" THEN Relation(t, min, o[p]) \in {"greater", "equal"}
                     ELSE Relation(t, o[p], min) \in {"greater", "equal"}
  /\ Relation(t, o[p], max) \in {"less", "equal"}

\* ValidateRequired: null throws in ToString, and the catch block rejects it.
Present(v) == v # Null /\ Length[v] > 0

\* ValidateLength.
LengthFits(v, min, max) == Length[v] \in min .. max

\* ValidateRegex, and ValidateEmail, which only gives it a pattern.
MatchesPattern(v, pattern) == v \in Matches[pattern]

\* ValidateDelete.  Convert.ToBoolean throws for the date that Deleted holds
\* and is false for null, so that only an object without a key passes.
MayDelete(key) == key = Zero

\* ... and the date that makes it throw.
DeleteBreaks(o, p) == o[p] # Zero /\ o["Deleted"] # Null

\* BusinessRule.Validate, of the rule's own class.
Accepts(rule, o) ==
  LET v == o[rule.property]
  IN \/ rule.kind = "Required" /\ Present(v)
     \/ rule.kind = "Length" /\ LengthFits(v, rule.min, rule.max)
     \/ rule.kind = "Regex" /\ MatchesPattern(v, rule.pattern)
     \/ rule.kind = "Compare" /\ Compare(o, rule.property, rule.other, rule.op, rule.type)
     \/ rule.kind = "Range" /\ InRange(o, rule.property, rule.min, rule.max, rule.type)
     \/ rule.kind = "Delete" /\ MayDelete(v)

\* Two rules have no catch block: ToString of null throws out of Validate.
RuleThrows(rule, o) == rule.kind \in {"Length", "Regex"} /\ o[rule.property] = Null

\* The test in the loop of AbstractUpdatableClass.Validate.
Rejects(rule, o) == ~ RuleThrows(rule, o) /\ ~ Accepts(rule, o)
-----------------------------------------------------------------------------
(***************************************************************************)
(* AbstractUpdatableClass                                                  *)
(***************************************************************************)
RulesInit ==
  /\ object \in {o \in [Properties -> UNION {May[p] : p \in Properties}] :
                   \A p \in Properties : o[p] \in May[p]}
  /\ messages = [i \in DOMAIN Rules |-> "own"]
  /\ errors = <<>> /\ outcome = "none"

Assign(p, v) ==
  /\ object' = [object EXCEPT ![p] = v]
  /\ UNCHANGED <<messages, errors, outcome>>

\* The rules before the first that throws.
Run(o) == {i \in DOMAIN Rules : \A j \in 1 .. i : ~ RuleThrows(Rules[j], o)}

\* A rule that is reached and broken.
IsBroken(o, i) == i \in Run(o) /\ Rejects(Rules[i], o)

\* Mutant of Failing: a broken rule adds its error twice.
FailingTwice(o) ==
  LET upTo[i \in 0 .. Len(Rules)] ==
        IF i = 0 THEN <<>>
        ELSE IF IsBroken(o, i) THEN upTo[i - 1] \o <<i, i>> ELSE upTo[i - 1]
  IN upTo[Len(Rules)]

\* A loop over the rules.
Failing(o) ==
  LET upTo[i \in 0 .. Len(Rules)] ==
        IF i = 0 THEN <<>>
        ELSE IF IsBroken(o, i) THEN Append(upTo[i - 1], i) ELSE upTo[i - 1]
  IN upTo[Len(Rules)]

\* The catch block of ValidateDelete changes the message for good.
Reworded(o) ==
  [i \in DOMAIN Rules |->
     IF i \in Run(o) /\ Rules[i].kind = "Delete" /\ DeleteBreaks(o, Rules[i].property)
     THEN "notFound" ELSE messages[i]]

Listed(o) ==
  LET failing == Failing(o)
      reworded == Reworded(o)
  IN [k \in DOMAIN failing |-> <<failing[k], reworded[failing[k]]>>]

\* Mutant of Errors: the list is not cleared.
ErrorsAdded(o) ==
  IF Len(errors) > Len(Rules) THEN errors ELSE errors \o Listed(o)

\* ValidationErrors after a validation, which begins with Clear.
Errors(o) == Listed(o)

Validate ==
  /\ UNCHANGED object
  /\ messages' = Reworded(object)
  /\ errors' = Errors(object)
  /\ outcome' = IF Run(object) # DOMAIN Rules THEN "thrown"
                ELSE IF Failing(object) = <<>> THEN "valid" ELSE "invalid"

RulesNext ==
  \/ \E p \in Properties : \E v \in May[p] : Assign(p, v)
  \/ Validate

RulesSpec == RulesInit /\ [][RulesNext]_rulesVars
-----------------------------------------------------------------------------
(***************************************************************************)
(* Properties.                                                             *)
(***************************************************************************)
\* Types; however often the object is validated, each error is of a rule of
\* its own: the list is cleared before, and no rule is listed twice.
RulesTypeOK ==
  /\ object \in [Properties -> UNION {May[p] : p \in Properties}]
  /\ \A p \in Properties : object[p] \in May[p]
  /\ messages \in [DOMAIN Rules -> {"own", "notFound"}]
  /\ errors \in Seq((DOMAIN Rules) \X {"own", "notFound"}) /\ Len(errors) <= Len(Rules)
  /\ \A k, n \in DOMAIN errors : errors[k][1] = errors[n][1] => k = n
  /\ outcome \in {"none", "valid", "invalid", "thrown"}

\* Whatever earlier validations found, the errors after a validation are those
\* of the rules the object breaks now, in the order of the rules; none is
\* missing unless a rule threw, and there are none exactly if it is valid.
ErrorsAreOfThisRun ==
  [][Validate =>
       LET found == {errors'[k][1] : k \in DOMAIN errors'}
           rejecting == {i \in DOMAIN Rules : Rejects(Rules[i], object)}
       IN /\ found \subseteq rejecting
          /\ outcome' # "thrown" => /\ found = rejecting
                                    /\ (outcome' = "valid") <=> (found = {})
          /\ \A k, n \in DOMAIN errors' : k < n => errors'[k][1] < errors'[n][1]]_rulesVars

Negation == [Equal |-> "NotEqual", GreaterThan |-> "LessThanEqual",
             LessThan |-> "GreaterThanEqual"]

\* Of two comparisons that are each other's negation exactly one accepts the
\* object, unless a value is missing, does not parse or is NaN; stated of the
\* pairs of properties that the rules compare, for every data type.
NegationsExclude ==
  \A i \in DOMAIN Rules, t \in ValidationDataType, op \in DOMAIN Negation :
    Rules[i].kind = "Compare" =>
      LET p == Rules[i].property
          other == Rules[i].other
          accepted == {c \in {op, Negation[op]} : Compare(object, p, other, c, t)}
          comparable == \A q \in {p, other} : /\ Parses(t, object[q])
                                             /\ Order[t][object[q]] # NaN
      IN /\ accepted # {op, Negation[op]}
         /\ comparable => accepted # {}

\* "Validates a range (min and max) for a given data type": what a range rule
\* accepts lies between its bounds.
RangeMeansBetween ==
  \A i \in DOMAIN Rules :
    Rules[i].kind = "Range" /\ Accepts(Rules[i], object) =>
      Relation(Rules[i].type, object[Rules[i].property], Rules[i].min) # "less"
=============================================================================

------------------------- MODULE SchedulerConditions -------------------------
(***************************************************************************)
(* Whether a schedule that is due runs: its conditions, joined by AND and   *)
(* OR, are read one after the other and the expression is then evaluated    *)
(* from left to right, AND before OR, over three truth values               *)
(* (evaluateCondition and schedulerEvaluateConditionExpression).            *)
(*                                                                         *)
(* What a comparison yields and whether a value can be read is chosen.      *)
(***************************************************************************)
EXTENDS Integers, Sequences

CONSTANT SCHEDULER_MAX_CONDITIONS

ASSUME ConditionsAssumption == SCHEDULER_MAX_CONDITIONS \in Nat

Truth == {"false", "true", "unknown"}
Join  == {"and", "or"}

VARIABLES
  joins,      \* joins[i] joins condition i to those before it; joins[1] = "and"
  values,     \* what the conditions that were read so far are
  i,          \* conditions the evaluation has passed
  expression, \* the OR of the finished groups
  andGroup,   \* the AND of the group in work
  decision    \* "none" until the evaluation is over, then its result

vars == <<joins, values, i, expression, andGroup, decision>>

count == Len(joins)

TruthAnd(left, right) ==
  IF "false" \in {left, right} THEN "false"
  ELSE IF "unknown" \in {left, right} THEN "unknown" ELSE "true"

\* Variant: what is unknown does not count.
TruthOrIgnoringUnknown(left, right) == IF "true" \in {left, right} THEN "true" ELSE "false"

TruthOr(left, right) ==
  IF "true" \in {left, right} THEN "true"
  ELSE IF "unknown" \in {left, right} THEN "unknown" ELSE "false"

Init ==
  /\ joins \in UNION {{js \in [1 .. n -> Join] : n > 0 => js[1] = "and"} :
                        n \in 0 .. SCHEDULER_MAX_CONDITIONS}
  /\ values = <<>>
  /\ i = 0 /\ expression = "false" /\ andGroup = "true"
  /\ decision = "none"

\* No conditions: the schedule runs.
Unconditional ==
  /\ count = 0 /\ decision = "none"
  /\ decision' = "true"
  /\ UNCHANGED <<joins, values, i, expression, andGroup>>

\* A condition is read and compared, or its value is not available.
Read ==
  /\ Len(values) < count
  /\ \E value \in Truth : values' = Append(values, value)
  /\ UNCHANGED <<joins, i, expression, andGroup, decision>>

Begin ==
  /\ count > 0 /\ Len(values) = count /\ i = 0
  /\ i' = 1 /\ andGroup' = values[1]
  /\ UNCHANGED <<joins, values, expression, decision>>

\* Variant: the group in work is dropped.
NextGroupDropping ==
  /\ i \in 1 .. count - 1 /\ joins[i + 1] = "or"
  /\ i' = i + 1
  /\ andGroup' = values[i + 1]
  /\ UNCHANGED <<joins, values, expression, decision>>

\* An OR ends a group and begins another.
NextGroup ==
  /\ i \in 1 .. count - 1 /\ joins[i + 1] = "or"
  /\ i' = i + 1
  /\ expression' = TruthOr(expression, andGroup)
  /\ andGroup' = values[i + 1]
  /\ UNCHANGED <<joins, values, decision>>

SameGroup ==
  /\ i \in 1 .. count - 1 /\ joins[i + 1] = "and"
  /\ i' = i + 1
  /\ andGroup' = TruthAnd(andGroup, values[i + 1])
  /\ UNCHANGED <<joins, values, expression, decision>>

Decide ==
  /\ count > 0 /\ i = count /\ decision = "none"
  /\ decision' = TruthOr(expression, andGroup)
  /\ UNCHANGED <<joins, values, i, expression, andGroup>>

Next == Unconditional \/ Read \/ Begin \/ NextGroup \/ SameGroup \/ Decide

Spec == Init /\ [][Next]_vars

-----------------------------------------------------------------------------
(* What the expression means: a group begins at the first condition and at  *)
(* every OR, and goes on over the ANDs that follow.                         *)

Starts(a)     == a = 1 \/ joins[a] = "or"
InGroup(a, k) == \A l \in a + 1 .. k : joins[l] = "and"

\* What the expression is when every condition is known to be what known says.
Holds(known) ==
  \E a \in 1 .. count : Starts(a) /\ \A k \in a .. count : InGroup(a, k) => known[k]

\* The ways the conditions may really be: those that could not be read are free.
Possible ==
  {known \in [1 .. count -> BOOLEAN] :
     \A k \in 1 .. count : values[k] # "unknown" => (known[k] <=> values[k] = "true")}

\* A schedule runs exactly when its expression, AND before OR, holds whatever the
\* conditions are that could not be read; it counts as false exactly when the
\* expression cannot hold, and as unavailable otherwise: nothing that is known is
\* overlooked and nothing unknown is guessed.
DecisionIsExact ==
  decision # "none" =>
    /\ (decision = "true"  <=> \A known \in Possible : count = 0 \/ Holds(known))
    /\ (decision = "false" <=> count > 0 /\ \A known \in Possible : ~Holds(known))

\* Whether the conditions T make the group that m is in, as far as it is read, or a group
\* that ended before it.
GroupIn(m, T)   == \A k \in 1 .. m : InGroup(k, m) => k \in T
EarlierIn(m, T) ==
  \E a \in 1 .. m : Starts(a) /\ ~InGroup(a, m) /\ \A k \in a .. m : InGroup(a, k) => k \in T

\* The conditions that are true for sure, and those that are not false for sure.
Sure == {k \in 1 .. count : values[k] = "true"}
Open == {k \in 1 .. count : values[k] # "false"}

\* Inductive: what is known of the conditions that were passed.
EvaluatedSoFar ==
  /\ joins \in Seq(Join) /\ (count > 0 => joins[1] = "and")
  /\ values \in Seq(Truth) /\ Len(values) <= count
  /\ i \in 0 .. count /\ expression \in Truth /\ andGroup \in Truth
  /\ IF i = 0 THEN expression = "false"
     ELSE /\ Len(values) = count
          /\ (andGroup = "true"    <=> GroupIn(i, Sure))   /\ (andGroup # "false"   <=> GroupIn(i, Open))
          /\ (expression = "true"  <=> EarlierIn(i, Sure)) /\ (expression # "false" <=> EarlierIn(i, Open))
  /\ \/ decision = "none"
     \/ decision = "true" /\ count = 0
     \/ decision = TruthOr(expression, andGroup) /\ i = count /\ count > 0
=============================================================================

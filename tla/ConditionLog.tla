----------------------------- MODULE ConditionLog -----------------------------
(***************************************************************************)
(* The condition list of an operation (api/v1/condition.go): an ordered    *)
(* list, one condition per type, the last logged at the end, each with the *)
(* times of its last update and of its last transition.                    *)
(*                                                                         *)
(* The controllers only use the summary of module OperationStatus; this    *)
(* module shows that logging on the list is logging on the summary.        *)
(* Times have the resolution of metav1.Time, one second, so several        *)
(* conditions may be logged at one time.                                   *)
(***************************************************************************)
EXTENDS OperationStatus, Naturals, Sequences, FiniteSets

CONSTANTS
  Types,    \* the condition types that occur
  Whys,     \* the reasons and messages that occur
  MaxTime   \* bound on the clock

ASSUME MaxTimeAssumption == MaxTime \in Nat

ASSUME TypesAssumption == Types \subseteq ConditionTypes

VARIABLES
  conds,  \* status.Conditions
  clock

logVars == <<conds, clock>>

newCondition(type, why) ==
  [type |-> type, why |-> why, update |-> clock, transition |-> clock]

getLastEntityCondition == conds[Len(conds)]

SameAsLast(type, why) ==
  /\ conds # <<>>
  /\ getLastEntityCondition.type = type
  /\ getLastEntityCondition.why = why

\* The transition time of the last condition is kept when the same type is
\* logged with another reason or message.
updatedCondition(type, why) ==
  LET new == newCondition(type, why)
  IN  IF conds # <<>> /\ getLastEntityCondition.type = type /\ ~SameAsLast(type, why)
      THEN [new EXCEPT !.transition = getLastEntityCondition.transition]
      ELSE new

\* Bug: the type is not taken off the list before it is logged again.
removeConditionNever(type) == conds

\* The loop appends the conditions of the other types, one per turn.
removeCondition(type) ==
  LET newConditions[i \in 0 .. Len(conds)] ==
        IF i = 0 THEN <<>>
        ELSE IF conds[i].type = type THEN newConditions[i - 1]
        ELSE Append(newConditions[i - 1], conds[i])
  IN  newConditions[Len(conds)]

\* Bug: an update of the last condition counts as a transition.
appendConditionAnew(type, why) == Append(removeCondition(type), newCondition(type, why))

appendCondition(type, why) == Append(removeCondition(type), updatedCondition(type, why))

\* Bug: a condition of a type that is on the list stays where it is.
logConditionInPlace(type, why) ==
  conds' = IF \E i \in DOMAIN conds : conds[i].type = type
           THEN [i \in DOMAIN conds |->
                   IF conds[i].type = type THEN newCondition(type, why) ELSE conds[i]]
           ELSE appendCondition(type, why)

\* An unchanged condition is not logged again unless it is final.
logListCondition(type, why) ==
  conds' = IF SameAsLast(type, why) /\ type \notin FinalTypes
           THEN conds
           ELSE appendCondition(type, why)

LogInit == conds = <<>> /\ clock = 0

Log == \E type \in Types, why \in Whys :
         logListCondition(type, why) /\ UNCHANGED clock

Tick == clock < MaxTime /\ clock' = clock + 1 /\ UNCHANGED conds

LogNext == Log \/ Tick

LogSpec == LogInit /\ [][LogNext]_logVars

(***************************************************************************)
(* Properties.                                                             *)
(***************************************************************************)
\* The list as the controllers see it: the types on it and its last entry.
Summary ==
  [has        |-> {conds[i].type : i \in DOMAIN conds},
   last       |-> IF conds = <<>> THEN NoCondition
                  ELSE NewOperationCondition(getLastEntityCondition.type,
                                             getLastEntityCondition.why),
   start      |-> FALSE,
   completion |-> FALSE]

\* removeCondition keeps one condition per type, in the order in which the
\* operation was in them: each lasts from its transition to its last update, the
\* next one begins no earlier, and the last entry is the current one.
OnePerTypeInOrder ==
  \A i, j \in DOMAIN conds : i < j =>
    /\ conds[i].type # conds[j].type
    /\ conds[i].update <= conds[j].transition
    /\ conds[j].transition <= conds[j].update

\* logCondition on the list is logCondition on the summary, for whatever is
\* logged: in particular the condition logged last is the last of the list.
LogsOnSummary ==
  [][\A type \in Types, why \in Whys :
       logListCondition(type, why) => Summary' = logCondition(Summary, type, why)]_logVars

\* A new reason or message for the last condition is not a transition.
TransitionKept ==
  [][conds # <<>> /\ conds' # <<>> /\ conds'[Len(conds')].type = getLastEntityCondition.type
       /\ conds'[Len(conds')].why # getLastEntityCondition.why
     => conds'[Len(conds')].transition = getLastEntityCondition.transition]_conds
=============================================================================

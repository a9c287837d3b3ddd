------------------------------ MODULE Enrolment ------------------------------
(***************************************************************************)
(* The registration of learners, the fee catalogue and the fee items       *)
(* assigned to learners (app/routers/learners.py, fee_items.py,            *)
(* imports.py, app/fee_engine.py, app/models.py).                          *)
(*                                                                         *)
(* One action is one committed request, or one row of an import.  A        *)
(* request that breaks a constraint of the schema (two learners with one   *)
(* code, two rows for one learner and fee item) is rolled back and leaves  *)
(* no step: the constraint is a guard of the action.  Names, prices,       *)
(* frequencies and the order of the items carry no decision here; what a   *)
(* learner's items come to is the constant Fees of Billing.                *)
(***************************************************************************)
EXTENDS Integers, Sequences, FiniteSets, FiniteSetsExt

CONSTANTS
  Days,          \* dates of admission, 2013 or later: until 2012 the prefix
                 \* of a code of one form could be that of the other form
  Grades, Classes,
  Scopes,        \* applicable_grades x applicable_classes of a fee item
  Customs,       \* custom amounts an assignment may carry
  NoCustom,      \* custom_amount NULL: the catalogue price
  GivenCodes,    \* learner codes written in an import file
  NoCode,        \* no learner code there, or one that is not ten digits
  DailyCodes,    \* learners that two digits can number: 99
  MaxLearners, MaxItems   \* bounds of the model

ASSUME ScopeAssumption  == Scopes \subseteq SUBSET (Grades \X Classes)
ASSUME CustomAssumption == NoCustom \notin Customs
ASSUME CodeAssumption   ==
  /\ DailyCodes \in Nat /\ NoCode \notin GivenCodes
  /\ GivenCodes \subseteq [form : {"daily", "short"}, day : Days, seq : Nat]

VARIABLES
  learners,      \* Learner rows; position = id
  items,         \* FeeItem rows; position = id
  assignments    \* LearnerFeeItem rows by their unique key <<learner, item>>

vars == <<learners, items, assignments>>

\* A learner code: YYYYMMDDNN ("daily") or YYMMDDNNNN ("short").
Code(form, day, seq) == [form |-> form, day |-> day, seq |-> seq]

Codes == {learners[l].code : l \in DOMAIN learners}

\* learner_code LIKE '<date>%'
CodesLike(form, day) == {c \in Codes : c.form = form /\ c.day = day}

\* The hook of the Learner model: the first free number above the count, as a
\* set of at most one.  One of these many is free, so the loop need not go on.
ShortCodes(day) ==
  LET count == Cardinality(CodesLike("short", day))
      tried == {Code("short", day, n) : n \in count + 1..count + Len(learners) + 1}
  IN {c \in tried \ Codes : \A d \in tried \ Codes : c.seq <= d.seq}

FaultyNewCodes(day) ==
  LET count == Cardinality(CodesLike("daily", day))
  IN {Code("daily", day, IF count < DailyCodes THEN count + 1 ELSE DailyCodes)}

FaultyCounting(day) ==
  LET count == Cardinality(CodesLike("daily", day))
  IN IF count < DailyCodes THEN {Code("daily", day, count)} ELSE ShortCodes(day)

\* The code of a new learner: count the codes of the day.  One that has more
\* than two digits for its number is not valid, and the hook replaces it.
NewCodes(day) ==
  LET count == Cardinality(CodesLike("daily", day))
  IN IF count < DailyCodes THEN {Code("daily", day, count + 1)} ELSE ShortCodes(day)

\* The code of an imported learner: the one in the file, or one from the hook.
ImportedCodes(day, given) == IF given = NoCode THEN ShortCodes(day) ELSE {given}
------------------------------------------------------------------------------
Init == learners = <<>> /\ items = <<>> /\ assignments = <<>>

Group(learner) == <<learner.grade, learner.class_name>>

\* Active mandatory items that apply to the learner's grade and class.
Mandatory(learner) ==
  {i \in DOMAIN items : items[i].is_mandatory /\ items[i].is_active /\ Group(learner) \in items[i].scope}

Assigned(l) == {i \in DOMAIN items : <<l, i>> \in DOMAIN assignments /\ assignments[<<l, i>>].is_active}

\* What auto_assign_mandatory_fees inserts for learner l with these fields ...
Missing(l, learner) == Mandatory(learner) \ Assigned(l)

\* ... unless one of them has a row already, taken away earlier.
Clashes(l, learner) == {i \in Missing(l, learner) : <<l, i>> \in DOMAIN assignments}

Assign(keys, custom) ==
  assignments' = [k \in DOMAIN assignments \cup keys |->
                    IF k \in keys THEN [custom |-> custom, is_active |-> TRUE] ELSE assignments[k]]

\* auto_assign_mandatory_fees
AutoAssign(l, learner) ==
  /\ Clashes(l, learner) = {}
  /\ Assign({l} \X Missing(l, learner), NoCustom)

\* Insert a learner and assign the mandatory fees.
Register(code, grade, class_name, imported) ==
  LET learner == [code |-> code, grade |-> grade, class_name |-> class_name, imported |-> imported]
  IN /\ Len(learners) < MaxLearners
     /\ code \notin Codes
     /\ learners' = Append(learners, learner)
     /\ AutoAssign(Len(learners) + 1, learner)
     /\ UNCHANGED items

\* POST /api/learners.
CreateLearner(day, grade, class_name) ==
  \E code \in NewCodes(day) : Register(code, grade, class_name, FALSE)

\* One row of POST /api/imports/learners; imported records, for the properties,
\* that the code came from the file.
ImportLearner(day, grade, class_name, given) ==
  \E code \in ImportedCodes(day, given) : Register(code, grade, class_name, given # NoCode)

FaultyUpdateLearner(l, grade, class_name) ==
  /\ learners' = [learners EXCEPT ![l].grade = grade, ![l].class_name = class_name]
  /\ IF grade # learners[l].grade THEN AutoAssign(l, learners[l]) ELSE UNCHANGED assignments
  /\ UNCHANGED items

\* PUT /api/learners/{id}: a new grade, but not a new class, assigns anew.
UpdateLearner(l, grade, class_name) ==
  LET learner == [learners[l] EXCEPT !.grade = grade, !.class_name = class_name]
  IN /\ learners' = [learners EXCEPT ![l] = learner]
     /\ IF grade # learners[l].grade THEN AutoAssign(l, learner) ELSE UNCHANGED assignments
     /\ UNCHANGED items
------------------------------------------------------------------------------
\* POST /api/fee-items.
CreateItem(scope, is_mandatory) ==
  /\ Len(items) < MaxItems
  /\ items' = Append(items, [scope |-> scope, is_mandatory |-> is_mandatory, is_active |-> TRUE])
  /\ UNCHANGED <<learners, assignments>>

\* PUT /api/fee-items/{id}.
UpdateItem(i, scope, is_mandatory) ==
  /\ items' = [items EXCEPT ![i].scope = scope, ![i].is_mandatory = is_mandatory]
  /\ UNCHANGED <<learners, assignments>>

FaultyToggleItem(i) ==
  /\ items' = IF items[i].is_active THEN SubSeq(items, 1, i - 1) \o SubSeq(items, i + 1, Len(items))
              ELSE [items EXCEPT ![i].is_active = TRUE]
  /\ UNCHANGED <<learners, assignments>>

\* PUT /api/fee-items/{id}/toggle, and DELETE /api/fee-items/{id} of an active
\* item.
ToggleItem(i) ==
  /\ items' = [items EXCEPT ![i].is_active = ~@]
  /\ UNCHANGED <<learners, assignments>>

\* POST /api/fee-items/learner/{id}/auto-assign.
AutoAssignFees(l) == AutoAssign(l, learners[l]) /\ UNCHANGED <<learners, items>>

FaultyAssignFee(l, i, custom) ==
  /\ Assign({<<l, i>>}, custom)
  /\ UNCHANGED <<learners, items>>

\* POST /api/fee-items/learner/{id}/assign: a new row, or one taken up again
\* with the price now given; "Already assigned" changes nothing.
AssignFee(l, i, custom) ==
  /\ i \notin Assigned(l)
  /\ Assign({<<l, i>>}, custom)
  /\ UNCHANGED <<learners, items>>

\* DELETE /api/fee-items/learner/{id}/assignments/{id}.
RemoveAssignment(l, i) ==
  /\ <<l, i>> \in DOMAIN assignments
  /\ assignments' = [assignments EXCEPT ![<<l, i>>].is_active = FALSE]
  /\ UNCHANGED <<learners, items>>

Next ==
  \/ \E day \in Days, grade \in Grades, class_name \in Classes :
       \/ CreateLearner(day, grade, class_name)
       \/ \E given \in GivenCodes \cup {NoCode} : ImportLearner(day, grade, class_name, given)
  \/ \E scope \in Scopes, is_mandatory \in BOOLEAN :
       \/ CreateItem(scope, is_mandatory)
       \/ \E i \in DOMAIN items : UpdateItem(i, scope, is_mandatory)
  \/ \E i \in DOMAIN items : ToggleItem(i)
  \/ \E l \in DOMAIN learners :
       \/ \E grade \in Grades, class_name \in Classes : UpdateLearner(l, grade, class_name)
       \/ AutoAssignFees(l)
       \/ \E i \in DOMAIN items :
            RemoveAssignment(l, i) \/ \E custom \in Customs \cup {NoCustom} : AssignFee(l, i, custom)

Spec == Init /\ [][Next]_vars
------------------------------------------------------------------------------
(***************************************************************************)
(* Properties.                                                             *)
(***************************************************************************)
LearnerRow == [code : [form : {"daily", "short"}, day : Days, seq : Nat],
               grade : Grades, class_name : Classes, imported : BOOLEAN]
ItemRow    == [scope : Scopes, is_mandatory : BOOLEAN, is_active : BOOLEAN]
AssignmentRow == [custom : Customs \cup {NoCustom}, is_active : BOOLEAN]

\* Every row has its shape, and an assignment is of a learner and an item that
\* exist.
EnrolmentTypeOK ==
  /\ learners \in Seq(LearnerRow)
  /\ items \in Seq(ItemRow)
  /\ DOMAIN assignments \subseteq (DOMAIN learners) \X (DOMAIN items)
  /\ assignments \in [DOMAIN assignments -> AssignmentRow]

ImportedOn(day) == \E l \in DOMAIN learners : learners[l].imported /\ learners[l].code.day = day

\* The two-digit numbers of a day are 1..n without a gap, and n is at most 99,
\* whatever registrations, imports and rejected requests came in between, unless
\* an import file brought a code of that day: so counting gives a new number.
CountedCodes ==
  \A day \in Days :
    ImportedOn(day)
      \/ \E n \in 0..DailyCodes : CodesLike("daily", day) = {Code("daily", day, k) : k \in 1..n}

\* A code for every day: the number that counting gives is free, before and
\* after the hundredth learner of a day, unless an import file brought a code
\* of that day.  (Then registration on that day may fail for good.)
RegistrationNeverBlocked ==
  \A day \in Days : NewCodes(day) \subseteq Codes => ImportedOn(day)

HasMandatory(l) == Missing(l, learners[l]) = {}

\* A learner who is registered or changes grade then has every active mandatory
\* item of the new grade, at whatever price it was assigned.
FeesFollowGrade ==
  [][\A l \in DOMAIN learners' :
       (l \notin DOMAIN learners \/ learners'[l].grade # learners[l].grade)
         => HasMandatory(l)']_vars

\* The price agreed for an active assignment stays until it is taken away, no
\* assignment is ever lost, and what was taken away does not come back with a
\* change of grade or class.
AgreementsKept ==
  [][\A k \in DOMAIN assignments :
       /\ k \in DOMAIN assignments'
       /\ assignments[k].is_active =>
            assignments'[k] = [assignments[k] EXCEPT !.is_active = assignments'[k].is_active]
       /\ ~assignments[k].is_active /\ assignments'[k].is_active => learners' = learners]_vars

(***************************************************************************)
(* A claim of the documentation that the code does not keep.               *)
(***************************************************************************)
\* "Mandatory fee items are auto-assigned to learners when they are created,
\* imported, or when the auto-assign action is used" (system guide): the action
\* can be used for every learner.
AutoAssignPossible == \A l \in DOMAIN learners : Clashes(l, learners[l]) = {}
=============================================================================

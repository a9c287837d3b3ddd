--------------------------- MODULE EnrolmentProofs ---------------------------
(***************************************************************************)
(* Theorems about Enrolment for every value of its constants.              *)
(***************************************************************************)
EXTENDS Enrolment, Facts

------------------------------------------------------------------------------
(* Sizes of sets and types of codes. *)

\* The size of a run of numbers.
LEMMA Interval ==
  ASSUME NEW a \in Nat, NEW n \in Nat
  PROVE  IsFiniteSet(a + 1..a + n) /\ Cardinality(a + 1..a + n) = n
<1>. DEFINE first == a + 1
            last == a + n
<1>1. first \in Int /\ last \in Int /\ (IF first > last THEN 0 ELSE last - first + 1) = n
  OBVIOUS
<1>. HIDE DEF first, last
<1>2. IsFiniteSet(first..last) /\ Cardinality(first..last) = IF first > last THEN 0 ELSE last - first + 1
  BY <1>1, FS_Interval
<1>. QED  BY <1>1, <1>2 DEF first, last

\* What assigning fee items does to the assignment rows.
LEMMA AssignEffect ==
  ASSUME EnrolmentTypeOK, NEW keys, NEW custom \in Customs \cup {NoCustom}, Assign(keys, custom)
  PROVE  /\ DOMAIN assignments' = DOMAIN assignments \cup keys
         /\ \A k \in keys : assignments'[k] = [custom |-> custom, is_active |-> TRUE]
         /\ \A k \in DOMAIN assignments \ keys : assignments'[k] = assignments[k]
         /\ assignments' \in [DOMAIN assignments' -> AssignmentRow]
  BY DEF Assign, EnrolmentTypeOK, AssignmentRow

\* AutoAssign adds assignment rows of existing learners and items.
LEMMA AutoAssignType ==
  ASSUME EnrolmentTypeOK, NEW l \in DOMAIN learners, NEW learner, AutoAssign(l, learner)
  PROVE  /\ DOMAIN assignments' \subseteq (DOMAIN learners) \X (DOMAIN items)
         /\ assignments' \in [DOMAIN assignments' -> AssignmentRow]
<1>. DEFINE keys == {l} \X Missing(l, learner)
<1>1. keys \subseteq (DOMAIN learners) \X (DOMAIN items)
  BY DEF Missing, Mandatory
<1>2. Assign(keys, NoCustom)
  BY DEF AutoAssign
<1>3. /\ DOMAIN assignments' = DOMAIN assignments \cup keys
      /\ assignments' \in [DOMAIN assignments' -> AssignmentRow]
  BY <1>2, AssignEffect
<1>. QED  BY <1>1, <1>3 DEF EnrolmentTypeOK

\* The codes that the system gives, and those of a file, have their shape.
LEMMA CodeType ==
  ASSUME EnrolmentTypeOK, NEW day \in Days
  PROVE  /\ ShortCodes(day) \subseteq [form : {"short"}, day : {day}, seq : Nat]
         /\ NewCodes(day) \subseteq [form : {"daily", "short"}, day : {day}, seq : Nat]
         /\ \A given \in GivenCodes \cup {NoCode} :
              ImportedCodes(day, given) \subseteq [form : {"daily", "short"}, day : Days, seq : Nat]
<1>1. \A l \in DOMAIN learners : learners[l] \in LearnerRow
  BY RowInSet DEF EnrolmentTypeOK
<1>2. Len(learners) \in Nat /\ DOMAIN learners = 1..Len(learners)
  BY LenProperties DEF EnrolmentTypeOK
<1>3. IsFiniteSet(Codes)
  <2>. DEFINE code == [l \in DOMAIN learners |-> learners[l].code]
  <2>1. code \in Surjection(DOMAIN learners, Codes)
    BY DEF Codes, Surjection
  <2>. QED  BY <2>1, <1>2, FS_Interval, FS_Surjection
<1>4. \A form \in {"daily", "short"} :
        IsFiniteSet(CodesLike(form, day)) /\ Cardinality(CodesLike(form, day)) \in Nat
  <2>1. \A form \in {"daily", "short"} : CodesLike(form, day) \subseteq Codes
    BY DEF CodesLike
  <2>. QED  BY <2>1, <1>3, FS_Subset, FS_CardinalityType
<1>5. ShortCodes(day) \subseteq [form : {"short"}, day : {day}, seq : Nat]
  BY <1>2, <1>4 DEF ShortCodes, Code
<1>6. NewCodes(day) \subseteq [form : {"daily", "short"}, day : {day}, seq : Nat]
  BY <1>4, <1>5 DEF NewCodes, Code
<1>7. \A given \in GivenCodes \cup {NoCode} :
        ImportedCodes(day, given) \subseteq [form : {"daily", "short"}, day : Days, seq : Nat]
  BY <1>5, CodeAssumption DEF ImportedCodes
<1>. QED  BY <1>5, <1>6, <1>7

------------------------------------------------------------------------------
(* Type correctness. *)

\* Registration adds a learner row and keeps the others in shape.
LEMMA RegisterType ==
  ASSUME EnrolmentTypeOK, NEW code \in [form : {"daily", "short"}, day : Days, seq : Nat],
         NEW grade \in Grades, NEW class_name \in Classes, NEW imported \in BOOLEAN,
         Register(code, grade, class_name, imported)
  PROVE  EnrolmentTypeOK'
<1>. DEFINE learner == [code |-> code, grade |-> grade, class_name |-> class_name, imported |-> imported]
            id == Len(learners) + 1
<1>1. learner \in LearnerRow
  BY DEF LearnerRow
<1>2. learners' = Append(learners, learner) /\ AutoAssign(id, learner) /\ items' = items
  BY DEF Register
<1>3. learners' \in Seq(LearnerRow) /\ DOMAIN learners' = DOMAIN learners \cup {id}
  BY <1>1, <1>2, RowAppended DEF EnrolmentTypeOK
<1>4. Missing(id, learner) \subseteq DOMAIN items
  BY DEF Missing, Mandatory
<1>5. /\ DOMAIN assignments' = DOMAIN assignments \cup ({id} \X Missing(id, learner))
      /\ assignments' \in [DOMAIN assignments' -> AssignmentRow]
  BY <1>2, AssignEffect DEF AutoAssign
<1>6. DOMAIN assignments' \subseteq (DOMAIN learners') \X (DOMAIN items')
  BY <1>2, <1>3, <1>4, <1>5 DEF EnrolmentTypeOK
<1>. QED  BY <1>2, <1>3, <1>5, <1>6 DEF EnrolmentTypeOK

\* Every request keeps the three tables in shape.
LEMMA TypeStep ==
  ASSUME EnrolmentTypeOK, [Next]_vars
  PROVE  EnrolmentTypeOK'
<1>1. CASE \E day \in Days, grade \in Grades, class_name \in Classes : CreateLearner(day, grade, class_name)
  <2>1. PICK day \in Days, grade \in Grades, class_name \in Classes : CreateLearner(day, grade, class_name)
    BY <1>1
  <2>2. PICK code \in NewCodes(day) : Register(code, grade, class_name, FALSE)
    BY <2>1 DEF CreateLearner
  <2>3. code \in [form : {"daily", "short"}, day : Days, seq : Nat]
    BY CodeType
  <2>. QED  BY <2>2, <2>3, RegisterType
<1>2. CASE \E day \in Days, grade \in Grades, class_name \in Classes, given \in GivenCodes \cup {NoCode} :
             ImportLearner(day, grade, class_name, given)
  <2>1. PICK day \in Days, grade \in Grades, class_name \in Classes, given \in GivenCodes \cup {NoCode} :
          ImportLearner(day, grade, class_name, given)
    BY <1>2
  <2>2. PICK code \in ImportedCodes(day, given) : Register(code, grade, class_name, given # NoCode)
    BY <2>1 DEF ImportLearner
  <2>3. code \in [form : {"daily", "short"}, day : Days, seq : Nat] /\ (given # NoCode) \in BOOLEAN
    BY CodeType
  <2>. QED  BY <2>2, <2>3, RegisterType
<1>3. CASE \E scope \in Scopes, is_mandatory \in BOOLEAN : CreateItem(scope, is_mandatory)
  <2>1. PICK scope \in Scopes, is_mandatory \in BOOLEAN : CreateItem(scope, is_mandatory)
    BY <1>3
  <2>2. [scope |-> scope, is_mandatory |-> is_mandatory, is_active |-> TRUE] \in ItemRow
    BY DEF ItemRow
  <2>3. items' \in Seq(ItemRow) /\ DOMAIN items \subseteq DOMAIN items'
    BY <2>1, <2>2, RowAppended DEF CreateItem, EnrolmentTypeOK
  <2>. QED  BY <2>1, <2>3 DEF CreateItem, EnrolmentTypeOK
<1>4. CASE \E scope \in Scopes, is_mandatory \in BOOLEAN, i \in DOMAIN items : UpdateItem(i, scope, is_mandatory)
  <2>1. PICK scope \in Scopes, is_mandatory \in BOOLEAN, i \in DOMAIN items : UpdateItem(i, scope, is_mandatory)
    BY <1>4
  <2>2. items[i] \in ItemRow
    BY RowInSet DEF EnrolmentTypeOK
  <2>. DEFINE item == [items[i] EXCEPT !.scope = scope, !.is_mandatory = is_mandatory]
  <2>3. item \in ItemRow
    BY <2>2 DEF ItemRow
  <2>4. items' = [items EXCEPT ![i] = item]
    BY <2>1 DEF UpdateItem
  <2>5. items' \in Seq(ItemRow) /\ DOMAIN items' = DOMAIN items
    BY <2>3, <2>4, RowReplaced DEF EnrolmentTypeOK
  <2>. QED  BY <2>1, <2>5 DEF UpdateItem, EnrolmentTypeOK
<1>5. CASE \E i \in DOMAIN items : ToggleItem(i)
  <2>1. PICK i \in DOMAIN items : ToggleItem(i)
    BY <1>5
  <2>2. items[i] \in ItemRow
    BY RowInSet DEF EnrolmentTypeOK
  <2>. DEFINE item == [items[i] EXCEPT !.is_active = ~@]
  <2>3. item \in ItemRow
    BY <2>2 DEF ItemRow
  <2>4. items' = [items EXCEPT ![i] = item]
    BY <2>1 DEF ToggleItem
  <2>5. items' \in Seq(ItemRow) /\ DOMAIN items' = DOMAIN items
    BY <2>3, <2>4, RowReplaced DEF EnrolmentTypeOK
  <2>. QED  BY <2>1, <2>5 DEF ToggleItem, EnrolmentTypeOK
<1>6. CASE \E l \in DOMAIN learners, grade \in Grades, class_name \in Classes : UpdateLearner(l, grade, class_name)
  <2>1. PICK l \in DOMAIN learners, grade \in Grades, class_name \in Classes : UpdateLearner(l, grade, class_name)
    BY <1>6
  <2>. DEFINE learner == [learners[l] EXCEPT !.grade = grade, !.class_name = class_name]
  <2>2. learners[l] \in LearnerRow
    BY RowInSet DEF EnrolmentTypeOK
  <2>3. learner \in LearnerRow
    BY <2>2 DEF LearnerRow
  <2>4. learners' = [learners EXCEPT ![l] = learner] /\ items' = items
    BY <2>1 DEF UpdateLearner
  <2>5. learners' \in Seq(LearnerRow) /\ DOMAIN learners' = DOMAIN learners
    BY <2>3, <2>4, RowReplaced DEF EnrolmentTypeOK
  <2>6. AutoAssign(l, learner) \/ assignments' = assignments
    BY <2>1 DEF UpdateLearner
  <2>7. /\ DOMAIN assignments' \subseteq (DOMAIN learners) \X (DOMAIN items)
        /\ assignments' \in [DOMAIN assignments' -> AssignmentRow]
    <3>1. CASE AutoAssign(l, learner)
      BY <3>1, AutoAssignType
    <3>2. CASE assignments' = assignments
      BY <3>2 DEF EnrolmentTypeOK
    <3>. QED  BY <2>6, <3>1, <3>2
  <2>. QED  BY <2>4, <2>5, <2>7 DEF EnrolmentTypeOK
<1>7. CASE \E l \in DOMAIN learners : AutoAssignFees(l)
  <2>1. PICK l \in DOMAIN learners : AutoAssignFees(l)
    BY <1>7
  <2>2. AutoAssign(l, learners[l]) /\ UNCHANGED <<learners, items>>
    BY <2>1 DEF AutoAssignFees
  <2>3. /\ DOMAIN assignments' \subseteq (DOMAIN learners) \X (DOMAIN items)
        /\ assignments' \in [DOMAIN assignments' -> AssignmentRow]
    BY <2>2, AutoAssignType
  <2>. QED  BY <2>2, <2>3 DEF EnrolmentTypeOK
<1>8. CASE \E l \in DOMAIN learners, i \in DOMAIN items : RemoveAssignment(l, i)
  <2>1. PICK l \in DOMAIN learners, i \in DOMAIN items : RemoveAssignment(l, i)
    BY <1>8
  <2>2. /\ DOMAIN assignments' = DOMAIN assignments
        /\ assignments' \in [DOMAIN assignments -> AssignmentRow]
    BY <2>1 DEF RemoveAssignment, EnrolmentTypeOK, AssignmentRow
  <2>. QED  BY <2>1, <2>2 DEF RemoveAssignment, EnrolmentTypeOK
<1>9. CASE \E l \in DOMAIN learners, i \in DOMAIN items, custom \in Customs \cup {NoCustom} : AssignFee(l, i, custom)
  <2>1. PICK l \in DOMAIN learners, i \in DOMAIN items, custom \in Customs \cup {NoCustom} :
          AssignFee(l, i, custom)
    BY <1>9
  <2>2. Assign({<<l, i>>}, custom) /\ UNCHANGED <<learners, items>>
    BY <2>1 DEF AssignFee
  <2>3. /\ DOMAIN assignments' = DOMAIN assignments \cup {<<l, i>>}
        /\ assignments' \in [DOMAIN assignments' -> AssignmentRow]
    BY <2>2, AssignEffect
  <2>4. DOMAIN assignments' \subseteq (DOMAIN learners) \X (DOMAIN items)
    BY <2>3 DEF EnrolmentTypeOK
  <2>. QED  BY <2>2, <2>3, <2>4 DEF EnrolmentTypeOK
<1>10. CASE UNCHANGED vars
  BY <1>10 DEF vars, EnrolmentTypeOK
<1>. QED  BY <1>1, <1>2, <1>3, <1>4, <1>5, <1>6, <1>7, <1>8, <1>9, <1>10 DEF Next

\* Every row of the register, the catalogue and the assignments keeps its shape.
THEOREM EnrolmentTypeCorrect == Spec => []EnrolmentTypeOK
<1>1. Init => EnrolmentTypeOK
  BY EmptySeq DEF Init, EnrolmentTypeOK
<1>2. EnrolmentTypeOK /\ [Next]_vars => EnrolmentTypeOK'
  BY TypeStep
<1>. QED  BY <1>1, <1>2, PTL DEF Spec
------------------------------------------------------------------------------
(* The numbers of a day. *)

\* A run of numbers has as many codes as its length.
LEMMA RunCount ==
  ASSUME NEW day, NEW n \in Nat
  PROVE  Cardinality({Code("daily", day, k) : k \in 1..n}) = n
<1>. DEFINE run == {Code("daily", day, k) : k \in 1..n}
            code == [k \in 1..n |-> Code("daily", day, k)]
<1>1. IsFiniteSet(1..n) /\ Cardinality(1..n) = n
  <2>1. 1..n = 0 + 1..0 + n
    OBVIOUS
  <2>. QED  BY <2>1, Interval
<1>2. code \in Bijection(1..n, run)
  BY DEF Code, Bijection, Injection, Surjection, IsInjective
<1>3. ExistsBijection(1..n, run)
  BY <1>2 DEF ExistsBijection
<1>. QED  BY <1>1, <1>3, FS_Bijection

\* A new row adds its code, and nothing else, to the codes in use.
LEMMA RegisterCodes ==
  ASSUME EnrolmentTypeOK, NEW code \in [form : {"daily", "short"}, day : Days, seq : Nat],
         NEW grade \in Grades, NEW class_name \in Classes, NEW imported \in BOOLEAN,
         Register(code, grade, class_name, imported), NEW day
  PROVE  /\ CodesLike("daily", day)' = CodesLike("daily", day)
                \cup {c \in {code} : c.form = "daily" /\ c.day = day}
         /\ ImportedOn(day) \/ (imported /\ code.day = day) => ImportedOn(day)'
<1>. DEFINE learner == [code |-> code, grade |-> grade, class_name |-> class_name, imported |-> imported]
            id == Len(learners) + 1
<1>1. learner \in LearnerRow
  BY DEF LearnerRow
<1>2. learners' = Append(learners, learner)
  BY DEF Register
<1>3. /\ DOMAIN learners' = DOMAIN learners \cup {id}
      /\ \A l \in DOMAIN learners : learners'[l] = learners[l]
      /\ learners'[id] = learner
  BY <1>1, <1>2, RowAppended DEF EnrolmentTypeOK
<1>4. Codes' = Codes \cup {code}
  BY <1>3 DEF Codes
<1>5. ImportedOn(day) \/ (imported /\ code.day = day) => ImportedOn(day)'
  BY <1>3 DEF ImportedOn
<1>. QED  BY <1>4, <1>5 DEF CodesLike

\* A learner keeps the code, and where it came from.
LEMMA UpdateCodes ==
  ASSUME EnrolmentTypeOK, NEW l \in DOMAIN learners, NEW grade \in Grades, NEW class_name \in Classes,
         UpdateLearner(l, grade, class_name)
  PROVE  /\ DOMAIN learners' = DOMAIN learners
         /\ \A k \in DOMAIN learners :
              learners'[k].code = learners[k].code /\ learners'[k].imported = learners[k].imported
<1>. DEFINE learner == [learners[l] EXCEPT !.grade = grade, !.class_name = class_name]
<1>1. learners[l] \in LearnerRow
  BY RowInSet DEF EnrolmentTypeOK
<1>2. learner \in LearnerRow /\ learner.code = learners[l].code /\ learner.imported = learners[l].imported
  BY <1>1 DEF LearnerRow
<1>3. learners' = [learners EXCEPT ![l] = learner]
  BY DEF UpdateLearner
<1>4. /\ DOMAIN learners' = DOMAIN learners
      /\ \A k \in DOMAIN learners : learners'[k] = IF k = l THEN learner ELSE learners[k]
  BY <1>2, <1>3, RowReplaced DEF EnrolmentTypeOK
<1>. QED  BY <1>2, <1>4

\* The codes that counting gives extend the run of the day by one.
LEMMA NewCodesExtend ==
  ASSUME NEW day \in Days, NEW n \in 0..DailyCodes, NEW code \in NewCodes(day),
         CodesLike("daily", day) = {Code("daily", day, k) : k \in 1..n}, code.form = "daily"
  PROVE  n + 1 \in 0..DailyCodes /\ code = Code("daily", day, n + 1)
<1>1. n \in Nat /\ DailyCodes \in Nat /\ Cardinality(CodesLike("daily", day)) = n
  BY RunCount, CodeAssumption
<1>2. CASE n < DailyCodes
  BY <1>1, <1>2 DEF NewCodes
<1>3. CASE ~(n < DailyCodes)
  <2>1. NewCodes(day) = ShortCodes(day)
    BY <1>1, <1>3 DEF NewCodes
  <2>. QED  BY <2>1 DEF ShortCodes, Code
<1>. QED  BY <1>2, <1>3

\* Every request keeps the numbers of a counted day without gap.
LEMMA CountedStep ==
  ASSUME EnrolmentTypeOK, CountedCodes, [Next]_vars
  PROVE  CountedCodes'
<1>1. CASE \E day \in Days, grade \in Grades, class_name \in Classes : CreateLearner(day, grade, class_name)
  <2>1. PICK day \in Days, grade \in Grades, class_name \in Classes : CreateLearner(day, grade, class_name)
    BY <1>1
  <2>2. PICK code \in NewCodes(day) : Register(code, grade, class_name, FALSE)
    BY <2>1 DEF CreateLearner
  <2>3. code \in [form : {"daily", "short"}, day : {day}, seq : Nat]
    BY CodeType
  <2>4. code \in [form : {"daily", "short"}, day : Days, seq : Nat]
    BY <2>3
  <2>. SUFFICES ASSUME NEW d \in Days, ~ImportedOn(d)'
               PROVE  \E n \in 0..DailyCodes : CodesLike("daily", d)' = {Code("daily", d, k) : k \in 1..n}
    BY DEF CountedCodes, Code
  <2>5. /\ CodesLike("daily", d)' = CodesLike("daily", d) \cup {c \in {code} : c.form = "daily" /\ c.day = d}
        /\ ~ImportedOn(d)
    BY <2>2, <2>4, RegisterCodes
  <2>6. PICK n \in 0..DailyCodes : CodesLike("daily", d) = {Code("daily", d, k) : k \in 1..n}
    BY <2>5 DEF CountedCodes
  <2>7. CASE code.form = "daily" /\ code.day = d
    <3>1. day = d
      BY <2>3, <2>7
    <3>2. n + 1 \in 0..DailyCodes /\ code = Code("daily", d, n + 1)
      BY <2>6, <2>7, <3>1, NewCodesExtend
    <3>3. 1..(n + 1) = (1..n) \cup {n + 1}
      BY CodeAssumption
    <3>4. CodesLike("daily", d)' = {Code("daily", d, k) : k \in 1..(n + 1)}
      BY <2>5, <2>6, <2>7, <3>2, <3>3
    <3>. QED  BY <3>2, <3>4
  <2>8. CASE ~(code.form = "daily" /\ code.day = d)
    <3>1. CodesLike("daily", d)' = CodesLike("daily", d)
      BY <2>5, <2>8
    <3>. QED  BY <2>6, <3>1
  <2>. QED  BY <2>7, <2>8
<1>2. CASE \E day \in Days, grade \in Grades, class_name \in Classes, given \in GivenCodes \cup {NoCode} :
             ImportLearner(day, grade, class_name, given)
  <2>1. PICK day \in Days, grade \in Grades, class_name \in Classes, given \in GivenCodes \cup {NoCode} :
          ImportLearner(day, grade, class_name, given)
    BY <1>2
  <2>2. PICK code \in ImportedCodes(day, given) : Register(code, grade, class_name, given # NoCode)
    BY <2>1 DEF ImportLearner
  <2>3. code \in [form : {"daily", "short"}, day : Days, seq : Nat] /\ (given # NoCode) \in BOOLEAN
    BY CodeType
  <2>4. given # NoCode \/ code.form = "short"
    BY CodeType DEF ImportedCodes
  <2>. SUFFICES ASSUME NEW d \in Days, ~ImportedOn(d)'
               PROVE  CodesLike("daily", d)' = CodesLike("daily", d) /\ ~ImportedOn(d)
    BY DEF CountedCodes, Code
  <2>5. /\ CodesLike("daily", d)' = CodesLike("daily", d) \cup {c \in {code} : c.form = "daily" /\ c.day = d}
        /\ ~ImportedOn(d) /\ ~(given # NoCode /\ code.day = d)
    BY <2>2, <2>3, RegisterCodes
  <2>. QED  BY <2>4, <2>5
<1>3. CASE \E l \in DOMAIN learners, grade \in Grades, class_name \in Classes : UpdateLearner(l, grade, class_name)
  <2>1. PICK l \in DOMAIN learners, grade \in Grades, class_name \in Classes : UpdateLearner(l, grade, class_name)
    BY <1>3
  <2>2. /\ DOMAIN learners' = DOMAIN learners
        /\ \A k \in DOMAIN learners :
             learners'[k].code = learners[k].code /\ learners'[k].imported = learners[k].imported
    BY <2>1, UpdateCodes
  <2>3. Codes' = Codes /\ \A d : ImportedOn(d)' = ImportedOn(d)
    BY <2>2 DEF Codes, ImportedOn
  <2>4. \A d : CodesLike("daily", d)' = CodesLike("daily", d)
    BY <2>3 DEF CodesLike
  <2>. QED  BY <2>3, <2>4 DEF CountedCodes, Code
<1>4. CASE learners' = learners
  BY <1>4 DEF CountedCodes, CodesLike, Codes, ImportedOn, Code
<1>5. CASE \/ \E scope \in Scopes, is_mandatory \in BOOLEAN :
                CreateItem(scope, is_mandatory) \/ \E i \in DOMAIN items : UpdateItem(i, scope, is_mandatory)
           \/ \E i \in DOMAIN items : ToggleItem(i)
           \/ \E l \in DOMAIN learners :
                \/ AutoAssignFees(l)
                \/ \E i \in DOMAIN items :
                     RemoveAssignment(l, i) \/ \E custom \in Customs \cup {NoCustom} : AssignFee(l, i, custom)
           \/ UNCHANGED vars
  BY <1>4, <1>5 DEF CreateItem, UpdateItem, ToggleItem, AutoAssignFees, RemoveAssignment, AssignFee, vars
<1>. QED  BY <1>1, <1>2, <1>3, <1>5 DEF Next

\* The two-digit numbers of a day have no gap, for any number of days, learners
\* and numbers per day, on every day for which no file brought a code.
THEOREM CodesCounted == Spec => []CountedCodes
<1>1. Init => CountedCodes
  <2>1. Init => \A day : CodesLike("daily", day) = {}
    BY DEF Init, CodesLike, Codes
  <2>2. \A day : {Code("daily", day, k) : k \in 1..0} = {} /\ 0 \in 0..DailyCodes
    BY CodeAssumption
  <2>. QED  BY <2>1, <2>2 DEF CountedCodes
<1>2. EnrolmentTypeOK /\ CountedCodes /\ [Next]_vars => CountedCodes'
  BY CountedStep
<1>. QED  BY <1>1, <1>2, EnrolmentTypeCorrect, PTL DEF Spec

\* The hook of the model always finds a number, and a free one.
LEMMA ShortCodeFound ==
  ASSUME EnrolmentTypeOK, NEW day \in Days
  PROVE  ShortCodes(day) # {} /\ ShortCodes(day) \cap Codes = {}
<1>. DEFINE count == Cardinality(CodesLike("short", day))
            numbers == count + 1..count + Len(learners) + 1
            tried == {Code("short", day, n) : n \in numbers}
            free == {n \in numbers : Code("short", day, n) \notin Codes}
<1>1. Len(learners) \in Nat /\ DOMAIN learners = 1..Len(learners)
  BY LenProperties DEF EnrolmentTypeOK
<1>2. IsFiniteSet(Codes) /\ Cardinality(Codes) <= Len(learners)
  <2>. DEFINE code == [l \in DOMAIN learners |-> learners[l].code]
  <2>1. code \in Surjection(DOMAIN learners, Codes)
    BY DEF Codes, Surjection
  <2>2. IsFiniteSet(DOMAIN learners) /\ Cardinality(DOMAIN learners) = Len(learners)
    <3>1. 1..Len(learners) = 0 + 1..0 + Len(learners)
      BY <1>1
    <3>. QED  BY <1>1, <3>1, Interval
  <2>. HIDE DEF code
  <2>. QED  BY <2>1, <2>2, FS_Surjection
<1>3. count \in Nat
  <2>1. CodesLike("short", day) \subseteq Codes
    BY DEF CodesLike
  <2>. QED  BY <2>1, <1>2, FS_Subset, FS_CardinalityType
<1>4. Cardinality(tried) = Len(learners) + 1
  <2>. HIDE DEF count
  <2>. DEFINE code == [n \in numbers |-> Code("short", day, n)]
  <2>1. IsFiniteSet(numbers) /\ Cardinality(numbers) = Len(learners) + 1
    <3>1. numbers = count + 1..count + (Len(learners) + 1) /\ Len(learners) + 1 \in Nat
      BY <1>1, <1>3
    <3>. HIDE DEF numbers
    <3>. QED  BY <1>3, <3>1, Interval
  <2>2. code \in Bijection(numbers, tried)
    BY DEF Code, Bijection, Injection, Surjection, IsInjective
  <2>3. ExistsBijection(numbers, tried)
    BY <2>2 DEF ExistsBijection
  <2>. QED  BY <2>1, <2>3, FS_Bijection
<1>5. ~(tried \subseteq Codes)
  <2>1. tried \subseteq Codes => Cardinality(tried) <= Cardinality(Codes)
    BY <1>2, FS_Subset
  <2>2. Cardinality(Codes) \in Nat
    BY <1>2, FS_CardinalityType
  <2>. HIDE DEF tried
  <2>. QED  BY <1>1, <1>2, <1>4, <2>1, <2>2
<1>6. free # {} /\ free \in SUBSET Nat
  BY <1>1, <1>3, <1>5
<1>7. PICK m \in free : \A n \in free : m <= n
  <2>. HIDE DEF free
  <2>. QED  BY <1>6, LeastNumber
<1>8. Code("short", day, m) \in ShortCodes(day)
  BY <1>7 DEF ShortCodes, Code
<1>9. ShortCodes(day) \cap Codes = {}
  BY DEF ShortCodes
<1>. QED  BY <1>8, <1>9

\* Registration has a code that is free on every day for which no file brought
\* one, for any number of learners and numbers per day.
THEOREM RegistrationPossible == Spec => []RegistrationNeverBlocked
<1>1. EnrolmentTypeOK /\ CountedCodes => RegistrationNeverBlocked
  <2>. SUFFICES ASSUME EnrolmentTypeOK, CountedCodes, NEW day \in Days, ~ImportedOn(day)
               PROVE  ~(NewCodes(day) \subseteq Codes)
    BY DEF RegistrationNeverBlocked
  <2>1. PICK n \in 0..DailyCodes : CodesLike("daily", day) = {Code("daily", day, k) : k \in 1..n}
    BY DEF CountedCodes
  <2>2. n \in Nat /\ DailyCodes \in Nat /\ Cardinality(CodesLike("daily", day)) = n
    BY <2>1, RunCount, CodeAssumption
  <2>3. CASE n < DailyCodes
    <3>1. NewCodes(day) = {Code("daily", day, n + 1)}
      BY <2>2, <2>3 DEF NewCodes
    <3>2. Code("daily", day, n + 1) \notin CodesLike("daily", day)
      BY <2>1, <2>2 DEF Code
    <3>3. Code("daily", day, n + 1) \notin Codes
      BY <3>2 DEF CodesLike, Code
    <3>. QED  BY <3>1, <3>3
  <2>4. CASE ~(n < DailyCodes)
    <3>1. NewCodes(day) = ShortCodes(day)
      BY <2>2, <2>4 DEF NewCodes
    <3>. QED  BY <3>1, ShortCodeFound
  <2>. QED  BY <2>3, <2>4
<1>. QED  BY <1>1, EnrolmentTypeCorrect, CodesCounted, PTL

------------------------------------------------------------------------------
(* The fee items of a learner. *)

\* After auto-assignment the learner has every mandatory item, and every row
\* that was there is as it was.
LEMMA AutoAssignEffect ==
  ASSUME EnrolmentTypeOK, NEW l, NEW learner, AutoAssign(l, learner), items' = items
  PROVE  /\ Mandatory(learner)' \ Assigned(l)' = {}
         /\ \A k \in DOMAIN assignments : k \in DOMAIN assignments' /\ assignments'[k] = assignments[k]
<1>. DEFINE keys == {l} \X Missing(l, learner)
<1>1. Clashes(l, learner) = {} /\ Assign(keys, NoCustom)
  BY DEF AutoAssign
<1>2. keys \cap DOMAIN assignments = {}
  BY <1>1 DEF Clashes
<1>3. /\ DOMAIN assignments' = DOMAIN assignments \cup keys
      /\ \A k \in keys : assignments'[k] = [custom |-> NoCustom, is_active |-> TRUE]
      /\ \A k \in DOMAIN assignments \ keys : assignments'[k] = assignments[k]
  <2>1. NoCustom \in Customs \cup {NoCustom}
    OBVIOUS
  <2>. HIDE DEF keys
  <2>. QED  BY <1>1, <2>1, AssignEffect
<1>4. \A k \in DOMAIN assignments : k \in DOMAIN assignments' /\ assignments'[k] = assignments[k]
  BY <1>2, <1>3
<1>5. \A i \in Missing(l, learner) : i \in DOMAIN items /\ i \in Assigned(l)'
  BY <1>3 DEF Assigned, Missing, Mandatory
<1>6. Assigned(l) \subseteq Assigned(l)'
  BY <1>4 DEF Assigned
<1>7. Mandatory(learner)' = Mandatory(learner)
  BY DEF Mandatory, Group
<1>. QED  BY <1>4, <1>5, <1>6, <1>7 DEF Missing

\* Registration gives the new learner its fees and changes no assignment.
LEMMA RegisterFees ==
  ASSUME EnrolmentTypeOK, NEW code \in [form : {"daily", "short"}, day : Days, seq : Nat],
         NEW grade \in Grades, NEW class_name \in Classes, NEW imported \in BOOLEAN,
         Register(code, grade, class_name, imported)
  PROVE  /\ \A l \in DOMAIN learners' :
              (l \notin DOMAIN learners \/ learners'[l].grade # learners[l].grade) => HasMandatory(l)'
         /\ \A k \in DOMAIN assignments : k \in DOMAIN assignments' /\ assignments'[k] = assignments[k]
<1>. DEFINE learner == [code |-> code, grade |-> grade, class_name |-> class_name, imported |-> imported]
<1>. PICK id : id = Len(learners) + 1
  OBVIOUS
<1>1. learner \in LearnerRow
  BY DEF LearnerRow
<1>2. learners' = Append(learners, learner) /\ AutoAssign(id, learner) /\ items' = items
  BY DEF Register
<1>3. /\ DOMAIN learners' = DOMAIN learners \cup {id}
      /\ \A l \in DOMAIN learners : learners'[l] = learners[l]
      /\ learners'[id] = learner
  BY <1>1, <1>2, RowAppended DEF EnrolmentTypeOK
<1>4. /\ Mandatory(learner)' \ Assigned(id)' = {}
      /\ \A k \in DOMAIN assignments : k \in DOMAIN assignments' /\ assignments'[k] = assignments[k]
  <2>. HIDE DEF learner
  <2>. QED  BY <1>2, AutoAssignEffect
<1>5. Mandatory(learners[id])' = Mandatory(learner)'
  BY <1>3 DEF Mandatory, Group
<1>6. HasMandatory(id)'
  BY <1>4, <1>5 DEF HasMandatory, Missing
<1>. QED  BY <1>3, <1>4, <1>6

\* An update gives a learner with a new grade its fees and changes no assignment.
LEMMA UpdateFees ==
  ASSUME EnrolmentTypeOK, NEW l \in DOMAIN learners, NEW grade \in Grades, NEW class_name \in Classes,
         UpdateLearner(l, grade, class_name)
  PROVE  /\ \A j \in DOMAIN learners' :
              (j \notin DOMAIN learners \/ learners'[j].grade # learners[j].grade) => HasMandatory(j)'
         /\ \A k \in DOMAIN assignments : k \in DOMAIN assignments' /\ assignments'[k] = assignments[k]
<1>. PICK learner : learner = [learners[l] EXCEPT !.grade = grade, !.class_name = class_name]
  OBVIOUS
<1>1. learners[l] \in LearnerRow
  BY RowInSet DEF EnrolmentTypeOK
<1>2. learner \in LearnerRow /\ learner.grade = grade
  BY <1>1 DEF LearnerRow
<1>3. learners' = [learners EXCEPT ![l] = learner] /\ items' = items
  BY DEF UpdateLearner
<1>4. /\ DOMAIN learners' = DOMAIN learners
      /\ \A k \in DOMAIN learners : learners'[k] = IF k = l THEN learner ELSE learners[k]
  BY <1>2, <1>3, RowReplaced DEF EnrolmentTypeOK
<1>5. CASE grade # learners[l].grade
  <2>1. AutoAssign(l, learner)
    BY <1>5 DEF UpdateLearner
  <2>2. /\ Mandatory(learner)' \ Assigned(l)' = {}
        /\ \A k \in DOMAIN assignments : k \in DOMAIN assignments' /\ assignments'[k] = assignments[k]
    BY <1>3, <2>1, AutoAssignEffect
  <2>3. Mandatory(learners[l])' = Mandatory(learner)'
    BY <1>4 DEF Mandatory, Group
  <2>4. HasMandatory(l)'
    BY <2>2, <2>3 DEF HasMandatory, Missing
  <2>. QED  BY <1>4, <2>2, <2>4
<1>6. CASE grade = learners[l].grade
  <2>1. assignments' = assignments
    BY <1>6 DEF UpdateLearner
  <2>. QED  BY <1>2, <1>4, <1>6, <2>1
<1>. QED  BY <1>5, <1>6

\* What one step does to grades and to assignments, whichever action it is.
LEMMA FeeStep ==
  ASSUME EnrolmentTypeOK, [Next]_vars
  PROVE  /\ \A l \in DOMAIN learners' :
              (l \notin DOMAIN learners \/ learners'[l].grade # learners[l].grade) => HasMandatory(l)'
         /\ \A k \in DOMAIN assignments :
              /\ k \in DOMAIN assignments'
              /\ assignments[k].is_active =>
                   assignments'[k] = [assignments[k] EXCEPT !.is_active = assignments'[k].is_active]
              /\ ~assignments[k].is_active /\ assignments'[k].is_active => learners' = learners
<1>. DEFINE Graded == \A l \in DOMAIN learners' :
                        (l \notin DOMAIN learners \/ learners'[l].grade # learners[l].grade) => HasMandatory(l)'
            Kept == \A k \in DOMAIN assignments : k \in DOMAIN assignments' /\ assignments'[k] = assignments[k]
            Agreed == \A k \in DOMAIN assignments :
                        /\ k \in DOMAIN assignments'
                        /\ assignments[k].is_active =>
                             assignments'[k] = [assignments[k] EXCEPT !.is_active = assignments'[k].is_active]
                        /\ ~assignments[k].is_active /\ assignments'[k].is_active => learners' = learners
<1>1. \A k \in DOMAIN assignments : assignments[k] \in AssignmentRow
  BY DEF EnrolmentTypeOK
<1>2. Kept => Agreed
  BY <1>1 DEF AssignmentRow
<1>3. learners' = learners => Graded
  OBVIOUS
<1>4. CASE \E day \in Days, grade \in Grades, class_name \in Classes : CreateLearner(day, grade, class_name)
  <2>1. PICK day \in Days, grade \in Grades, class_name \in Classes : CreateLearner(day, grade, class_name)
    BY <1>4
  <2>2. PICK code \in NewCodes(day) : Register(code, grade, class_name, FALSE)
    BY <2>1 DEF CreateLearner
  <2>3. code \in [form : {"daily", "short"}, day : Days, seq : Nat]
    BY CodeType
  <2>. QED  BY <1>2, <2>2, <2>3, RegisterFees
<1>5. CASE \E day \in Days, grade \in Grades, class_name \in Classes, given \in GivenCodes \cup {NoCode} :
             ImportLearner(day, grade, class_name, given)
  <2>1. PICK day \in Days, grade \in Grades, class_name \in Classes, given \in GivenCodes \cup {NoCode} :
          ImportLearner(day, grade, class_name, given)
    BY <1>5
  <2>2. PICK code \in ImportedCodes(day, given) : Register(code, grade, class_name, given # NoCode)
    BY <2>1 DEF ImportLearner
  <2>3. code \in [form : {"daily", "short"}, day : Days, seq : Nat] /\ (given # NoCode) \in BOOLEAN
    BY CodeType
  <2>. QED  BY <1>2, <2>2, <2>3, RegisterFees
<1>6. CASE \E l \in DOMAIN learners, grade \in Grades, class_name \in Classes : UpdateLearner(l, grade, class_name)
  BY <1>2, <1>6, UpdateFees
<1>7. CASE \/ \E scope \in Scopes, is_mandatory \in BOOLEAN :
                CreateItem(scope, is_mandatory) \/ \E i \in DOMAIN items : UpdateItem(i, scope, is_mandatory)
           \/ \E i \in DOMAIN items : ToggleItem(i)
           \/ UNCHANGED vars
  <2>1. learners' = learners /\ assignments' = assignments
    BY <1>7 DEF CreateItem, UpdateItem, ToggleItem, vars
  <2>. QED  BY <1>2, <1>3, <2>1
<1>8. CASE \E l \in DOMAIN learners : AutoAssignFees(l)
  <2>1. PICK l \in DOMAIN learners : AutoAssign(l, learners[l]) /\ UNCHANGED <<learners, items>>
    BY <1>8 DEF AutoAssignFees
  <2>. PICK learner : learner = learners[l]
    OBVIOUS
  <2>2. AutoAssign(l, learner) /\ items' = items
    BY <2>1
  <2>. QED  BY <1>2, <1>3, <2>1, <2>2, AutoAssignEffect
<1>9. CASE \E l \in DOMAIN learners, i \in DOMAIN items : RemoveAssignment(l, i)
  <2>1. PICK l \in DOMAIN learners, i \in DOMAIN items : RemoveAssignment(l, i)
    BY <1>9
  <2>2. learners' = learners /\ assignments' = [assignments EXCEPT ![<<l, i>>].is_active = FALSE]
    BY <2>1 DEF RemoveAssignment
  <2>3. Agreed
    BY <1>1, <2>2 DEF EnrolmentTypeOK, AssignmentRow
  <2>. QED  BY <1>3, <2>2, <2>3
<1>10. CASE \E l \in DOMAIN learners, i \in DOMAIN items, custom \in Customs \cup {NoCustom} : AssignFee(l, i, custom)
  <2>1. PICK l \in DOMAIN learners, i \in DOMAIN items, custom \in Customs \cup {NoCustom} :
          AssignFee(l, i, custom)
    BY <1>10
  <2>2. i \notin Assigned(l) /\ Assign({<<l, i>>}, custom) /\ learners' = learners
    BY <2>1 DEF AssignFee
  <2>3. /\ DOMAIN assignments' = DOMAIN assignments \cup {<<l, i>>}
        /\ \A k \in DOMAIN assignments \ {<<l, i>>} : assignments'[k] = assignments[k]
    BY <2>2, AssignEffect
  <2>4. <<l, i>> \in DOMAIN assignments => ~assignments[<<l, i>>].is_active
    BY <2>2 DEF Assigned
  <2>5. Agreed
    BY <1>1, <2>2, <2>3, <2>4 DEF AssignmentRow
  <2>. QED  BY <1>3, <2>2, <2>5
<1>. QED  BY <1>4, <1>5, <1>6, <1>7, <1>8, <1>9, <1>10 DEF Next

\* Whoever is registered or changes grade has every active mandatory item of
\* the grade after that step, whatever the catalogue holds.
THEOREM GradeGetsItsFees == Spec => FeesFollowGrade
<1>1. EnrolmentTypeOK /\ [Next]_vars =>
        [\A l \in DOMAIN learners' :
           (l \notin DOMAIN learners \/ learners'[l].grade # learners[l].grade) => HasMandatory(l)']_vars
  BY FeeStep
<1>. QED  BY <1>1, EnrolmentTypeCorrect, PTL DEF Spec, FeesFollowGrade

\* No step changes the price of an active assignment, loses an assignment, or
\* brings one back together with a change of the learner.
THEOREM AgreementsStay == Spec => AgreementsKept
<1>1. EnrolmentTypeOK /\ [Next]_vars =>
        [\A k \in DOMAIN assignments :
           /\ k \in DOMAIN assignments'
           /\ assignments[k].is_active =>
                assignments'[k] = [assignments[k] EXCEPT !.is_active = assignments'[k].is_active]
           /\ ~assignments[k].is_active /\ assignments'[k].is_active => learners' = learners]_vars
  BY FeeStep
<1>. QED  BY <1>1, EnrolmentTypeCorrect, PTL DEF Spec, AgreementsKept

\* A registration or an import never fails for the fees: auto_assign_mandatory_fees
\* cannot meet a row taken away earlier, since a new learner has none.  What the
\* run enrolment_removed shows needs a learner who was assigned fees before.
THEOREM NewLearnersNeverClash ==
  Spec => [](\A learner \in LearnerRow : Clashes(Len(learners) + 1, learner) = {})
<1>1. EnrolmentTypeOK => \A learner \in LearnerRow : Clashes(Len(learners) + 1, learner) = {}
  <2>. SUFFICES ASSUME EnrolmentTypeOK, NEW learner \in LearnerRow, NEW i,
                       i \in Clashes(Len(learners) + 1, learner)
                PROVE  FALSE
    OBVIOUS
  <2>1. <<Len(learners) + 1, i>> \in (DOMAIN learners) \X (DOMAIN items)
    BY DEF Clashes, EnrolmentTypeOK
  <2>2. Len(learners) \in Nat /\ DOMAIN learners = 1..Len(learners)
    BY LenProperties DEF EnrolmentTypeOK
  <2>3. Len(learners) + 1 \in DOMAIN learners
    BY <2>1
  <2>. QED  BY <2>2, <2>3
<1>. QED  BY <1>1, EnrolmentTypeCorrect, PTL
=============================================================================

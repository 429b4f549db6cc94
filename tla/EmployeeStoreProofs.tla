------------------------ MODULE EmployeeStoreProofs ------------------------
(***************************************************************************)
(* Employees are numbered by their ids, and a run is refused only by       *)
(* another one, for any number of runs.                                    *)
(***************************************************************************)
EXTENDS EmployeeStore, TLAPS, SequenceTheorems

(***************************************************************************)
(* What a run has read is at most what is there: rows are never removed.   *)
(***************************************************************************)
NothingAhead == \A p \in Proc : lastNumber[p] <= Len(employees)

(* Some run has inserted the row with number n. *)
Inserted(n) == \E q \in Proc : pc[q] = "created" /\ lastNumber[q] + 1 = n

(***************************************************************************)
(* Of every row behind the one a run has read we know who inserted it:     *)
(* some run did, since the reading.                                        *)
(***************************************************************************)
RowsSinceReading ==
  \A p \in Proc : pc[p] \in {"create", "refused"} /\ p \notin misread =>
    \A n \in lastNumber[p] + 1 .. Len(employees) : Inserted(n)

(* A refused run's number is one of the rows. *)
RefusedIsBehind ==
  \A p \in Proc : pc[p] = "refused" => lastNumber[p] + 1 <= Len(employees)

IInv ==
  /\ TypeOK
  /\ NumbersAreConsecutive
  /\ NothingAhead
  /\ RowsSinceReading
  /\ RefusedIsBehind

-----------------------------------------------------------------------------
(***************************************************************************)
(* A row gets in only as the next one: a number already passed is taken    *)
(* (the unique columns), and no run is ahead of the table.                 *)
(***************************************************************************)
LEMMA UntakenIsNext ==
  ASSUME IInv, NEW p \in Proc, ~Taken(genEmployee(lastNumber[p]))
  PROVE  lastNumber[p] = Len(employees)
<1>1. lastNumber[p] \in Nat /\ Len(employees) \in Nat /\ lastNumber[p] <= Len(employees)
  BY LenProperties DEF IInv, TypeOK, NothingAhead
<1>2. ASSUME lastNumber[p] + 1 <= Len(employees) PROVE FALSE
  <2>1. lastNumber[p] + 1 \in DOMAIN employees
    BY <1>1, <1>2, LenProperties DEF IInv, TypeOK
  <2>2. employees[lastNumber[p] + 1].Number = lastNumber[p] + 1
    BY <2>1 DEF IInv, NumbersAreConsecutive
  <2> QED BY <2>1, <2>2 DEF Taken, genEmployee
<1> QED BY <1>1, <1>2

(* A taken number or email is that of a row: the number is not behind all. *)
LEMMA TakenIsBehind ==
  ASSUME IInv, NEW p \in Proc, Taken(genEmployee(lastNumber[p]))
  PROVE  lastNumber[p] + 1 <= Len(employees)
<1>1. PICK id \in DOMAIN employees :
        \/ employees[id].Number = lastNumber[p] + 1
        \/ employees[id].Email = lastNumber[p]
  BY DEF Taken, genEmployee
<1>2. employees[id] = [Number |-> id, Email |-> id - 1]
  BY <1>1 DEF IInv, NumbersAreConsecutive
<1>3. id \in 1 .. Len(employees) /\ Len(employees) \in Nat /\ lastNumber[p] \in Nat
  BY <1>1, LenProperties DEF IInv, TypeOK
<1> QED BY <1>1, <1>2, <1>3

-----------------------------------------------------------------------------
(* Sequences as functions.                                                 *)
LEMMA IsSequence ==
  ASSUME NEW S, NEW n \in Nat, NEW f \in [1 .. n -> S]
  PROVE  f \in Seq(S)
BY SeqDef

LEMMA LastIsThere ==
  ASSUME NEW S, NEW s \in Seq(S), s # <<>>
  PROVE  Len(s) \in Nat /\ Len(s) \in DOMAIN s
BY EmptySeq, LenProperties

(* A database that is new, or that earlier runs have filled. *)
LEMMA InitIInv == Init => IInv
<1> SUFFICES ASSUME Init PROVE IInv
  OBVIOUS
<1>1. PICK n \in 0 .. MaxRows :
        employees = [id \in 1 .. n |-> genEmployee(id - 1)] /\ (~migrated => n = 0)
  BY DEF Init
<1>2. n \in Nat
  BY <1>1, EmployeeStoreAssumption
<1>3. \A id \in 1 .. n : genEmployee(id - 1) = [Number |-> id, Email |-> id - 1]
  BY <1>2 DEF genEmployee
<1>4. /\ employees \in Seq([Number : Nat, Email : Nat])
      /\ Len(employees) = n /\ DOMAIN employees = 1 .. n
  <2>1. ASSUME NEW id \in 1 .. n
        PROVE  genEmployee(id - 1) \in [Number : Nat, Email : Nat]
    BY <1>2 DEF genEmployee
  <2>2. employees \in [1 .. n -> [Number : Nat, Email : Nat]]
    BY <1>1, <2>1
  <2>3. employees \in Seq([Number : Nat, Email : Nat])
    BY <1>2, <2>2, IsSequence, Zenon
  <2>4. DOMAIN employees = 1 .. n /\ DOMAIN employees = 1 .. Len(employees)
    BY <2>2, <2>3, LenProperties
  <2>5. Len(employees) \in Nat
    BY <2>3, LenProperties
  <2> QED BY <1>2, <2>3, <2>4, <2>5
<1>5. NumbersAreConsecutive
  BY <1>1, <1>3, <1>4 DEF NumbersAreConsecutive
<1>6. TypeOK
  BY <1>1, <1>4 DEF TypeOK, Init, Ended
<1>7. NothingAhead /\ RowsSinceReading /\ RefusedIsBehind
  BY <1>2, <1>4 DEF Init, NothingAhead, RowsSinceReading, RefusedIsBehind
<1> QED BY <1>5, <1>6, <1>7 DEF IInv

-----------------------------------------------------------------------------
(***************************************************************************)
(* A step of one run, as long as it leaves the table alone.                *)
(***************************************************************************)
LEMMA TableUntouched ==
  ASSUME IInv, TypeOK', employees' = employees, misread \subseteq misread',
         NEW p \in Proc,
         \A q \in Proc \ {p} : pc'[q] = pc[q] /\ lastNumber'[q] = lastNumber[q],
         pc[p] # "created",
         lastNumber'[p] <= Len(employees),
         pc'[p] = "create" /\ p \notin misread' => lastNumber'[p] = Len(employees),
         pc'[p] = "refused" =>
           /\ pc[p] = "create" /\ lastNumber'[p] = lastNumber[p] /\ misread' = misread
           /\ lastNumber[p] + 1 <= Len(employees)
  PROVE  IInv'
<1>1. NumbersAreConsecutive'
  BY DEF IInv, NumbersAreConsecutive
<1>2. NothingAhead'
  BY DEF IInv, NothingAhead
<1>3. \A n : Inserted(n) => Inserted(n)'
  BY DEF Inserted
<1>4. RowsSinceReading'
  <2> SUFFICES ASSUME NEW q \in Proc,
                      pc'[q] \in {"create", "refused"}, q \notin misread',
                      NEW n \in lastNumber'[q] + 1 .. Len(employees')
               PROVE  Inserted(n)'
    BY DEF RowsSinceReading
  <2>1. CASE q # p
    BY <2>1, <1>3 DEF IInv, RowsSinceReading
  <2>2. CASE q = p /\ pc'[p] = "refused"
    BY <2>2, <1>3 DEF IInv, RowsSinceReading
  <2>3. CASE q = p /\ pc'[p] = "create"
    <3>1. lastNumber'[p] = Len(employees) /\ lastNumber'[p] \in Nat
      BY <2>3 DEF TypeOK
    <3> QED BY <2>3, <3>1
  <2> QED BY <2>1, <2>2, <2>3
<1>5. RefusedIsBehind'
  BY DEF IInv, RefusedIsBehind
<1> QED BY <1>1, <1>2, <1>4, <1>5 DEF IInv

(* The row a run inserts is the next one. *)
LEMMA RowInserted ==
  ASSUME IInv, NEW p \in Proc, pc[p] = "create",
         ~Taken(genEmployee(lastNumber[p])),
         employees' = Append(employees, genEmployee(lastNumber[p])),
         pc' = [pc EXCEPT ![p] = "created"],
         migrated, UNCHANGED <<migrated, lastNumber, misread>>
  PROVE  IInv'
<1> DEFINE Row == [Number : Nat, Email : Nat]
           emp == genEmployee(lastNumber[p])
<1>1. lastNumber[p] = Len(employees)
  BY UntakenIsNext
<1>2. Len(employees) \in Nat /\ DOMAIN employees = 1 .. Len(employees)
  BY LenProperties DEF IInv, TypeOK
<1>3. emp = [Number |-> Len(employees) + 1, Email |-> Len(employees)] /\ emp \in Row
  BY <1>1, <1>2 DEF genEmployee
<1>4. /\ employees' \in Seq(Row)
      /\ Len(employees') = Len(employees) + 1
      /\ \A i \in 1 .. Len(employees) : employees'[i] = employees[i]
      /\ employees'[Len(employees) + 1] = emp
  BY <1>3, AppendProperties DEF IInv, TypeOK
<1>5. DOMAIN employees' = 1 .. Len(employees) + 1
  BY <1>4, LenProperties
<1>6. TypeOK'
  BY <1>4 DEF IInv, TypeOK, Ended
<1>7. NumbersAreConsecutive'
  <2> SUFFICES ASSUME NEW id \in DOMAIN employees'
               PROVE  employees'[id] = [Number |-> id, Email |-> id - 1]
    BY DEF NumbersAreConsecutive
  <2>1. CASE id \in 1 .. Len(employees)
    BY <2>1, <1>2, <1>4 DEF IInv, NumbersAreConsecutive
  <2>2. CASE id = Len(employees) + 1
    BY <2>2, <1>2, <1>3, <1>4
  <2> QED BY <1>2, <1>5, <2>1, <2>2
<1>8. NothingAhead' /\ RefusedIsBehind'
  BY <1>2, <1>4 DEF IInv, TypeOK, NothingAhead, RefusedIsBehind
<1>9. RowsSinceReading'
  <2> SUFFICES ASSUME NEW q \in Proc,
                      pc'[q] \in {"create", "refused"}, q \notin misread',
                      NEW n \in lastNumber'[q] + 1 .. Len(employees')
               PROVE  Inserted(n)'
    BY DEF RowsSinceReading
  <2>1. CASE n \in lastNumber[q] + 1 .. Len(employees)
    <3>1. pc[q] \in {"create", "refused"} /\ q \notin misread
      BY DEF IInv, TypeOK
    <3>2. PICK r \in Proc : pc[r] = "created" /\ lastNumber[r] + 1 = n
      BY <2>1, <3>1 DEF IInv, RowsSinceReading, Inserted
    <3> QED BY <3>2 DEF IInv, TypeOK, Inserted
  <2>2. CASE n = Len(employees) + 1
    BY <2>2, <1>1 DEF IInv, TypeOK, Inserted
  <2> QED BY <1>2, <1>4, <2>1, <2>2 DEF IInv, TypeOK
<1> QED BY <1>6, <1>7, <1>8, <1>9 DEF IInv

-----------------------------------------------------------------------------
(* The type invariant needs the consecutive numbers: Last reads one. *)
LEMMA StepTypeOK == IInv /\ Next => TypeOK'
<1> SUFFICES ASSUME IInv, NEW p \in Proc,
                    Open(p) \/ Migrate(p) \/ Last(p) \/ Create(p) \/ Kill(p)
             PROVE  TypeOK'
  BY DEF Next
<1>1. CASE Open(p)
  BY <1>1 DEF Open, Goto, IInv, TypeOK, Ended
<1>2. CASE Migrate(p)
  BY <1>2 DEF Migrate, Goto, IInv, TypeOK, Ended
<1>3. CASE Last(p)
  <2>1. lastNumber' \in [Proc -> Nat]
    <3>1. employees # <<>> => employees[Len(employees)].Number \in Nat
      <4> SUFFICES ASSUME employees # <<>>
                   PROVE  employees[Len(employees)].Number \in Nat
        OBVIOUS
      <4>1. Len(employees) \in Nat /\ Len(employees) \in DOMAIN employees
        BY LastIsThere, Zenon DEF IInv, TypeOK
      <4> QED BY <4>1 DEF IInv, NumbersAreConsecutive
    <3> QED BY <1>3, <3>1 DEF Last, IInv, TypeOK
  <2> QED BY <1>3, <2>1 DEF Last, Goto, IInv, TypeOK, Ended
<1>4. CASE Create(p)
  <2>1. genEmployee(lastNumber[p]) \in [Number : Nat, Email : Nat]
    BY DEF genEmployee, IInv, TypeOK
  <2>2. Append(employees, genEmployee(lastNumber[p])) \in Seq([Number : Nat, Email : Nat])
    BY <2>1, AppendProperties DEF IInv, TypeOK
  <2> QED BY <1>4, <2>2 DEF Create, Goto, IInv, TypeOK, Ended
<1>5. CASE Kill(p)
  BY <1>5 DEF Kill, Goto, IInv, TypeOK, Ended
<1> QED BY <1>1, <1>2, <1>3, <1>4, <1>5

(* Every step keeps the invariant: all but an insert leave the table alone. *)
LEMMA StepIInv == IInv /\ [Next]_vars => IInv'
<1> SUFFICES ASSUME IInv, [Next]_vars PROVE IInv'
  OBVIOUS
<1>1. CASE UNCHANGED vars
  BY <1>1 DEF vars, IInv, TypeOK, NumbersAreConsecutive, NothingAhead,
              RowsSinceReading, RefusedIsBehind, Inserted
<1>2. CASE Next
  <2>1. TypeOK'
    BY <1>2, StepTypeOK
  <2> PICK p \in Proc : Open(p) \/ Migrate(p) \/ Last(p) \/ Create(p) \/ Kill(p)
    BY <1>2 DEF Next
  <2>2. lastNumber[p] <= Len(employees)
    BY DEF IInv, NothingAhead
  <2>3. CASE Open(p)
    BY <2>1, <2>2, <2>3, TableUntouched DEF Open, Goto, IInv, TypeOK
  <2>4. CASE Migrate(p)
    BY <2>1, <2>2, <2>4, TableUntouched DEF Migrate, Goto, IInv, TypeOK
  <2>5. CASE Last(p)
    <3>1. Len(employees) \in Nat /\ (employees # <<>> => Len(employees) \in DOMAIN employees)
      BY LenProperties, EmptySeq DEF IInv, TypeOK
    <3>2. lastNumber'[p] <= Len(employees)
      BY <2>2, <2>5, <3>1 DEF Last, IInv, TypeOK, NumbersAreConsecutive
    <3>3. p \notin misread' => lastNumber'[p] = Len(employees)
      BY <2>5, <3>1, EmptySeq DEF Last, IInv, TypeOK, NumbersAreConsecutive
    <3> QED BY <2>1, <2>5, <3>2, <3>3, TableUntouched DEF Last, Goto, IInv, TypeOK
  <2>6. CASE Create(p)
    <3>1. CASE migrated /\ ~Taken(genEmployee(lastNumber[p])) /\ pc'[p] = "created"
      BY <2>6, <3>1, RowInserted DEF Create, Goto, IInv, TypeOK
    <3>2. CASE migrated /\ Taken(genEmployee(lastNumber[p])) /\ pc'[p] = "refused"
      BY <2>1, <2>2, <2>6, <3>2, TakenIsBehind, TableUntouched DEF Create, Goto, IInv, TypeOK
    <3>3. CASE pc'[p] = "failed"
      BY <2>1, <2>2, <2>6, <3>3, TableUntouched DEF Create, Goto, IInv, TypeOK
    <3> QED BY <2>6, <3>1, <3>2, <3>3 DEF Create, Goto, IInv, TypeOK
  <2>7. CASE Kill(p)
    BY <2>1, <2>2, <2>7, TableUntouched DEF Kill, Goto, Ended, IInv, TypeOK
  <2> QED BY <2>3, <2>4, <2>5, <2>6, <2>7
<1> QED BY <1>1, <1>2

(* The inductive invariant holds throughout. *)
THEOREM Invariant == Spec => []IInv
<1> QED BY InitIInv, StepIInv, PTL DEF Spec

(***************************************************************************)
(* The employees of any number of concurrent runs, which may fail or be    *)
(* killed anywhere, are numbered by their ids.                             *)
(***************************************************************************)
THEOREM EmployeesAreNumbered == Spec => []NumbersAreConsecutive
<1>1. IInv => NumbersAreConsecutive
  BY DEF IInv
<1> QED BY <1>1, Invariant, PTL

(***************************************************************************)
(* A run that could read the last employee is refused only for the number  *)
(* another run has inserted since.                                         *)
(***************************************************************************)
THEOREM OnlyLosersAreRefused == Spec => []RefusedByAnother
<1>1. IInv => RefusedByAnother
  <2> SUFFICES ASSUME IInv, NEW p \in Proc, pc[p] = "refused", p \notin misread
               PROVE  \E q \in Proc : pc[q] = "created" /\ lastNumber[q] = lastNumber[p]
    BY DEF RefusedByAnother
  <2>1. /\ lastNumber[p] + 1 <= Len(employees) /\ lastNumber[p] \in Nat
        /\ Len(employees) \in Nat
    BY LenProperties DEF IInv, TypeOK, RefusedIsBehind
  <2>2. Inserted(lastNumber[p] + 1)
    BY <2>1 DEF IInv, RowsSinceReading
  <2> QED BY <2>1, <2>2 DEF Inserted, IInv, TypeOK
<1> QED BY <1>1, Invariant, PTL
=============================================================================

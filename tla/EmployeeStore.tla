--------------------------- MODULE EmployeeStore ---------------------------
(***************************************************************************)
(* The employee program of database/gorm/main.go: each run of it opens the *)
(* database, migrates the schema, reads the last employee and inserts one  *)
(* with the next number. The read and the insert are two statements, and   *)
(* several runs may work on one database file.                             *)
(*                                                                         *)
(* SQLite and gorm are external: a statement is atomic; any statement may  *)
(* fail, as when the file stays locked by another process for too long; an *)
(* insert gives the row the id after the largest one, and fails when its   *)
(* number or its email is taken (unique in model.Employee).                *)
(***************************************************************************)
EXTENDS Integers, Sequences

CONSTANTS
  Proc,    (* runs of the program                                           *)
  MaxRows  (* bound: employees in the file the runs begin with              *)

ASSUME EmployeeStoreAssumption == MaxRows \in Nat

VARIABLES
  employees, (* the table, in the order of the ids                          *)
  migrated,  (* the table exists                                            *)
  pc,        (* of each run: "open", "migrate", "last", "create", or how it *)
             (* ended: "created", "refused" (not unique), "failed" (any     *)
             (* other error), "killed"                                      *)
  lastNumber,(* of each run: empLast.Number                                 *)
  misread    (* history: runs whose reading of the last employee failed     *)

vars == <<employees, migrated, pc, lastNumber, misread>>

(* An email is written from the number of the employee before; the mutant  *)
(* forgets to count on.                                                    *)
genEmployeeSame(last) == [Number |-> last, Email |-> last]
genEmployee(last) == [Number |-> last + 1, Email |-> last]

Ended == {"created", "refused", "failed", "killed"}

TypeOK ==
  /\ employees \in Seq([Number : Nat, Email : Nat])
  /\ migrated \in BOOLEAN /\ (employees # <<>> => migrated)
  /\ pc \in [Proc -> {"open", "migrate", "last", "create"} \cup Ended]
  /\ lastNumber \in [Proc -> Nat]
  /\ misread \subseteq Proc

(* There is no file yet, or one that earlier runs have filled. *)
Init ==
  /\ migrated \in BOOLEAN
  /\ \E n \in 0 .. MaxRows :
       /\ ~migrated => n = 0
       /\ employees = [id \in 1 .. n |-> genEmployee(id - 1)]
  /\ pc = [p \in Proc |-> "open"]
  /\ lastNumber = [p \in Proc |-> 0]
  /\ misread = {}

-----------------------------------------------------------------------------
Goto(p, place) == pc' = [pc EXCEPT ![p] = place]

(* openDB and db.DB(), whose errors end the program. *)
Open(p) ==
  /\ pc[p] = "open"
  /\ Goto(p, "migrate") \/ Goto(p, "failed")
  /\ UNCHANGED <<employees, migrated, lastNumber, misread>>

(* model.InitEmployee: an error of AutoMigrate is ignored. *)
Migrate(p) ==
  /\ pc[p] = "migrate"
  /\ migrated' \in {migrated, TRUE}
  /\ Goto(p, "last")
  /\ UNCHANGED <<employees, lastNumber, misread>>

(* db.Last(&empLast): its error is ignored and leaves empLast as it was.   *)
Last(p) ==
  /\ pc[p] = "last"
  /\ \/ /\ migrated
        /\ lastNumber' = [lastNumber EXCEPT ![p] =
             IF employees = <<>> THEN 0 ELSE employees[Len(employees)].Number]
        /\ UNCHANGED misread
     \/ misread' = misread \cup {p} /\ UNCHANGED lastNumber
  /\ Goto(p, "create")
  /\ UNCHANGED <<employees, migrated>>

(* Mutant of Taken: the columns are not unique. *)
NeverTaken(emp) == FALSE

(* The unique columns of model.Employee. *)
Taken(emp) == \E id \in DOMAIN employees :
  employees[id].Number = emp.Number \/ employees[id].Email = emp.Email

(* db.Create(&emp): its error is printed, and there is no second try.      *)
Create(p) ==
  /\ pc[p] = "create"
  /\ LET emp == genEmployee(lastNumber[p]) IN
     \/ /\ migrated /\ ~Taken(emp)
        /\ employees' = Append(employees, emp)
        /\ Goto(p, "created")
     \/ migrated /\ Taken(emp) /\ Goto(p, "refused") /\ UNCHANGED employees
     \/ Goto(p, "failed") /\ UNCHANGED employees
  /\ UNCHANGED <<migrated, lastNumber, misread>>

Kill(p) ==
  /\ pc[p] \notin Ended
  /\ Goto(p, "killed")
  /\ UNCHANGED <<employees, migrated, lastNumber, misread>>

Next == \E p \in Proc : Open(p) \/ Migrate(p) \/ Last(p) \/ Create(p) \/ Kill(p)

Spec == Init /\ [][Next]_vars
-----------------------------------------------------------------------------
(***************************************************************************)
(* Whatever runs beside each other, fails or is killed, employees are      *)
(* numbered by their ids, without a gap or a repetition: genEmployee's     *)
(* reading of the last number may be stale, but then the number is taken.  *)
(***************************************************************************)
NumbersAreConsecutive ==
  \A id \in DOMAIN employees : employees[id] = [Number |-> id, Email |-> id - 1]

(***************************************************************************)
(* A run is refused only because another one was faster with the same      *)
(* number, unless it could not read the last employee: concurrent runs     *)
(* never all lose.                                                         *)
(***************************************************************************)
RefusedByAnother ==
  \A p \in Proc : pc[p] = "refused" /\ p \notin misread =>
    \E q \in Proc : pc[q] = "created" /\ lastNumber[q] = lastNumber[p]
=============================================================================

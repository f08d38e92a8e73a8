---------------------------- MODULE ProductTable ----------------------------
(***************************************************************************)
(* The product row in SQLite, statement by statement.  Every statement is  *)
(* atomic, and between two of them the one connection serves others: the   *)
(* conditional calls test in the WHERE clause of an UPDATE and look a      *)
(* second time to find out why it changed nothing, and                     *)
(* SaveIfUnchangedSince compares the time it was given in Go before.  The  *)
(* kinds of error are one here: the second look may find a reason that     *)
(* came after the fact.                                                    *)
(***************************************************************************)
EXTENDS Naturals

CONSTANTS Callers, Contents, NoRow, MaxClock

ASSUME TableAssumption == MaxClock \in Nat

VARIABLES row, now, copy, call, reply,
    statement,   \* the statement a call is at
    current      \* the updated_at SaveIfUnchangedSince has read

tableVars == <<row, now, copy, call, reply, statement, current>>

Statements == {"first", "update", "classify"}

(* The call has failed when its UPDATE changes nothing, though the caller  *)
(* learns it one statement later.                                          *)
Answer == [w \in Callers |-> IF statement[w] = "classify" THEN "error" ELSE reply[w]]

Store == INSTANCE ProductStore WITH reply <- Answer
Interface == INSTANCE ProductStore

TableTypeOK ==
    /\ Interface!StoreTypeOK
    /\ statement \in [Callers -> Statements]
    /\ current \in [Callers -> Nat]

TableInit ==
    /\ Interface!StoreInit
    /\ statement = [w \in Callers |-> "first"]
    /\ current = [w \in Callers |-> 0]

Uses(w) == /\ Interface!ByID(w) \/ Interface!Begin(w) \/ Interface!BeginUnstamped(w)
           /\ UNCHANGED <<statement, current>>

(***************************************************************************)
(* The statements.                                                         *)
(***************************************************************************)
IsAt(w, op, place) == /\ reply[w] = "pending"
                      /\ call[w].op = op
                      /\ statement[w] = place

Returns(w, r) == /\ reply' = [reply EXCEPT ![w] = r]
                 /\ statement' = [statement EXCEPT ![w] = "first"]

LooksAgain(w) == /\ statement' = [statement EXCEPT ![w] = "classify"]
                 /\ UNCHANGED <<row, reply>>

UpsertRow(w) ==
    /\ IsAt(w, "save", "first")
    /\ row' = call[w].new
    /\ Returns(w, "ok")
    /\ UNCHANGED <<now, copy, call, current>>

(* WHERE deleted_at IS NULL *)
UpdateDeleted(w) ==
    /\ IsAt(w, "softDelete", "first")
    /\ \/ /\ row # NoRow
          /\ ~row.deleted
          /\ row' = [row EXCEPT !.deleted = TRUE, !.at = call[w].new.at]
          /\ Returns(w, "ok")
       \/ /\ row # NoRow => row.deleted
          /\ LooksAgain(w)
    /\ UNCHANGED <<now, copy, call, current>>

(* WHERE deleted_at IS NOT NULL *)
UpdateRestored(w) ==
    /\ IsAt(w, "restore", "first")
    /\ \/ /\ row # NoRow
          /\ row.deleted
          /\ row' = [row EXCEPT !.deleted = FALSE, !.at = call[w].new.at]
          /\ Returns(w, "ok")
       \/ /\ row # NoRow => ~row.deleted
          /\ LooksAgain(w)
    /\ UNCHANGED <<now, copy, call, current>>

SelectUpdatedAt(w) ==
    /\ IsAt(w, "saveIf", "first")
    /\ \/ /\ row # NoRow
          /\ ~row.deleted
          /\ row.at = call[w].since
          /\ current' = [current EXCEPT ![w] = row.at]
          /\ statement' = [statement EXCEPT ![w] = "update"]
          /\ UNCHANGED reply
       \/ /\ row # NoRow => row.deleted \/ row.at # call[w].since
          /\ Returns(w, "error")
          /\ UNCHANGED current
    /\ UNCHANGED <<row, now, copy, call>>

\* Mutant: WHERE deleted_at IS NULL.
UpdateIfThere(w) ==
    /\ IsAt(w, "saveIf", "update")
    /\ \/ /\ row # NoRow
          /\ ~row.deleted
          /\ row' = call[w].new
          /\ Returns(w, "ok")
       \/ /\ row # NoRow => row.deleted
          /\ LooksAgain(w)
    /\ UNCHANGED <<now, copy, call, current>>

(* WHERE updated_at = current AND deleted_at IS NULL *)
UpdateIfCurrent(w) ==
    /\ IsAt(w, "saveIf", "update")
    /\ \/ /\ row # NoRow
          /\ ~row.deleted
          /\ row.at = current[w]
          /\ row' = call[w].new
          /\ Returns(w, "ok")
       \/ /\ row # NoRow => row.deleted \/ row.at # current[w]
          /\ LooksAgain(w)
    /\ UNCHANGED <<now, copy, call, current>>

(* Not found, deleted already, not deleted, or stale: whatever the row is  *)
(* by now, an error.                                                       *)
Classify(w) ==
    /\ reply[w] = "pending"
    /\ statement[w] = "classify"
    /\ Returns(w, "error")
    /\ UNCHANGED <<row, now, copy, call, current>>

TableNext ==
    \E w \in Callers :
        \/ Uses(w) \/ UpsertRow(w) \/ UpdateDeleted(w) \/ UpdateRestored(w)
        \/ SelectUpdatedAt(w) \/ UpdateIfCurrent(w) \/ Classify(w)

TableSpec == TableInit /\ [][TableNext]_tableVars

(***************************************************************************)
(* Between its statements SQLite serves other calls, and still every call  *)
(* is, to its caller and to all others, the one step of the in-memory      *)
(* store: a conditional save never lands on a row other than the one it    *)
(* was checked against, and a refused call has changed nothing.            *)
(***************************************************************************)
ImplementsProductStore == Store!StoreSpec
=============================================================================

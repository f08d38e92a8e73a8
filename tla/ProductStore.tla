---------------------------- MODULE ProductStore ----------------------------
(***************************************************************************)
(* What ports.ProductRepository promises of one product row, the way the   *)
(* in-memory store does it under its mutex: every call takes effect at     *)
(* once, or is refused because the row does not allow it and leaves it     *)
(* alone.  The rows of different products have nothing in common, so one   *)
(* row, as the callers of the services see it, is the whole store.         *)
(***************************************************************************)
EXTENDS Naturals

CONSTANTS
    Callers,     \* requests and jobs that use the row
    Contents,    \* everything in a row but its two times
    NoRow,
    MaxClock     \* bound: readings of the clock in a behaviour

VARIABLES
    row,         \* the row, or NoRow before the product is registered
    now,         \* the clock: every reading is later than the one before
    copy,        \* the row a caller has read and may change and save
    call,        \* the arguments of a caller's call
    reply        \* what has become of it

storeVars == <<row, now, copy, call, reply>>

(* at: updated_at; deleted: whether deleted_at is set. *)
Rows == [at : Nat, deleted : BOOLEAN, content : Contents]
Operations == {"save", "saveIf", "softDelete", "restore"}
Arguments == [op : Operations, since : Nat, new : Rows]

StoreTypeOK ==
    /\ row \in Rows \cup {NoRow}
    /\ now \in 0 .. MaxClock
    /\ copy \in [Callers -> Rows \cup {NoRow}]
    /\ call \in [Callers -> Arguments]
    /\ reply \in [Callers -> {"none", "pending", "ok", "error"}]

StoreInit ==
    /\ row \in {NoRow} \cup [at : {0}, deleted : {FALSE}, content : Contents]
    /\ now = 0
    /\ copy = [w \in Callers |-> NoRow]
    /\ call \in [Callers -> {[op |-> "save", since |-> 0,
                             new |-> [at |-> 0, deleted |-> FALSE, content |-> b]] : b \in Contents}]
    /\ reply = [w \in Callers |-> "none"]

(* ByID hides a deleted row. *)
ByID(w) ==
    /\ reply[w] # "pending"
    /\ row # NoRow
    /\ ~row.deleted
    /\ copy' = [copy EXCEPT ![w] = row]
    /\ UNCHANGED <<row, now, call, reply>>

(* A call reads the clock once.  Whoever saves has read the row, or        *)
(* registers it; the tick of the autopilot saves what it read under the    *)
(* time it read, everybody else under the new one.                         *)
Ask(w, request) ==
    /\ reply[w] # "pending"
    /\ call' = [call EXCEPT ![w] = request]
    /\ reply' = [reply EXCEPT ![w] = "pending"]
    /\ copy' = [copy EXCEPT ![w] = NoRow]
    /\ UNCHANGED row

Begin(w) ==
    /\ now < MaxClock
    /\ now' = now + 1
    /\ \E b \in Contents :
         LET new == [at |-> now + 1, deleted |-> FALSE, content |-> b]
         IN  \/ /\ copy[w] = NoRow
                /\ \/ row = NoRow /\ Ask(w, [op |-> "save", since |-> 0, new |-> new])
                   \/ \E op \in {"softDelete", "restore"} :
                        Ask(w, [op |-> op, since |-> 0, new |-> new])
             \/ /\ copy[w] # NoRow
                /\ \E op \in {"save", "saveIf"} :
                     Ask(w, [op |-> op, since |-> copy[w].at, new |-> new])

BeginUnstamped(w) ==
    /\ copy[w] # NoRow
    /\ \E b \in Contents :
         Ask(w, [op |-> "save", since |-> copy[w].at,
                 new |-> [at |-> copy[w].at, deleted |-> FALSE, content |-> b]])
    /\ UNCHANGED now

(***************************************************************************)
(* The effects.  allowed: whether the row lets the call take effect;       *)
(* effect: the row it leaves.                                              *)
(***************************************************************************)
Take(w, op, allowed, effect) ==
    /\ reply[w] = "pending"
    /\ call[w].op = op
    /\ \/ /\ allowed
          /\ row' = effect
          /\ reply' = [reply EXCEPT ![w] = "ok"]
       \/ /\ ~allowed
          /\ reply' = [reply EXCEPT ![w] = "error"]
          /\ UNCHANGED row
    /\ UNCHANGED <<now, copy, call>>

Save(w) == Take(w, "save", TRUE, call[w].new)

SoftDelete(w) ==
    Take(w, "softDelete", row # NoRow /\ ~row.deleted,
         [row EXCEPT !.deleted = TRUE, !.at = call[w].new.at])

Restore(w) ==
    Take(w, "restore", row # NoRow /\ row.deleted,
         [row EXCEPT !.deleted = FALSE, !.at = call[w].new.at])

SaveIfUnchangedSince(w) ==
    Take(w, "saveIf", row # NoRow /\ ~row.deleted /\ row.at = call[w].since,
         call[w].new)

StoreNext ==
    \E w \in Callers :
        \/ ByID(w) \/ Begin(w) \/ BeginUnstamped(w)
        \/ Save(w) \/ SoftDelete(w) \/ Restore(w) \/ SaveIfUnchangedSince(w)

StoreSpec == StoreInit /\ [][StoreNext]_storeVars
=============================================================================

--------------------------- MODULE ServicesProofs ---------------------------
(***************************************************************************)
(* Theorems about the components of the Services run, for every value of   *)
(* their constants, and of all of them together.                           *)
(***************************************************************************)
EXTENDS MCServices, GatewayProofs, FiniteSetTheorems, SequenceTheorems, TLAPS

(***************************************************************************)
(* ProductTable: the statements of SQLite implement the one-step calls of  *)
(* ProductStore.                                                           *)
(***************************************************************************)
Rows == Interface!Rows
Replies == {"none", "pending", "ok", "error"}

(* A call that is past its first statement is pending, and one that goes   *)
(* on to its UPDATE has read the time it was given.                        *)
TableInv ==
    /\ TableTypeOK
    /\ \A w \in Callers :
          /\ statement[w] # "first" => reply[w] = "pending"
          /\ statement[w] = "update" => call[w].op = "saveIf" /\ current[w] = call[w].since

-----------------------------------------------------------------------------
(* Types. *)

LEMMA RowType ==
    ASSUME NEW r \in Rows, NEW d \in BOOLEAN, NEW n \in Nat
    PROVE  [r EXCEPT !.deleted = d, !.at = n] \in Rows
  BY DEF Rows, Interface!Rows

LEMMA TableTypes ==
    ASSUME TableTypeOK
    PROVE  /\ row \in Rows \cup {NoRow}
           /\ now \in 0 .. MaxClock
           /\ copy \in [Callers -> Rows \cup {NoRow}]
           /\ call \in [Callers -> Interface!Arguments]
           /\ reply \in [Callers -> Replies]
           /\ statement \in [Callers -> Statements]
           /\ current \in [Callers -> Nat]
           /\ \A w \in Callers : call[w].new \in Rows /\ call[w].new.at \in Nat
                                   /\ call[w].since \in Nat
  BY DEF TableTypeOK, Interface!StoreTypeOK, Rows, Interface!Arguments, Interface!Rows, Replies

LEMMA TableTyped ==
    ASSUME /\ row \in Rows \cup {NoRow}
           /\ now \in 0 .. MaxClock
           /\ copy \in [Callers -> Rows \cup {NoRow}]
           /\ call \in [Callers -> Interface!Arguments]
           /\ reply \in [Callers -> Replies]
           /\ statement \in [Callers -> Statements]
           /\ current \in [Callers -> Nat]
    PROVE  TableTypeOK
  BY DEF TableTypeOK, Interface!StoreTypeOK, Rows, Replies

\* The row and the copy after a call begins or reads.
LEMMA AskKept ==
    ASSUME TableInv, NEW w \in Callers, NEW q \in Interface!Arguments,
           Interface!Ask(w, q), now' \in 0 .. MaxClock, UNCHANGED <<statement, current>>
    PROVE  TableInv'
<1>. TableTypeOK
  BY DEF TableInv
<1>1. /\ reply[w] # "pending"
      /\ call' = [call EXCEPT ![w] = q]
      /\ reply' = [reply EXCEPT ![w] = "pending"]
      /\ copy' = [copy EXCEPT ![w] = NoRow]
      /\ UNCHANGED row
  BY DEF Interface!Ask
<1>2. TableTypeOK'
  <2>1. /\ call' \in [Callers -> Interface!Arguments]
        /\ reply' \in [Callers -> Replies]
        /\ copy' \in [Callers -> Rows \cup {NoRow}]
    BY <1>1, TableTypes DEF Replies
  <2>. QED
    BY <1>1, <2>1, TableTypes DEF TableTypeOK, Interface!StoreTypeOK, Rows, Replies
<1>3. statement[w] = "first"
  BY <1>1 DEF TableInv
<1>4. ASSUME NEW v \in Callers
      PROVE  /\ statement'[v] # "first" => reply'[v] = "pending"
             /\ statement'[v] = "update" => call'[v].op = "saveIf" /\ current'[v] = call'[v].since
  <2>1. CASE v = w
    BY <1>3, <2>1
  <2>2. CASE v # w
    <3>1. call'[v] = call[v] /\ reply'[v] = reply[v]
      BY <1>1, <2>2, TableTypes
    <3>. QED
      BY <3>1 DEF TableInv
  <2>. QED
    BY <2>1, <2>2
<1>. QED
  BY <1>2, <1>4 DEF TableInv

LEMMA UsesKept == ASSUME TableInv, NEW w \in Callers, Uses(w) PROVE TableInv'
<1>. TableTypeOK
  BY DEF TableInv
<1>0. UNCHANGED <<statement, current>>
  BY DEF Uses
<1>1. CASE Interface!ByID(w)
  <2>1. copy' = [copy EXCEPT ![w] = row] /\ UNCHANGED <<row, now, call, reply>>
    BY <1>1 DEF Interface!ByID
  <2>2. copy' \in [Callers -> Rows \cup {NoRow}]
    BY <2>1, TableTypes
  <2>3. TableTypeOK'
    BY <1>0, <2>1, <2>2, TableTypes DEF TableTypeOK, Interface!StoreTypeOK, Rows, Replies
  <2>. QED
    BY <1>0, <2>1, <2>3 DEF TableInv
<1>2. CASE Interface!Begin(w)
  <2>1. now' \in 0 .. MaxClock /\ now' \in Nat
    BY <1>2, TableTypes, TableAssumption DEF Interface!Begin
  <2>2. \E q \in Interface!Arguments : Interface!Ask(w, q)
    <3>1. PICK b \in Contents :
            LET new == [at |-> now + 1, deleted |-> FALSE, content |-> b]
            IN  \/ /\ copy[w] = NoRow
                   /\ \/ row = NoRow /\ Interface!Ask(w, [op |-> "save", since |-> 0, new |-> new])
                      \/ \E op \in {"softDelete", "restore"} :
                           Interface!Ask(w, [op |-> op, since |-> 0, new |-> new])
                \/ /\ copy[w] # NoRow
                   /\ \E op \in {"save", "saveIf"} :
                        Interface!Ask(w, [op |-> op, since |-> copy[w].at, new |-> new])
      BY <1>2 DEF Interface!Begin
    <3>. DEFINE new == [at |-> now + 1, deleted |-> FALSE, content |-> b]
    <3>2. new \in Interface!Rows
      BY <1>2, <2>1, TableTypes DEF Interface!Rows, Interface!Begin
    <3>3. copy[w] # NoRow => copy[w].at \in Nat
      BY TableTypes DEF Rows, Interface!Rows
    <3>. HIDE DEF new
    <3>4. \A op \in Interface!Operations, n \in Nat :
             [op |-> op, since |-> n, new |-> new] \in Interface!Arguments
      BY <3>2 DEF Interface!Arguments
    <3>5. {"save", "saveIf", "softDelete", "restore"} \subseteq Interface!Operations
      BY DEF Interface!Operations
    <3>6. CASE copy[w] = NoRow
      <4>1. \E op \in {"save", "softDelete", "restore"} :
               Interface!Ask(w, [op |-> op, since |-> 0, new |-> new])
        BY <3>1, <3>6 DEF new
      <4>. QED
        BY <3>4, <3>5, <4>1
    <3>7. CASE copy[w] # NoRow
      <4>1. \E op \in {"save", "saveIf"} :
               Interface!Ask(w, [op |-> op, since |-> copy[w].at, new |-> new])
        BY <3>1, <3>7 DEF new
      <4>. QED
        BY <3>3, <3>4, <3>5, <3>7, <4>1
    <3>. QED
      BY <3>6, <3>7
  <2>. QED
    BY <1>0, <2>1, <2>2, AskKept
<1>3. CASE Interface!BeginUnstamped(w)
  <2>1. PICK b \in Contents :
          Interface!Ask(w, [op |-> "save", since |-> copy[w].at,
                            new |-> [at |-> copy[w].at, deleted |-> FALSE, content |-> b]])
    BY <1>3 DEF Interface!BeginUnstamped
  <2>2. copy[w].at \in Nat
    BY <1>3, TableTypes DEF Interface!BeginUnstamped, Rows, Interface!Rows
  <2>3. [op |-> "save", since |-> copy[w].at,
         new |-> [at |-> copy[w].at, deleted |-> FALSE, content |-> b]] \in Interface!Arguments
    BY <2>2 DEF Interface!Arguments, Interface!Operations, Interface!Rows
  <2>4. now' \in 0 .. MaxClock
    BY <1>3, TableTypes DEF Interface!BeginUnstamped
  <2>. QED
    BY <1>0, <2>1, <2>3, <2>4, AskKept
<1>. QED
  BY <1>1, <1>2, <1>3 DEF Uses

\* A statement leaves everything but the row and its own call's place alone.
LEMMA StatementKept ==
    ASSUME TableInv, NEW w \in Callers, NEW r \in Replies, NEW s \in Statements, NEW n \in Nat,
           row' \in Rows \cup {NoRow},
           reply' = [reply EXCEPT ![w] = r],
           statement' = [statement EXCEPT ![w] = s],
           current' = [current EXCEPT ![w] = n],
           UNCHANGED <<now, copy, call>>,
           s # "first" => r = "pending",
           s = "update" => call[w].op = "saveIf" /\ n = call[w].since
    PROVE  TableInv'
<1>. TableTypeOK
  BY DEF TableInv
<1>1. TableTypeOK'
  <2>1. /\ reply' \in [Callers -> Replies]
        /\ statement' \in [Callers -> Statements]
        /\ current' \in [Callers -> Nat]
    BY TableTypes
  <2>. QED
    BY <2>1, TableTypes DEF TableTypeOK, Interface!StoreTypeOK, Rows, Replies
<1>2. ASSUME NEW v \in Callers
      PROVE  /\ statement'[v] # "first" => reply'[v] = "pending"
             /\ statement'[v] = "update" => call'[v].op = "saveIf" /\ current'[v] = call'[v].since
  <2>1. CASE v = w
    <3>1. reply'[w] = r /\ statement'[w] = s /\ current'[w] = n /\ call' = call
      BY TableTypes
    <3>. QED
      BY <2>1, <3>1
  <2>2. CASE v # w
    <3>1. reply'[v] = reply[v] /\ statement'[v] = statement[v] /\ current'[v] = current[v]
          /\ call' = call
      BY <2>2, TableTypes
    <3>. QED
      BY <3>1 DEF TableInv
  <2>. QED
    BY <2>1, <2>2
<1>. QED
  BY <1>1, <1>2 DEF TableInv

LEMMA TableInvInit == TableInit => TableInv
<1>. SUFFICES ASSUME TableInit PROVE TableInv
  OBVIOUS
<1>1. row \in Rows \cup {NoRow}
  <2>1. ASSUME NEW r \in [at : {0}, deleted : {FALSE}, content : Contents] PROVE r \in Rows
    <3>1. r.at = 0 /\ r.deleted = FALSE /\ r.content \in Contents
      OBVIOUS
    <3>2. r = [at |-> r.at, deleted |-> r.deleted, content |-> r.content]
      OBVIOUS
    <3>3. r.at \in Nat
      BY <3>1
    <3>4. r.deleted \in BOOLEAN
      BY <3>1, Zenon
    <3>. QED
      BY <3>1, <3>2, <3>3, <3>4 DEF Rows, Interface!Rows
  <2>. QED
    BY <2>1 DEF TableInit, Interface!StoreInit
<1>2. call \in [Callers -> Interface!Arguments]
  <2>1. \A b \in Contents : [op |-> "save", since |-> 0,
                             new |-> [at |-> 0, deleted |-> FALSE, content |-> b]]
                              \in Interface!Arguments
    BY DEF Interface!Arguments, Interface!Operations, Interface!Rows
  <2>. QED
    BY <2>1 DEF TableInit, Interface!StoreInit
<1>3. now \in 0 .. MaxClock
  BY TableAssumption DEF TableInit, Interface!StoreInit
<1>4. /\ copy \in [Callers -> Rows \cup {NoRow}] /\ reply \in [Callers -> Replies]
      /\ statement \in [Callers -> Statements] /\ current \in [Callers -> Nat]
  BY DEF TableInit, Interface!StoreInit, Replies, Statements
<1>5. TableTypeOK
  BY <1>1, <1>2, <1>3, <1>4, TableTyped
<1>6. \A w \in Callers : statement[w] = "first"
  BY DEF TableInit
<1>. QED
  BY <1>5, <1>6 DEF TableInv

-----------------------------------------------------------------------------
(* One statement: what it may do, to the table and to its caller. *)

\* A statement is a stutter of the store, or one call that takes effect or is
\* refused.
Effect(w) ==
    \/ Store!Save(w) \/ Store!SoftDelete(w) \/ Store!Restore(w) \/ Store!SaveIfUnchangedSince(w)
    \/ UNCHANGED Store!storeVars

LEMMA AnswerSet ==
    ASSUME TableTypeOK, NEW w \in Callers, NEW r \in Replies, NEW s \in Statements,
           reply' = [reply EXCEPT ![w] = r],
           statement' = [statement EXCEPT ![w] = s]
    PROVE  /\ s = "classify" => Answer' = [Answer EXCEPT ![w] = "error"]
           /\ s # "classify" => Answer' = [Answer EXCEPT ![w] = r]
<1>1. reply \in [Callers -> Replies] /\ statement \in [Callers -> Statements]
  BY TableTypes
<1>. QED
  BY <1>1 DEF Answer

LEMMA ReturnsForms ==
    ASSUME TableTypeOK, NEW w \in Callers
    PROVE  /\ \A r \in Replies : Returns(w, r) => Answer' = [Answer EXCEPT ![w] = r]
           /\ LooksAgain(w) => Answer' = [Answer EXCEPT ![w] = "error"] /\ row' = row
           /\ \A op : IsAt(w, op, "first") \/ IsAt(w, op, "update") => Answer[w] = "pending"
<1>1. ASSUME NEW r \in Replies, Returns(w, r) PROVE Answer' = [Answer EXCEPT ![w] = r]
  BY <1>1, AnswerSet DEF Returns, Statements
<1>2. ASSUME LooksAgain(w) PROVE Answer' = [Answer EXCEPT ![w] = "error"] /\ row' = row
  <2>1. reply' = [reply EXCEPT ![w] = reply[w]]
    BY <1>2, TableTypes DEF LooksAgain
  <2>. QED
    BY <1>2, <2>1, TableTypes, AnswerSet DEF LooksAgain, Statements
<1>3. \A op : IsAt(w, op, "first") \/ IsAt(w, op, "update") => Answer[w] = "pending"
  BY DEF IsAt, Answer
<1>. QED
  BY <1>1, <1>2, <1>3

LEMMA StatementStep ==
    ASSUME TableInv, NEW w \in Callers,
           \/ UpsertRow(w) \/ UpdateDeleted(w) \/ UpdateRestored(w)
           \/ SelectUpdatedAt(w) \/ UpdateIfCurrent(w) \/ Classify(w)
    PROVE  Effect(w)
<1>. TableTypeOK
  BY DEF TableInv
<1>1. CASE UpsertRow(w)
  BY <1>1, ReturnsForms DEF UpsertRow, IsAt, Effect, Replies, Store!Save, Store!Take
<1>2. CASE UpdateDeleted(w)
  BY <1>2, ReturnsForms DEF UpdateDeleted, IsAt, Effect, Replies, Store!SoftDelete, Store!Take
<1>3. CASE UpdateRestored(w)
  BY <1>3, ReturnsForms DEF UpdateRestored, IsAt, Effect, Replies, Store!Restore, Store!Take
<1>4. CASE SelectUpdatedAt(w)
  <2>1. CASE Returns(w, "error") /\ (row # NoRow => row.deleted \/ row.at # call[w].since)
    BY <1>4, <2>1, ReturnsForms
    DEF SelectUpdatedAt, IsAt, Effect, Replies, Store!SaveIfUnchangedSince, Store!Take
  <2>2. CASE statement' = [statement EXCEPT ![w] = "update"] /\ UNCHANGED reply
    <3>1. reply' = [reply EXCEPT ![w] = reply[w]]
      BY <2>2, TableTypes
    <3>2. Answer[w] = reply[w]
      BY <1>4 DEF SelectUpdatedAt, IsAt, Answer
    <3>3. Answer' = [Answer EXCEPT ![w] = reply[w]]
      BY <2>2, <3>1, TableTypes, AnswerSet DEF Statements
    <3>4. Answer' = Answer
      BY <3>2, <3>3 DEF Answer
    <3>. QED
      BY <1>4, <3>4 DEF SelectUpdatedAt, Effect, Store!storeVars
  <2>. QED
    BY <1>4, <2>1, <2>2 DEF SelectUpdatedAt
<1>5. CASE UpdateIfCurrent(w)
  <2>1. current[w] = call[w].since
    BY <1>5 DEF UpdateIfCurrent, IsAt, TableInv
  <2>. QED
    BY <1>5, <2>1, ReturnsForms
    DEF UpdateIfCurrent, IsAt, Effect, Replies, Store!SaveIfUnchangedSince, Store!Take
<1>6. CASE Classify(w)
  <2>1. Answer' = [Answer EXCEPT ![w] = "error"] /\ Answer[w] = "error"
    BY <1>6, ReturnsForms DEF Classify, Answer, Replies
  <2>2. Answer' = Answer
    BY <2>1 DEF Answer
  <2>. QED
    BY <1>6, <2>2 DEF Classify, Effect, Store!storeVars
<1>. QED
  BY <1>1, <1>2, <1>3, <1>4, <1>5, <1>6

LEMMA StatementInv ==
    ASSUME TableInv, NEW w \in Callers,
           \/ UpsertRow(w) \/ UpdateDeleted(w) \/ UpdateRestored(w)
           \/ SelectUpdatedAt(w) \/ UpdateIfCurrent(w) \/ Classify(w)
    PROVE  TableInv'
<1>. TableTypeOK
  BY DEF TableInv
<1>0. UNCHANGED <<now, copy, call>>
  BY DEF UpsertRow, UpdateDeleted, UpdateRestored, SelectUpdatedAt, UpdateIfCurrent, Classify
<1>1. row' \in Rows \cup {NoRow}
  <2>1. \/ row' = row \/ row' = call[w].new
        \/ \E d \in BOOLEAN : row # NoRow /\ row' = [row EXCEPT !.deleted = d, !.at = call[w].new.at]
    BY DEF UpsertRow, UpdateDeleted, UpdateRestored, SelectUpdatedAt, UpdateIfCurrent, Classify,
           LooksAgain
  <2>2. call[w].new \in Rows /\ call[w].new.at \in Nat /\ row \in Rows \cup {NoRow}
    BY TableTypes
  <2>3. CASE \E d \in BOOLEAN : row # NoRow /\ row' = [row EXCEPT !.deleted = d, !.at = call[w].new.at]
    <3>1. PICK d \in BOOLEAN : row # NoRow /\ row' = [row EXCEPT !.deleted = d, !.at = call[w].new.at]
      BY <2>3
    <3>2. [row EXCEPT !.deleted = d, !.at = call[w].new.at] \in Rows
      BY <2>2, <3>1, RowType
    <3>. QED
      BY <3>1, <3>2
  <2>. QED
    BY <2>1, <2>2, <2>3
<1>2. reply[w] = "pending"
  BY DEF UpsertRow, UpdateDeleted, UpdateRestored, SelectUpdatedAt, UpdateIfCurrent, Classify, IsAt
<1>3. \E r \in Replies, s \in Statements, n \in Nat :
         /\ reply' = [reply EXCEPT ![w] = r]
         /\ statement' = [statement EXCEPT ![w] = s]
         /\ current' = [current EXCEPT ![w] = n]
         /\ s # "first" => r = "pending"
         /\ s = "update" => call[w].op = "saveIf" /\ n = call[w].since
  <2>. {"pending", "ok", "error"} \subseteq Replies /\ {"first", "update", "classify"} \subseteq Statements
    BY DEF Replies, Statements
  <2>0. /\ reply = [reply EXCEPT ![w] = reply[w]]
        /\ current = [current EXCEPT ![w] = current[w]] /\ current[w] \in Nat
    BY TableTypes
  <2>1. CASE current' = current /\ \E r \in {"ok", "error"} : Returns(w, r)
    <3>1. PICK r \in {"ok", "error"} : Returns(w, r)
      BY <2>1
    <3>2. /\ r \in Replies /\ "first" \in Statements
          /\ reply' = [reply EXCEPT ![w] = r]
          /\ statement' = [statement EXCEPT ![w] = "first"]
          /\ current' = [current EXCEPT ![w] = current[w]]
      BY <2>0, <2>1, <3>1 DEF Returns
    <3>. current[w] \in Nat /\ r \in Replies /\ "first" \in Statements
      BY <2>0, <3>2
    <3>3. WITNESS r \in Replies, "first" \in Statements, current[w] \in Nat
    <3>. QED
      BY <3>2
  <2>2. CASE current' = current /\ LooksAgain(w)
    BY <1>2, <2>0, <2>2, ZenonT(90) DEF LooksAgain
  <2>3. CASE SelectUpdatedAt(w) /\ ~(current' = current /\ Returns(w, "error"))
    <3>1. /\ call[w].op = "saveIf" /\ row.at = call[w].since
          /\ current' = [current EXCEPT ![w] = row.at]
          /\ statement' = [statement EXCEPT ![w] = "update"] /\ reply' = reply
      BY <2>3 DEF SelectUpdatedAt, IsAt
    <3>2. row.at \in Nat
      BY <3>1, TableTypes
    <3>. QED
      BY <1>2, <2>0, <3>1, <3>2
  <2>. QED
    BY <2>1, <2>2, <2>3
    DEF UpsertRow, UpdateDeleted, UpdateRestored, SelectUpdatedAt, UpdateIfCurrent, Classify
<1>. QED
  BY <1>0, <1>1, <1>3, StatementKept, ZenonT(90)

LEMMA TableStep == TableInv /\ [TableNext]_tableVars => TableInv'
<1>. SUFFICES ASSUME TableInv, [TableNext]_tableVars PROVE TableInv'
  OBVIOUS
<1>1. CASE UNCHANGED tableVars
  BY <1>1 DEF tableVars, TableInv, TableTypeOK, Interface!StoreTypeOK
<1>. QED
  BY <1>1, UsesKept, StatementInv DEF TableNext

\* Type correctness: no statement leaves a row, a copy or an answer out of range.
THEOREM TableTypeCorrect == TableSpec => []TableTypeOK
<1>1. TableInv => TableTypeOK
  BY DEF TableInv
<1>. QED
  BY <1>1, TableInvInit, TableStep, PTL DEF TableSpec

-----------------------------------------------------------------------------
(* The refinement. *)

\* Reading the row and asking for a call are the same in both.
LEMMA UsesStep ==
    ASSUME TableInv, NEW w \in Callers, Uses(w)
    PROVE  Store!ByID(w) \/ Store!Begin(w) \/ Store!BeginUnstamped(w)
<1>. TableTypeOK
  BY DEF TableInv
<1>1. reply[w] # "pending" /\ statement' = statement
  BY DEF Uses, Interface!ByID, Interface!Begin, Interface!BeginUnstamped, Interface!Ask
<1>2. statement[w] = "first" /\ Answer[w] # "pending"
  BY <1>1 DEF TableInv, Answer
<1>3. CASE Interface!ByID(w)
  <2>1. Answer' = Answer
    BY <1>1, <1>3 DEF Answer, Interface!ByID
  <2>. QED
    BY <1>2, <1>3, <2>1 DEF Interface!ByID, Store!ByID
<1>4. ASSUME NEW q, Interface!Ask(w, q) PROVE Store!Ask(w, q)
  <2>1. statement' = [statement EXCEPT ![w] = "first"]
    BY <1>1, <1>2, TableTypes
  <2>2. Answer' = [Answer EXCEPT ![w] = "pending"]
    BY <1>4, <2>1, AnswerSet DEF Interface!Ask, Replies, Statements
  <2>. QED
    BY <1>2, <1>4, <2>2 DEF Interface!Ask, Store!Ask
<1>5. CASE Interface!Begin(w)
  BY <1>4, <1>5 DEF Interface!Begin, Store!Begin
<1>6. CASE Interface!BeginUnstamped(w)
  BY <1>4, <1>6 DEF Interface!BeginUnstamped, Store!BeginUnstamped
<1>. QED
  BY <1>3, <1>5, <1>6 DEF Uses

\* The SQLite store is the in-memory store: a conditional save lands only on the
\* row it was checked against, whatever is served between its statements.
THEOREM TableImplementsStore == TableSpec => ImplementsProductStore
<1>1. TableInit => Store!StoreInit
  <2>. SUFFICES ASSUME TableInit PROVE Store!StoreInit
    OBVIOUS
  <2>1. Answer = [w \in Callers |-> "none"]
    BY DEF TableInit, Interface!StoreInit, Answer
  <2>. QED
    BY <2>1 DEF TableInit, Interface!StoreInit, Store!StoreInit
<1>2. TableInv /\ [TableNext]_tableVars => [Store!StoreNext]_(Store!storeVars)
  <2>. SUFFICES ASSUME TableInv, [TableNext]_tableVars
                PROVE  [Store!StoreNext]_(Store!storeVars)
    OBVIOUS
  <2>1. CASE UNCHANGED tableVars
    BY <2>1 DEF tableVars, Store!storeVars, Answer
  <2>2. ASSUME NEW w \in Callers, Uses(w) PROVE Store!StoreNext
    BY <2>2, UsesStep DEF Store!StoreNext
  <2>3. ASSUME NEW w \in Callers,
               \/ UpsertRow(w) \/ UpdateDeleted(w) \/ UpdateRestored(w)
               \/ SelectUpdatedAt(w) \/ UpdateIfCurrent(w) \/ Classify(w)
        PROVE  [Store!StoreNext]_(Store!storeVars)
    BY <2>3, StatementStep DEF Effect, Store!StoreNext
  <2>. QED
    BY <2>1, <2>2, <2>3 DEF TableNext
<1>. QED
  BY <1>1, <1>2, TableInvInit, TableStep, PTL DEF TableSpec, ImplementsProductStore, Store!StoreSpec

(***************************************************************************)
(* Ports.                                                                  *)
(***************************************************************************)
Alloc == [step : {"idle", "insert", "answer", "release"},
          used : SUBSET PortNumbers, port : 1 .. (MaxPort + 1)]

(* What a request knows: between its INSERT and its answer the row is its  *)
(* own, and the port it is giving back is not in its hand any more.        *)
Knows(t, a, tab, hel, tak) ==
    /\ a.step = "answer" => a.port \in PortNumbers /\ (tab[a.port] = t \/ a.port \in tak)
    /\ a.step = "release" => a.port \in PortNumbers \ hel[t]

PortsInv ==
    /\ PortsTypeOK
    /\ PortsExclusive
    /\ \A t \in Tenants : Knows(t, alloc[t], table, held, taken)

LEMMA AllocType == PortsTypeOK => alloc \in [Tenants -> Alloc]
  BY DEF PortsTypeOK, Alloc

LEMMA RestingType ==
    /\ Resting \in Alloc
    /\ Resting.step = "idle"
    /\ \A p \in PortNumbers : [Resting EXCEPT !.step = "release", !.port = p] \in Alloc
<1>1. 1 \in 1 .. (MaxPort + 1) /\ \A p \in PortNumbers : p \in 1 .. (MaxPort + 1)
  BY PortsAssumption DEF PortNumbers
<1>2. {} \in SUBSET PortNumbers
  OBVIOUS
<1>3. Resting \in Alloc /\ Resting.step = "idle"
  BY <1>1, <1>2 DEF Resting, Alloc
<1>4. ASSUME NEW p \in PortNumbers
      PROVE  [Resting EXCEPT !.step = "release", !.port = p] \in Alloc
  BY <1>1, <1>2 DEF Resting, Alloc
<1>. QED
  BY <1>3, <1>4

\* A request that moves on by itself.
LEMMA MovesOn ==
    ASSUME PortsInv, NEW t \in Tenants, NEW q \in Alloc,
           alloc' = [alloc EXCEPT ![t] = q],
           Knows(t, q, table, held, taken),
           UNCHANGED <<table, held, taken>>, runs' \in 0 .. MaxRuns
    PROVE  PortsInv'
<1>1. alloc \in [Tenants -> Alloc]
  BY AllocType DEF PortsInv
<1>2. PortsTypeOK'
  BY <1>1 DEF PortsInv, PortsTypeOK, Alloc
<1>3. PortsExclusive'
  BY DEF PortsInv, PortsExclusive
<1>4. \A u \in Tenants : Knows(u, alloc'[u], table, held, taken)
  BY <1>1 DEF PortsInv
<1>5. \A u \in Tenants : Knows(u, alloc[u], table, held, taken)'
  BY <1>4 DEF Knows
<1>. QED
  BY <1>2, <1>3, <1>5 DEF PortsInv

LEMMA PortsInvInit == PortsInit => PortsInv
<1>. SUFFICES ASSUME PortsInit PROVE PortsInv
  OBVIOUS
<1>1. alloc \in [Tenants -> Alloc]
  BY RestingType DEF PortsInit
<1>2. runs \in 0 .. MaxRuns
  BY PortsAssumption DEF PortsInit
<1>3. PortsTypeOK
  BY <1>1, <1>2 DEF PortsInit, PortsTypeOK, Alloc
<1>4. PortsExclusive
  BY DEF PortsInit, PortsExclusive
<1>5. \A t \in Tenants : Knows(t, alloc[t], table, held, taken)
  BY RestingType DEF PortsInit, Knows
<1>. QED
  BY <1>3, <1>4, <1>5 DEF PortsInv

LEMMA AgainType == ASSUME runs \in 0 .. MaxRuns, Again PROVE runs' \in 0 .. MaxRuns
  BY PortsAssumption DEF Again

LEMMA InsertKept == ASSUME PortsInv, NEW t \in Tenants, InsertPort(t) PROVE PortsInv'
<1>. DEFINE p == alloc[t].port
<1>0. alloc \in [Tenants -> Alloc] /\ table \in [PortNumbers -> Tenants \cup {Nobody}]
  BY AllocType DEF PortsInv, PortsTypeOK
<1>1. alloc[t] \in Alloc /\ alloc[t].step = "insert" /\ p \in PortNumbers
      /\ UNCHANGED <<held, taken, runs>>
  BY <1>0 DEF InsertPort
<1>2. CASE /\ table[p] = Nobody
           /\ table' = [table EXCEPT ![p] = t]
           /\ alloc' = [alloc EXCEPT ![t].step = "answer"]
  <2>. DEFINE q == [alloc[t] EXCEPT !.step = "answer"]
  <2>1. q \in Alloc /\ q.step = "answer" /\ q.port = p
    BY <1>1 DEF Alloc
  <2>2. alloc' = [alloc EXCEPT ![t] = q]
    BY <1>2
  <2>. HIDE DEF q
  <2>3. PortsTypeOK'
    <3>1. alloc' \in [Tenants -> Alloc]
      BY <1>0, <2>1, <2>2
    <3>2. table' \in [PortNumbers -> Tenants \cup {Nobody}]
      BY <1>0, <1>2
    <3>. QED
      BY <1>1, <3>1, <3>2 DEF PortsInv, PortsTypeOK, Alloc
  <2>4. PortsExclusive'
    <3>1. \A u \in Tenants : p \in held[u] => p \in taken
      BY <1>1, <1>2, PortsAssumption DEF PortsInv, PortsExclusive
    <3>. QED
      BY <1>0, <1>1, <1>2, <3>1 DEF PortsInv, PortsExclusive
  <2>5. ASSUME NEW u \in Tenants PROVE Knows(u, alloc[u], table, held, taken)'
    <3>1. CASE u = t
      BY <1>0, <1>1, <1>2, <2>1, <2>2, <3>1 DEF Knows
    <3>2. CASE u # t
      <4>1. alloc'[u] = alloc[u] /\ Knows(u, alloc[u], table, held, taken)
        BY <1>0, <2>2, <3>2 DEF PortsInv
      <4>2. alloc[u].step = "answer" => alloc[u].port \in PortNumbers
                /\ (table'[alloc[u].port] = u \/ alloc[u].port \in taken)
        BY <1>0, <1>2, <4>1, PortsAssumption DEF Knows
      <4>. QED
        BY <1>1, <4>1, <4>2 DEF Knows
    <3>. QED
      BY <3>1, <3>2
  <2>. QED
    BY <2>3, <2>4, <2>5 DEF PortsInv
<1>3. CASE /\ alloc' = [alloc EXCEPT ![t].port = p + 1]
           /\ UNCHANGED table
  <2>. DEFINE q == [alloc[t] EXCEPT !.port = p + 1]
  <2>1. q \in Alloc /\ q.step = "insert"
    BY <1>1, PortsAssumption DEF Alloc, PortNumbers
  <2>2. alloc' = [alloc EXCEPT ![t] = q]
    BY <1>3
  <2>3. Knows(t, q, table, held, taken)
    BY <2>1 DEF Knows
  <2>4. runs' \in 0 .. MaxRuns
    BY <1>1 DEF PortsInv, PortsTypeOK
  <2>. HIDE DEF q
  <2>. QED
    BY <1>1, <1>3, <2>1, <2>2, <2>3, <2>4, MovesOn
<1>. QED
  BY <1>2, <1>3 DEF InsertPort

LEMMA AnsweredKept == ASSUME PortsInv, NEW t \in Tenants, Answered201(t) PROVE PortsInv'
<1>. DEFINE p == alloc[t].port
<1>0. /\ alloc \in [Tenants -> Alloc] /\ held \in [Tenants -> SUBSET PortNumbers]
      /\ alloc' = [alloc EXCEPT ![t] = Resting] /\ UNCHANGED <<table, taken, runs>>
  BY AllocType DEF PortsInv, PortsTypeOK, Answered201
<1>1. p \in PortNumbers /\ (table[p] = t \/ p \in taken)
  BY DEF Answered201, PortsInv, Knows
<1>2. CASE held' = [held EXCEPT ![t] = @ \cup {p}]
  <2>1. PortsTypeOK'
    <3>1. alloc' \in [Tenants -> Alloc] /\ held' \in [Tenants -> SUBSET PortNumbers]
      BY <1>0, <1>1, <1>2, RestingType
    <3>. QED
      BY <1>0, <3>1 DEF PortsInv, PortsTypeOK, Alloc
  <2>2. PortsExclusive'
    BY <1>0, <1>1, <1>2 DEF PortsInv, PortsExclusive
  <2>3. ASSUME NEW u \in Tenants PROVE Knows(u, alloc[u], table, held, taken)'
    <3>1. CASE u = t
      BY <1>0, <3>1, RestingType DEF Knows
    <3>2. CASE u # t
      <4>1. alloc'[u] = alloc[u] /\ held'[u] = held[u] /\ Knows(u, alloc[u], table, held, taken)
        BY <1>0, <1>2, <3>2 DEF PortsInv
      <4>. QED
        BY <1>0, <4>1 DEF Knows
    <3>. QED
      BY <3>1, <3>2
  <2>. QED
    BY <2>1, <2>2, <2>3 DEF PortsInv
<1>3. CASE UNCHANGED held
  <2>1. Knows(t, Resting, table, held, taken)
    BY RestingType DEF Knows
  <2>2. runs' \in 0 .. MaxRuns
    BY <1>0 DEF PortsInv, PortsTypeOK
  <2>. QED
    BY <1>0, <1>3, <2>1, <2>2, RestingType, MovesOn
<1>. QED
  BY <1>2, <1>3 DEF Answered201

LEMMA ReleaseHeldKept == ASSUME PortsInv, NEW t \in Tenants, ReleaseHeld(t) PROVE PortsInv'
<1>0. /\ alloc \in [Tenants -> Alloc] /\ held \in [Tenants -> SUBSET PortNumbers]
      /\ UNCHANGED <<table, taken>> /\ runs' \in 0 .. MaxRuns
  BY AllocType, AgainType DEF PortsInv, PortsTypeOK, ReleaseHeld
<1>1. PICK p \in held[t] :
        /\ held' = [held EXCEPT ![t] = @ \ {p}]
        /\ alloc' = [alloc EXCEPT ![t] = [Resting EXCEPT !.step = "release", !.port = p]]
  BY DEF ReleaseHeld
<1>. DEFINE q == [Resting EXCEPT !.step = "release", !.port = p]
<1>2. q \in Alloc /\ q.step = "release" /\ q.port = p /\ p \in PortNumbers
  BY <1>0, RestingType DEF Resting
<1>. HIDE DEF q
<1>3. alloc' = [alloc EXCEPT ![t] = q]
  BY <1>1 DEF q
<1>4. PortsTypeOK'
  <2>1. alloc' \in [Tenants -> Alloc] /\ held' \in [Tenants -> SUBSET PortNumbers]
    BY <1>0, <1>1, <1>2, <1>3
  <2>. QED
    BY <1>0, <2>1 DEF PortsInv, PortsTypeOK, Alloc
<1>5. PortsExclusive'
  BY <1>0, <1>1 DEF PortsInv, PortsExclusive
<1>6. ASSUME NEW u \in Tenants PROVE Knows(u, alloc[u], table, held, taken)'
  <2>1. CASE u = t
    BY <1>0, <1>1, <1>2, <1>3, <2>1 DEF Knows
  <2>2. CASE u # t
    <3>1. alloc'[u] = alloc[u] /\ held'[u] = held[u] /\ Knows(u, alloc[u], table, held, taken)
      BY <1>0, <1>1, <1>3, <2>2 DEF PortsInv
    <3>. QED
      BY <1>0, <3>1 DEF Knows
  <2>. QED
    BY <2>1, <2>2
<1>. QED
  BY <1>4, <1>5, <1>6 DEF PortsInv

LEMMA ReleaseKept == ASSUME PortsInv, NEW t \in Tenants, ReleasePort(t) PROVE PortsInv'
<1>. DEFINE p == alloc[t].port
<1>0. /\ alloc \in [Tenants -> Alloc] /\ table \in [PortNumbers -> Tenants \cup {Nobody}]
      /\ UNCHANGED held /\ runs' \in 0 .. MaxRuns
  BY AllocType, AgainType DEF PortsInv, PortsTypeOK, ReleasePort
<1>1. p \in PortNumbers \ held[t] /\ alloc[t].step = "release"
  BY DEF ReleasePort, PortsInv, Knows
<1>2. /\ table' = [table EXCEPT ![p] = Nobody]
      /\ taken' = IF table[p] \in {t, Nobody} THEN taken ELSE taken \cup {p}
      /\ alloc' = [alloc EXCEPT ![t] = Resting] \/ alloc' = alloc
  BY DEF ReleasePort
<1>3. PortsTypeOK'
  <2>1. alloc' \in [Tenants -> Alloc] /\ table' \in [PortNumbers -> Tenants \cup {Nobody}]
    BY <1>0, <1>2, RestingType
  <2>2. taken' \subseteq PortNumbers
    BY <1>1, <1>2 DEF PortsInv, PortsTypeOK
  <2>. QED
    BY <1>0, <2>1, <2>2 DEF PortsInv, PortsTypeOK, Alloc
<1>4. PortsExclusive'
  <2>1. ASSUME NEW u \in Tenants, p \in held[u] PROVE p \in taken'
    <3>1. CASE p \in taken
      BY <1>2, <3>1
    <3>2. CASE p \notin taken
      <4>1. table[p] = u
        BY <1>1, <2>1, <3>2 DEF PortsInv, PortsExclusive
      <4>2. u # t /\ u # Nobody
        BY <1>1, <2>1, PortsAssumption
      <4>. QED
        BY <1>2, <4>1, <4>2
    <3>. QED
      BY <3>1, <3>2
  <2>. QED
    BY <1>0, <1>2, <2>1 DEF PortsInv, PortsExclusive
<1>5. ASSUME NEW u \in Tenants PROVE Knows(u, alloc[u], table, held, taken)'
  <2>0. Knows(u, alloc[u], table, held, taken)
    BY DEF PortsInv
  <2>1. CASE u = t
    <3>1. alloc'[u].step # "answer"
      BY <1>0, <1>1, <1>2, <2>1, RestingType
    <3>2. alloc'[u].step = "release" => alloc'[u] = alloc[u]
      BY <1>0, <1>2, <2>1, RestingType
    <3>. QED
      BY <1>0, <2>0, <3>1, <3>2 DEF Knows
  <2>2. CASE u # t
    <3>1. alloc'[u] = alloc[u]
      BY <1>0, <1>2, <2>2
    <3>2. alloc[u].step = "answer" => alloc[u].port \in PortNumbers
              /\ (table'[alloc[u].port] = u \/ alloc[u].port \in taken')
      BY <1>0, <1>2, <2>0, <2>2, PortsAssumption DEF Knows
    <3>. QED
      BY <1>0, <2>0, <3>1, <3>2 DEF Knows
  <2>. QED
    BY <2>1, <2>2
<1>. QED
  BY <1>3, <1>4, <1>5 DEF PortsInv

LEMMA PortsStep == PortsInv /\ [PortsNext]_portVars => PortsInv'
<1>. SUFFICES ASSUME PortsInv, [PortsNext]_portVars PROVE PortsInv'
  OBVIOUS
<1>0. alloc \in [Tenants -> Alloc] /\ runs \in 0 .. MaxRuns
  BY AllocType DEF PortsInv, PortsTypeOK
<1>1. ASSUME NEW t \in Tenants, Allocate(t) PROVE PortsInv'
  <2>. DEFINE q == [step |-> "insert", port |-> 1, used |-> {p \in PortNumbers : table[p] # Nobody}]
  <2>1. q \in Alloc /\ q.step = "insert"
    BY PortsAssumption DEF Alloc
  <2>2. Knows(t, q, table, held, taken)
    BY <2>1 DEF Knows
  <2>3. alloc' = [alloc EXCEPT ![t] = q]
    BY <1>1 DEF Allocate
  <2>. HIDE DEF q
  <2>. QED
    BY <1>0, <1>1, <2>1, <2>2, <2>3, AgainType, MovesOn DEF Allocate
<1>2. ASSUME NEW t \in Tenants, SkipUsed(t) PROVE PortsInv'
  <2>. DEFINE q == [alloc[t] EXCEPT !.port = @ + 1]
  <2>1. q \in Alloc /\ q.step = "insert"
    <3>1. alloc[t] \in Alloc /\ alloc[t].port \in PortNumbers
      BY <1>0, <1>2 DEF SkipUsed, Alloc
    <3>. QED
      BY <1>2, <3>1, PortsAssumption DEF SkipUsed, Alloc, PortNumbers
  <2>2. Knows(t, q, table, held, taken)
    BY <2>1 DEF Knows
  <2>3. alloc' = [alloc EXCEPT ![t] = q]
    BY <1>2 DEF SkipUsed
  <2>. HIDE DEF q
  <2>. QED
    BY <1>0, <1>2, <2>1, <2>2, <2>3, MovesOn DEF SkipUsed
<1>3. ASSUME NEW t \in Tenants, Exhausted(t) PROVE PortsInv'
  <2>1. Knows(t, Resting, table, held, taken)
    BY RestingType DEF Knows
  <2>. QED
    BY <1>0, <1>3, <2>1, RestingType, MovesOn DEF Exhausted
<1>4. CASE UNCHANGED portVars
  <2>1. PortsTypeOK' /\ PortsExclusive'
    BY <1>4 DEF portVars, PortsInv, PortsTypeOK, PortsExclusive
  <2>2. \A u \in Tenants : Knows(u, alloc[u], table, held, taken)'
    BY <1>4 DEF portVars, PortsInv, Knows
  <2>. QED
    BY <2>1, <2>2 DEF PortsInv
<1>. QED
  BY <1>1, <1>2, <1>3, <1>4, InsertKept, AnsweredKept, ReleaseHeldKept, ReleaseKept DEF PortsNext

\* Type correctness: no request ever looks for a port beyond the last.
THEOREM PortsTypeCorrect == PortsSpec => []PortsTypeOK
<1>1. PortsInv => PortsTypeOK
  BY DEF PortsInv
<1>. QED
  BY <1>1, PortsInvInit, PortsStep, PTL DEF PortsSpec

\* No port is in two hands, however many requests allocate, give back and ask
\* again at once, unless a release has deleted the row of somebody else.
THEOREM PortsAreExclusive == PortsSpec => []PortsExclusive
<1>1. PortsInv => PortsExclusive
  BY DEF PortsInv
<1>. QED
  BY <1>1, PortsInvInit, PortsStep, PTL DEF PortsSpec

(***************************************************************************)
(* Autopilot.                                                              *)
(***************************************************************************)
(***************************************************************************)
(* Updated_at as an identity.  A request that will save the product under  *)
(* a time of its own has that time to itself, so that copies of the        *)
(* product with one time are copies of one row.                            *)
(***************************************************************************)
Pend == {"drafts", "swipeIdea", "swipePool", "swipeProduct", "promoteIdea", "promotePool",
         "promoteHistory", "promoteProduct", "patch"}

HasRead(s) == s.at \in WithProduct
Stamps(s) == s.at \in Pend
SameRow(a, b) == a.deleted = b.deleted /\ a.stage = b.stage /\ a.meta = b.meta
Copies(a, b) == a.at = b.at => SameRow(a, b)

StampsFresh ==
    /\ product.at <= clock
    /\ \A q \in Requests : HasRead(req[q]) => req[q].row.at <= clock
    /\ \A q \in Requests : Stamps(req[q]) => /\ req[q].stamp <= clock
                                             /\ req[q].stamp # product.at
    /\ \A q, r \in Requests : Stamps(req[q]) /\ HasRead(req[r]) => req[q].stamp # req[r].row.at
    /\ \A q, r \in Requests :
         Stamps(req[q]) /\ Stamps(req[r]) /\ req[q].stamp = req[r].stamp => q = r

RowsIdentified ==
    /\ \A q \in Requests : HasRead(req[q]) => Copies(req[q].row, product)
    /\ \A q, r \in Requests : HasRead(req[q]) /\ HasRead(req[r]) => Copies(req[q].row, req[r].row)

StampInv == StampsFresh /\ RowsIdentified

(***************************************************************************)
(* The ledgers of an idea: its decision, the maybe pool, its swipes and    *)
(* tasks.  At most one request is between its writes to them, and what     *)
(* every request at the idea has read is still so.                         *)
(***************************************************************************)
Half == {"swipePool", "swipeProduct", "swipeHistory", "promotePool", "promoteHistory"}

AtIt(s, i) == s.at \in AtIdea /\ s.i = i

Settled(i) ==
    LET d == idea[i].decision
    IN  /\ i \in pool <=> d = "maybe"
        /\ \/ d \notin Decisions /\ ~idea[i].manual /\ swipes[i] = <<>>
           \/ d \in Decisions /\ ~idea[i].manual /\ swipes[i] = <<d>>
           \/ d = "yes" /\ ~idea[i].manual /\ swipes[i] = <<"maybe", "yes">>
           \/ d = "yes" /\ idea[i].manual /\ swipes[i] = <<>>

(* What has been written by a request that has not written all.            *)
Halfway(s, i) ==
    /\ s.decision \in Decisions /\ idea[i].decision = s.decision /\ ~idea[i].manual
    /\ s.at \in {"swipePool", "swipeProduct", "swipeHistory"} => swipes[i] = <<>>
    /\ s.at = "swipePool" => i \notin pool
    /\ s.at \in {"swipeProduct", "swipeHistory"} => (i \in pool <=> s.decision = "maybe")
    /\ s.at \in {"promotePool", "promoteHistory"} =>
         s.decision = "yes" /\ swipes[i] = <<"maybe">>
    /\ s.at = "promoteHistory" => i \notin pool

Current(s, i) ==
    /\ s.at \in {"swipe", "swipeIdea"} => s.idea = idea[i] /\ s.idea.decision = "none"
    /\ s.at \in {"promote", "promoteIdea"} =>
         s.idea = idea[i] /\ s.idea.decision = "maybe" /\ s.decision = "yes"
    /\ s.at \in {"create", "task", "link"} => s.idea = idea[i] /\ s.idea.decision = "yes"
    /\ s.at = "patchIdea" => s.idea = idea[i]
    /\ s.at = "link" => s.n # 0 /\ tasks[s.n] = i
    /\ s.at \in Half => Halfway(s, i)

TasksOf(i) ==
    /\ idea[i].task # 0 => tasks[idea[i].task] = i
    /\ \A n \in Ids : tasks[n] = i =>
         idea[i].task # 0 \/ \E q \in Requests : req[q].at = "link" /\ req[q].i = i

LedgerOf(i) ==
    /\ \A q \in Requests : AtIt(req[q], i) => Current(req[q], i)
    /\ \A q, r \in Requests : /\ req[q].at \in Half /\ req[q].i = i
                              /\ req[r].at \in Half /\ req[r].i = i
                              => q = r
    /\ (\A q \in Requests : req[q].at \in Half => req[q].i # i) => Settled(i)
    /\ TasksOf(i)

LedgerInv == \A i \in Ids \ crossed : LedgerOf(i)

LEMMA PlaceNames ==
    /\ \A p \in {"idle", "restamp", "spec", "next", "research", "ideate", "drafts", "stamp",
                 "patch", "swipe", "swipeIdea", "swipePool", "swipeProduct", "swipeHistory"} :
         p \in Places
    /\ \A p \in {"promote", "promoteIdea", "promotePool", "promoteHistory", "promoteProduct",
                 "create", "task", "link", "manual", "patchIdea"} : p \in Places
<1>1. \A p \in AtIdea \cup WithProduct : p \in Places
  BY DEF Places
<1>2. \A p \in {"swipePool", "swipeProduct", "swipeHistory", "promotePool", "promoteHistory",
                "promoteProduct", "link", "swipe", "swipeIdea", "promote", "promoteIdea",
                "create", "task", "manual", "patchIdea"} : p \in AtIdea
  BY DEF AtIdea, HalfDone
<1>3. \A p \in {"research", "ideate", "drafts", "stamp", "patch"} : p \in WithProduct
  BY DEF WithProduct
<1>4. \A p \in {"idle", "restamp", "spec", "next"} : p \in Places
  BY DEF Places
<1> QED
  BY <1>1, <1>2, <1>3, <1>4

LEMMA IdsAre == Ids \subseteq Nat /\ 1 \in Ids /\ 0 \notin Ids /\ MaxId \in Nat
  BY AutopilotAssumption DEF Ids

LEMMA RowsTyped ==
    /\ \A t \in Nat : Registered(t) \in ProductRow /\ Registered(t).at = t
    /\ Absent \in IdeaRow /\ Pending \in IdeaRow /\ Absent.decision = "absent"
    /\ Absent.manual = FALSE /\ Absent.task = 0
    /\ Pending.decision = "none" /\ Pending.manual = FALSE /\ Pending.task = 0
<1>1. \A t \in Nat : Registered(t) \in ProductRow /\ Registered(t).at = t
  BY DEF Registered, ProductRow, Stages
<1>2. Absent \in IdeaRow /\ Absent.decision = "absent" /\ Absent.manual = FALSE /\ Absent.task = 0
  BY DEF Absent, IdeaRow
<1>3. /\ Pending \in IdeaRow /\ Pending.decision = "none" /\ Pending.manual = FALSE
      /\ Pending.task = 0
  BY <1>2 DEF Pending, IdeaRow
<1> QED
  BY <1>1, <1>2, <1>3

LEMMA IdleIs ==
    /\ Idle \in Request /\ Idle.at = "idle" /\ Idle.home \in Processes /\ Idle.n = 0
    /\ Idle.drafts = 0 /\ Idle.stamp = 0 /\ Idle.i = 1
    /\ ~HasRead(Idle) /\ ~Stamps(Idle) /\ Idle.at \notin AtIdea /\ Idle.at \notin Half
<1>1. Idle \in Request
  BY PlaceNames, IdsAre, RowsTyped DEF Idle, Request, Processes, Decisions
<1> QED
  BY <1>1 DEF Idle, Request, HasRead, Stamps, WithProduct, Pend, AtIdea, HalfDone, Half, Processes

(***************************************************************************)
(* What a step does to the request that takes it.                          *)
(***************************************************************************)
Only(q) == \A r \in Requests : r # q => req'[r] = req[r]

LEMMA Becomes ==
    ASSUME AutopilotTypeOK, NEW q \in Requests, NEW u \in Request,
           req' = [req EXCEPT ![q] = u]
    PROVE  req' \in [Requests -> Request] /\ req'[q] = u /\ Only(q)
  BY DEF AutopilotTypeOK, Only

LEMMA Finishes ==
    ASSUME AutopilotTypeOK, NEW q \in Requests, Finish(q)
    PROVE  req' \in [Requests -> Request] /\ req'[q] = Idle /\ Only(q)
  BY Becomes, IdleIs DEF Finish

LEMMA Goes ==
    ASSUME AutopilotTypeOK, NEW q \in Requests, NEW place \in Places,
           req' = [req EXCEPT ![q].at = place]
    PROVE  /\ req' \in [Requests -> Request] /\ Only(q)
           /\ req'[q].at = place /\ req'[q].home = req[q].home /\ req'[q].i = req[q].i
           /\ req'[q].n = req[q].n /\ req'[q].decision = req[q].decision
           /\ req'[q].stamp = req[q].stamp /\ req'[q].row = req[q].row
           /\ req'[q].idea = req[q].idea
<1>1. /\ req'[q] \in Request
      /\ req'[q].at = place /\ req'[q].home = req[q].home /\ req'[q].i = req[q].i
      /\ req'[q].n = req[q].n /\ req'[q].decision = req[q].decision
      /\ req'[q].stamp = req[q].stamp /\ req'[q].row = req[q].row
      /\ req'[q].idea = req[q].idea
  BY DEF AutopilotTypeOK, Request
<1>2. req' \in [Requests -> Request] /\ Only(q)
  BY <1>1 DEF AutopilotTypeOK, Only
<1> QED
  BY <1>1, <1>2

LEMMA EventsCount ==
    ASSUME AutopilotTypeOK, Event \/ Upset
    PROVE  events' \in [requests : 0 .. MaxEvents, upsets : 0 .. MaxUpsets]
<1>1. /\ events \in [requests : 0 .. MaxEvents, upsets : 0 .. MaxUpsets]
      /\ MaxEvents \in Nat /\ MaxUpsets \in Nat
  BY AutopilotAssumption DEF AutopilotTypeOK
<1>2. CASE Event
  <2>1. events.requests + 1 \in 0 .. MaxEvents
    BY <1>1, <1>2 DEF Event
  <2> QED
    BY <1>1, <1>2, <2>1 DEF Event
<1>3. CASE Upset
  <2>1. events.upsets + 1 \in 0 .. MaxUpsets
    BY <1>1, <1>3 DEF Upset
  <2> QED
    BY <1>1, <1>3, <2>1 DEF Upset
<1> QED
  BY <1>2, <1>3

LEMMA Starts ==
    ASSUME AutopilotTypeOK, NEW q \in Requests, NEW u \in Request, Start(q, u)
    PROVE  /\ req' \in [Requests -> Request] /\ req'[q] = u /\ Only(q)
           /\ req[q].at = "idle"
           /\ events' \in [requests : 0 .. MaxEvents, upsets : 0 .. MaxUpsets]
  BY Becomes, EventsCount DEF Start

(***************************************************************************)
(* Copies of the product.                                                  *)
(***************************************************************************)
LEMMA StampStep ==
    ASSUME AutopilotTypeOK, AutopilotTypeOK', StampInv, NEW q, clock <= clock',
           \A r \in Requests : HasRead(req'[r]) =>
             \/ req'[r].row = product
             \/ HasRead(req[r]) /\ req'[r].row = req[r].row,
           \A r \in Requests : Stamps(req'[r]) =>
             \/ Stamps(req[r]) /\ req'[r].stamp = req[r].stamp
             \/ r = q /\ product' = product /\ clock' = clock + 1 /\ req'[r].stamp = clock',
           \/ product' = product
           \/ \E r \in Requests : /\ HasRead(req[r]) /\ product'.at = req[r].row.at
                                  /\ SameRow(product', req[r].row)
           \/ \E r \in Requests : Stamps(req[r]) /\ ~Stamps(req'[r]) /\ product'.at = req[r].stamp
           \/ product'.at = clock' /\ clock' = clock + 1
    PROVE  StampInv'
<1> DEFINE New(r) == r = q /\ product' = product /\ clock' = clock + 1 /\ req'[r].stamp = clock'
           Old(r) == Stamps(req[r]) /\ req'[r].stamp = req[r].stamp
<1>1. StampsFresh /\ RowsIdentified
  BY DEF StampInv
<1>2. /\ clock \in Nat /\ clock' \in Nat /\ product.at \in Nat /\ product'.at \in Nat
      /\ \A r \in Requests : /\ req[r].stamp \in Nat /\ req[r].row.at \in Nat
                             /\ req'[r].stamp \in Nat /\ req'[r].row.at \in Nat
  BY DEF AutopilotTypeOK, Request, ProductRow
<1>3. \A r \in Requests : Stamps(req'[r]) => Old(r) \/ New(r)
  OBVIOUS
<1>4. \A r, t \in Requests : New(r) /\ New(t) => r = t
  OBVIOUS
<1>5. \A r \in Requests : Old(r) =>
         /\ req'[r].stamp <= clock /\ req'[r].stamp # product.at
         /\ \A t \in Requests : HasRead(req[t]) => req'[r].stamp # req[t].row.at
         /\ \A t \in Requests : Old(t) /\ req'[r].stamp = req'[t].stamp => r = t
  BY <1>1 DEF StampsFresh
<1>6. \A r \in Requests : New(r) => req'[r].stamp = clock + 1 /\ clock' = clock + 1 /\ product' = product
  OBVIOUS
<1>7. \A r \in Requests : HasRead(req'[r]) =>
         /\ req'[r].row.at <= clock
         /\ Copies(req'[r].row, product)
         /\ \A t \in Requests : HasRead(req[t]) => Copies(req'[r].row, req[t].row)
         /\ \A t \in Requests : HasRead(req'[t]) => Copies(req'[r].row, req'[t].row)
         /\ \A t \in Requests : Stamps(req[t]) => req[t].stamp # req'[r].row.at
  BY <1>1 DEF StampsFresh, RowsIdentified, Copies, SameRow
<1>8. /\ product'.at <= clock'
      /\ \A r \in Requests : Old(r) /\ Stamps(req'[r]) => req'[r].stamp # product'.at
      /\ \A r \in Requests : HasRead(req'[r]) => Copies(req'[r].row, product')
  <2>1. CASE product' = product
    BY <1>1, <1>2, <1>5, <1>7, <2>1 DEF StampsFresh
  <2>2. ASSUME NEW t \in Requests, HasRead(req[t]), product'.at = req[t].row.at,
               SameRow(product', req[t].row)
        PROVE  <1>8!1 /\ <1>8!2 /\ <1>8!3
    <3>1. req[t].row.at <= clock
      BY <1>1, <2>2 DEF StampsFresh
    <3>2. \A r \in Requests : Old(r) => req'[r].stamp # product'.at
      BY <1>5, <2>2
    <3>3. \A r \in Requests : HasRead(req'[r]) => Copies(req'[r].row, product')
      BY <1>7, <2>2 DEF Copies, SameRow
    <3> QED
      BY <1>2, <2>2, <3>1, <3>2, <3>3
  <2>3. ASSUME NEW t \in Requests, Stamps(req[t]), ~Stamps(req'[t]), product'.at = req[t].stamp
        PROVE  <1>8!1 /\ <1>8!2 /\ <1>8!3
    <3>1. req[t].stamp <= clock
      BY <1>1, <2>3 DEF StampsFresh
    <3>2. \A r \in Requests : Old(r) /\ Stamps(req'[r]) => req'[r].stamp # product'.at
      BY <1>1, <2>3 DEF StampsFresh
    <3>3. \A r \in Requests : HasRead(req'[r]) => Copies(req'[r].row, product')
      BY <1>7, <2>3 DEF Copies
    <3> QED
      BY <1>2, <2>3, <3>1, <3>2, <3>3
  <2>4. CASE product'.at = clock' /\ clock' = clock + 1
    <3>1. \A r \in Requests : HasRead(req'[r]) => req'[r].row.at # product'.at
      BY <1>2, <1>7, <2>4
    <3> QED
      BY <1>2, <1>5, <2>4, <3>1 DEF Copies
  <2> QED
    BY <2>1, <2>2, <2>3, <2>4
<1>9. \A r \in Requests : Stamps(req'[r]) => req'[r].stamp <= clock' /\ req'[r].stamp # product'.at
  BY <1>1, <1>2, <1>3, <1>5, <1>6, <1>8 DEF StampsFresh
<1>10. \A r, t \in Requests : Stamps(req'[r]) /\ HasRead(req'[t]) => req'[r].stamp # req'[t].row.at
  <2> SUFFICES ASSUME NEW r \in Requests, NEW t \in Requests, Stamps(req'[r]), HasRead(req'[t])
               PROVE  req'[r].stamp # req'[t].row.at
    OBVIOUS
  <2>1. CASE Old(r)
    BY <1>7, <2>1
  <2>2. CASE New(r)
    BY <1>2, <1>6, <1>7, <2>2
  <2> QED
    BY <1>3, <2>1, <2>2
<1>11. \A r, t \in Requests :
          Stamps(req'[r]) /\ Stamps(req'[t]) /\ req'[r].stamp = req'[t].stamp => r = t
  BY <1>2, <1>3, <1>4, <1>5, <1>6
<1>12. \A r \in Requests : HasRead(req'[r]) => req'[r].row.at <= clock'
  BY <1>2, <1>7
<1> QED
  BY <1>7, <1>8, <1>9, <1>10, <1>11, <1>12 DEF StampInv, StampsFresh, RowsIdentified

(***************************************************************************)
(* The ledgers of one idea.                                                *)
(***************************************************************************)
\* Nothing of it is written, and no request leaves it half done.
LEMMA Elsewhere ==
    ASSUME AutopilotTypeOK, NEW i \in Ids, LedgerOf(i),
           idea'[i] = idea[i], swipes'[i] = swipes[i], i \in pool' <=> i \in pool,
           \A n \in Ids : tasks'[n] = i <=> tasks[n] = i,
           \A r \in Requests :
             \/ req'[r] = req[r]
             \/ /\ AtIt(req'[r], i) => /\ req'[r].at \notin Half \cup {"link"}
                                       /\ Current(req'[r], i)
                /\ AtIt(req[r], i) => req[r].at \notin Half \cup {"link"}
    PROVE  LedgerOf(i)'
<1>1. \A p \in Half \cup {"link"} : p \in AtIdea
  BY DEF Half, AtIdea, HalfDone
<1>2. \A r \in Requests : AtIt(req'[r], i) => Current(req'[r], i)
  BY DEF LedgerOf
<1>3. \A r \in Requests : AtIt(req'[r], i) /\ req'[r].at \in Half \cup {"link"} => req'[r] = req[r]
  OBVIOUS
<1>4. \A r \in Requests : AtIt(req[r], i) /\ req[r].at \in Half \cup {"link"} => req'[r] = req[r]
  OBVIOUS
<1>5. \A r \in Requests : AtIt(req'[r], i) => Current(req[r], i)'
  <2> TAKE r \in Requests
  <2> HAVE AtIt(req'[r], i)
  <2>1. Current(req'[r], i)
    BY <1>2
  <2>2. req'[r].at \in Half => Halfway(req[r], i)'
    BY <2>1 DEF Current, Halfway
  <2>3. req'[r].at = "link" => req'[r].n # 0 /\ tasks'[req'[r].n] = i
    <3>1. req'[r].at = "link" => req'[r] = req[r]
      BY <1>3
    <3>2. req'[r].at = "link" => req'[r].n \in Ids
      BY <2>1, <3>1 DEF Current, AutopilotTypeOK, Request
    <3> QED
      BY <2>1, <3>2 DEF Current
  <2> QED
    BY <2>1, <2>2, <2>3 DEF Current
<1>6. \A q, r \in Requests : /\ req'[q].at \in Half /\ req'[q].i = i
                             /\ req'[r].at \in Half /\ req'[r].i = i
                             => q = r
  BY <1>1, <1>3 DEF LedgerOf, AtIt
<1>7. ASSUME \A q \in Requests : req'[q].at \in Half => req'[q].i # i
      PROVE  Settled(i)'
  <2>1. \A q \in Requests : req[q].at \in Half => req[q].i # i
    BY <1>1, <1>4, <1>7 DEF AtIt
  <2> QED
    BY <2>1 DEF LedgerOf, Settled
<1>8. TasksOf(i)'
  <2>1. idea[i].task # 0 => tasks'[idea[i].task] = i
    BY DEF LedgerOf, TasksOf, AutopilotTypeOK, IdeaRow
  <2>2. \A n \in Ids : tasks'[n] = i =>
          idea[i].task # 0 \/ \E q \in Requests : req'[q].at = "link" /\ req'[q].i = i
    BY <1>1, <1>4 DEF LedgerOf, TasksOf, AtIt
  <2> QED
    BY <2>1, <2>2 DEF TasksOf
<1> QED
  BY <1>5, <1>6, <1>7, <1>8 DEF LedgerOf

\* The request in the middle of a swipe goes on, or comes to the end.
LEMMA HalfStep ==
    ASSUME AutopilotTypeOK, NEW i \in Ids, LedgerOf(i), NEW q \in Requests, Only(q),
           req[q].at \in Half, req[q].i = i,
           idea' = idea, tasks' = tasks,
           AtIt(req'[q], i) => Current(req[q], i)',
           \/ req'[q].at \in Half /\ req'[q].i = i
           \/ ~(req'[q].at \in Half /\ req'[q].i = i) /\ Settled(i)'
    PROVE  LedgerOf(i)'
<1>1. \A p \in Half : p \in AtIdea /\ p # "link"
  BY DEF Half, AtIdea, HalfDone
<1>2. \A r \in Requests : req[r].at \in Half /\ req[r].i = i => r = q
  BY DEF LedgerOf
<1>3. \A r \in Requests : r # q => /\ req'[r] = req[r]
                                   /\ ~(req'[r].at \in Half /\ req'[r].i = i)
  BY <1>2 DEF Only
<1>4. \A r \in Requests : AtIt(req'[r], i) => Current(req[r], i)'
  <2> TAKE r \in Requests
  <2> HAVE AtIt(req'[r], i)
  <2>1. CASE r = q
    BY <2>1
  <2>2. CASE r # q
    <3>1. req'[r] = req[r] /\ req'[r].at \notin Half /\ AtIt(req[r], i)
      BY <1>3, <2>2 DEF AtIt
    <3>2. Current(req[r], i)
      BY <3>1 DEF LedgerOf
    <3> QED
      BY <3>1, <3>2 DEF Current
  <2> QED
    BY <2>1, <2>2
<1>5. TasksOf(i)'
  <2>1. \A r \in Requests : req[r].at = "link" /\ req[r].i = i => req'[r] = req[r]
    BY <1>1 DEF Only
  <2> QED
    BY <2>1 DEF LedgerOf, TasksOf
<1> QED
  BY <1>3, <1>4, <1>5 DEF LedgerOf

\* A request that is alone at the idea.
LEMMA AloneStep ==
    ASSUME NEW i \in Ids, NEW q \in Requests, Only(q),
           \A r \in Requests : r # q => ~AtIt(req[r], i),
           AtIt(req'[q], i) => Current(req[q], i)',
           (req'[q].at \in Half /\ req'[q].i = i) \/ Settled(i)',
           TasksOf(i)'
    PROVE  LedgerOf(i)'
<1>1. \A p \in Half : p \in AtIdea
  BY DEF Half, AtIdea, HalfDone
<1>2. \A r \in Requests : r # q => req'[r] = req[r] /\ ~AtIt(req'[r], i)
  BY DEF Only
<1>3. \A r \in Requests : AtIt(req'[r], i) => Current(req[r], i)'
  BY <1>2
<1>4. \A r \in Requests : r # q => ~(req'[r].at \in Half /\ req'[r].i = i)
  BY <1>1, <1>2 DEF AtIt
<1> QED
  BY <1>3, <1>4 DEF LedgerOf

AutoInv == AutopilotTypeOK /\ StampInv /\ LedgerInv

\* A step that writes no ledger.
LEMMA QuietStep ==
    ASSUME AutoInv, NEW q \in Requests, req' \in [Requests -> Request], Only(q),
           idea' = idea, pool' = pool, swipes' = swipes, tasks' = tasks, crossed' = crossed,
           counter' = counter,
           events' \in [requests : 0 .. MaxEvents, upsets : 0 .. MaxUpsets],
           clock' \in {clock, clock + 1}, product' \in ProductRow,
           req[q].at \notin Half \cup {"link"},
           req'[q].at \in AtIdea =>
             /\ req'[q].at \notin Half \cup {"link"}
             /\ req'[q].i \notin crossed => Current(req'[q], req'[q].i),
           HasRead(req'[q]) =>
             \/ req'[q].row = product
             \/ HasRead(req[q]) /\ req'[q].row = req[q].row,
           Stamps(req'[q]) =>
             \/ Stamps(req[q]) /\ req'[q].stamp = req[q].stamp
             \/ product' = product /\ clock' = clock + 1 /\ req'[q].stamp = clock',
           \/ product' = product
           \/ HasRead(req[q]) /\ product'.at = req[q].row.at /\ SameRow(product', req[q].row)
           \/ Stamps(req[q]) /\ ~Stamps(req'[q]) /\ product'.at = req[q].stamp
           \/ product'.at = clock' /\ clock' = clock + 1
    PROVE  AutoInv'
<1>1. AutopilotTypeOK /\ StampInv /\ LedgerInv /\ clock \in Nat
  BY DEF AutoInv, AutopilotTypeOK
<1>2. AutopilotTypeOK'
  BY <1>1 DEF AutopilotTypeOK
<1>3. clock <= clock'
  BY <1>1
<1>4. \A r \in Requests : HasRead(req'[r]) =>
         req'[r].row = product \/ (HasRead(req[r]) /\ req'[r].row = req[r].row)
  BY DEF Only
<1>5. \A r \in Requests : Stamps(req'[r]) =>
         \/ Stamps(req[r]) /\ req'[r].stamp = req[r].stamp
         \/ r = q /\ product' = product /\ clock' = clock + 1 /\ req'[r].stamp = clock'
  BY DEF Only
<1>6. StampInv'
  BY <1>1, <1>2, <1>3, <1>4, <1>5, StampStep
<1>7. ASSUME NEW i \in Ids, i \notin crossed
      PROVE  LedgerOf(i)'
  <2>1. LedgerOf(i)
    BY <1>1, <1>7 DEF LedgerInv
  <2>2. \A r \in Requests :
          \/ req'[r] = req[r]
          \/ /\ AtIt(req'[r], i) => /\ req'[r].at \notin Half \cup {"link"}
                                    /\ Current(req'[r], i)
             /\ AtIt(req[r], i) => req[r].at \notin Half \cup {"link"}
    BY <1>7 DEF Only, AtIt
  <2> QED
    BY <1>1, <2>1, <2>2, Elsewhere
<1>8. LedgerInv'
  BY <1>7 DEF LedgerInv
<1> QED
  BY <1>2, <1>6, <1>8 DEF AutoInv

\* Unfolding of the places, for a request whose place is known.
LEMMA NotAtIdea ==
    ASSUME NEW s, s.at \in {"idle", "restamp", "spec", "next", "research", "ideate", "drafts",
                            "stamp", "patch"}
    PROVE  s.at \notin AtIdea /\ s.at \notin Half \cup {"link"}
  BY DEF AtIdea, HalfDone, Half

\* A step that begins a request.
LEMMA QuietStart ==
    ASSUME AutoInv, NEW q \in Requests, NEW u \in Request, Start(q, u),
           product' = product, idea' = idea, pool' = pool, swipes' = swipes, tasks' = tasks,
           counter' = counter, crossed' = crossed, clock' \in {clock, clock + 1},
           u.at \in AtIdea => u.at \notin Half \cup {"link"} /\ Current(u, u.i),
           HasRead(u) => u.row = product,
           Stamps(u) => clock' = clock + 1 /\ u.stamp = clock'
    PROVE  AutoInv'
<1>1. AutopilotTypeOK /\ product' \in ProductRow
  BY DEF AutoInv, AutopilotTypeOK
<1>2. /\ req' \in [Requests -> Request] /\ req'[q] = u /\ Only(q) /\ req[q].at = "idle"
      /\ events' \in [requests : 0 .. MaxEvents, upsets : 0 .. MaxUpsets]
  BY <1>1, Starts
<1>3. req[q].at \notin Half \cup {"link"}
  BY <1>2, NotAtIdea
<1> QED
  BY <1>1, <1>2, <1>3, QuietStep

LEMMA RunResearchKeeps ==
    ASSUME AutoInv, NEW q \in Requests, RunResearch(q)
    PROVE  AutoInv'
<1>1. AutopilotTypeOK /\ product \in ProductRow /\ idea \in [Ids -> IdeaRow] /\ clock \in Nat
  BY DEF AutoInv, AutopilotTypeOK
<1>2. PICK tick \in BOOLEAN :
        Start(q, [Idle EXCEPT !.at = "research", !.home = Home(tick), !.tick = tick,
                              !.row = product])
  BY DEF RunResearch
<1> DEFINE u == [Idle EXCEPT !.at = "research", !.home = Home(tick), !.tick = tick,
                             !.row = product]
<1>3. u \in Request /\ u.at = "research" /\ u.row = product
  BY <1>1, <1>2, IdleIs, PlaceNames DEF Request, Home, Processes, Decisions
<1> HIDE DEF u
<1>4. Start(q, u)
  BY <1>2 DEF u
<1>5. /\ product' = product /\ idea' = idea /\ pool' = pool /\ swipes' = swipes /\ tasks' = tasks
      /\ counter' = counter /\ crossed' = crossed /\ clock' = clock
  BY DEF RunResearch
<1>6. u.at \notin AtIdea /\ ~Stamps(u)
  BY <1>2, <1>3 DEF AtIdea, HalfDone, Half, Current, Pend, WithProduct, Stamps, HasRead
<1> QED
  BY <1>1, <1>3, <1>4, <1>5, <1>6, QuietStart

LEMMA RunIdeationKeeps ==
    ASSUME AutoInv, NEW q \in Requests, RunIdeation(q)
    PROVE  AutoInv'
<1>1. AutopilotTypeOK /\ product \in ProductRow /\ idea \in [Ids -> IdeaRow] /\ clock \in Nat
  BY DEF AutoInv, AutopilotTypeOK
<1>2. PICK tick \in BOOLEAN :
        Start(q, [Idle EXCEPT !.at = "ideate", !.home = Home(tick), !.tick = tick,
                              !.row = product])
  BY DEF RunIdeation
<1> DEFINE u == [Idle EXCEPT !.at = "ideate", !.home = Home(tick), !.tick = tick,
                             !.row = product]
<1>3. u \in Request /\ u.at = "ideate" /\ u.row = product
  BY <1>1, <1>2, IdleIs, PlaceNames DEF Request, Home, Processes, Decisions
<1> HIDE DEF u
<1>4. Start(q, u)
  BY <1>2 DEF u
<1>5. /\ product' = product /\ idea' = idea /\ pool' = pool /\ swipes' = swipes /\ tasks' = tasks
      /\ counter' = counter /\ crossed' = crossed /\ clock' = clock
  BY DEF RunIdeation
<1>6. u.at \notin AtIdea /\ ~Stamps(u)
  BY <1>2, <1>3 DEF AtIdea, HalfDone, Half, Current, Pend, WithProduct, Stamps, HasRead
<1> QED
  BY <1>1, <1>3, <1>4, <1>5, <1>6, QuietStart

LEMMA SubmitSwipeKeeps ==
    ASSUME AutoInv, NEW q \in Requests, NEW i \in Ids, SubmitSwipe(q, i)
    PROVE  AutoInv'
<1>1. AutopilotTypeOK /\ product \in ProductRow /\ idea \in [Ids -> IdeaRow] /\ clock \in Nat
  BY DEF AutoInv, AutopilotTypeOK
<1>2. /\ idea[i].decision = "none"
      /\ \E d \in Decisions :
           Start(q, [Idle EXCEPT !.at = "swipe", !.i = i, !.decision = d, !.idea = idea[i]])
  BY DEF SubmitSwipe
<1> PICK d \in Decisions :
      Start(q, [Idle EXCEPT !.at = "swipe", !.i = i, !.decision = d, !.idea = idea[i]])
  BY <1>2
<1> DEFINE u == [Idle EXCEPT !.at = "swipe", !.i = i, !.decision = d, !.idea = idea[i]]
<1>3. u \in Request /\ u.at = "swipe" /\ u.i = i /\ u.idea = idea[i]
  BY <1>1, <1>2, IdleIs, PlaceNames DEF Request, Home, Processes, Decisions
<1> HIDE DEF u
<1>4. Start(q, u)
  BY <1>2 DEF u
<1>5. /\ product' = product /\ idea' = idea /\ pool' = pool /\ swipes' = swipes /\ tasks' = tasks
      /\ counter' = counter /\ crossed' = crossed /\ clock' = clock
  BY DEF SubmitSwipe
<1>6. /\ ~Stamps(u) /\ ~HasRead(u)
      /\ u.at \notin Half \cup {"link"} /\ Current(u, u.i)
  BY <1>2, <1>3 DEF AtIdea, HalfDone, Half, Current, Pend, WithProduct, Stamps, HasRead
<1> QED
  BY <1>1, <1>3, <1>4, <1>5, <1>6, QuietStart

LEMMA PromoteMaybeKeeps ==
    ASSUME AutoInv, NEW q \in Requests, NEW i \in Ids, PromoteMaybe(q, i)
    PROVE  AutoInv'
<1>1. AutopilotTypeOK /\ product \in ProductRow /\ idea \in [Ids -> IdeaRow] /\ clock \in Nat
  BY DEF AutoInv, AutopilotTypeOK
<1>2. /\ idea[i].decision = "maybe"
      /\ Start(q, [Idle EXCEPT !.at = "promote", !.i = i, !.decision = "yes",
                               !.idea = idea[i]])
  BY DEF PromoteMaybe
<1> DEFINE u == [Idle EXCEPT !.at = "promote", !.i = i, !.decision = "yes", !.idea = idea[i]]
<1>3. u \in Request /\ u.at = "promote" /\ u.i = i /\ u.idea = idea[i]
      /\ u.decision = "yes"
  BY <1>1, <1>2, IdleIs, PlaceNames DEF Request, Home, Processes, Decisions
<1> HIDE DEF u
<1>4. Start(q, u)
  BY <1>2 DEF u
<1>5. /\ product' = product /\ idea' = idea /\ pool' = pool /\ swipes' = swipes /\ tasks' = tasks
      /\ counter' = counter /\ crossed' = crossed /\ clock' = clock
  BY DEF PromoteMaybe
<1>6. /\ ~Stamps(u) /\ ~HasRead(u)
      /\ u.at \notin Half \cup {"link"} /\ Current(u, u.i)
  BY <1>2, <1>3 DEF AtIdea, HalfDone, Half, Current, Pend, WithProduct, Stamps, HasRead
<1> QED
  BY <1>1, <1>3, <1>4, <1>5, <1>6, QuietStart

LEMMA CreateFromApprovedIdeaKeeps ==
    ASSUME AutoInv, NEW q \in Requests, NEW i \in Ids, CreateFromApprovedIdea(q, i)
    PROVE  AutoInv'
<1>1. AutopilotTypeOK /\ product \in ProductRow /\ idea \in [Ids -> IdeaRow] /\ clock \in Nat
  BY DEF AutoInv, AutopilotTypeOK
<1>2. /\ idea[i].decision = "yes"
      /\ Start(q, [Idle EXCEPT !.at = "create", !.i = i, !.idea = idea[i]])
  BY DEF CreateFromApprovedIdea
<1> DEFINE u == [Idle EXCEPT !.at = "create", !.i = i, !.idea = idea[i]]
<1>3. u \in Request /\ u.at = "create" /\ u.i = i /\ u.idea = idea[i]
  BY <1>1, <1>2, IdleIs, PlaceNames DEF Request, Home, Processes, Decisions
<1> HIDE DEF u
<1>4. Start(q, u)
  BY <1>2 DEF u
<1>5. /\ product' = product /\ idea' = idea /\ pool' = pool /\ swipes' = swipes /\ tasks' = tasks
      /\ counter' = counter /\ crossed' = crossed /\ clock' = clock
  BY DEF CreateFromApprovedIdea
<1>6. /\ ~Stamps(u) /\ ~HasRead(u)
      /\ u.at \notin Half \cup {"link"} /\ Current(u, u.i)
  BY <1>2, <1>3 DEF AtIdea, HalfDone, Half, Current, Pend, WithProduct, Stamps, HasRead
<1> QED
  BY <1>1, <1>3, <1>4, <1>5, <1>6, QuietStart

LEMMA PatchIdeaMetadataKeeps ==
    ASSUME AutoInv, NEW q \in Requests, NEW i \in Ids, PatchIdeaMetadata(q, i)
    PROVE  AutoInv'
<1>1. AutopilotTypeOK /\ product \in ProductRow /\ idea \in [Ids -> IdeaRow] /\ clock \in Nat
  BY DEF AutoInv, AutopilotTypeOK
<1>2. Start(q, [Idle EXCEPT !.at = "patchIdea", !.i = i, !.idea = idea[i]])
  BY DEF PatchIdeaMetadata
<1> DEFINE u == [Idle EXCEPT !.at = "patchIdea", !.i = i, !.idea = idea[i]]
<1>3. u \in Request /\ u.at = "patchIdea" /\ u.i = i /\ u.idea = idea[i]
  BY <1>1, <1>2, IdleIs, PlaceNames DEF Request, Home, Processes, Decisions
<1> HIDE DEF u
<1>4. Start(q, u)
  BY <1>2 DEF u
<1>5. /\ product' = product /\ idea' = idea /\ pool' = pool /\ swipes' = swipes /\ tasks' = tasks
      /\ counter' = counter /\ crossed' = crossed /\ clock' = clock
  BY DEF PatchIdeaMetadata
<1>6. /\ ~Stamps(u) /\ ~HasRead(u)
      /\ u.at \notin Half \cup {"link"} /\ Current(u, u.i)
  BY <1>2, <1>3 DEF AtIdea, HalfDone, Half, Current, Pend, WithProduct, Stamps, HasRead
<1> QED
  BY <1>1, <1>3, <1>4, <1>5, <1>6, QuietStart

LEMMA CreateFromSpecWithNewIdeaKeeps ==
    ASSUME AutoInv, NEW q \in Requests, CreateFromSpecWithNewIdea(q)
    PROVE  AutoInv'
<1>1. AutopilotTypeOK /\ product \in ProductRow /\ idea \in [Ids -> IdeaRow] /\ clock \in Nat
  BY DEF AutoInv, AutopilotTypeOK
<1>2. PICK n \in Ids \cup {0} : Start(q, [Idle EXCEPT !.at = "spec", !.n = n])
  BY DEF CreateFromSpecWithNewIdea
<1> DEFINE u == [Idle EXCEPT !.at = "spec", !.n = n]
<1>3. u \in Request /\ u.at = "spec"
  BY <1>1, <1>2, IdleIs, PlaceNames DEF Request, Home, Processes, Decisions
<1> HIDE DEF u
<1>4. Start(q, u)
  BY <1>2 DEF u
<1>5. /\ product' = product /\ idea' = idea /\ pool' = pool /\ swipes' = swipes /\ tasks' = tasks
      /\ counter' = counter /\ crossed' = crossed /\ clock' = clock
  BY DEF CreateFromSpecWithNewIdea
<1>6. u.at \notin AtIdea /\ ~Stamps(u) /\ ~HasRead(u)
  BY <1>2, <1>3 DEF AtIdea, HalfDone, Half, Current, Pend, WithProduct, Stamps, HasRead
<1> QED
  BY <1>1, <1>3, <1>4, <1>5, <1>6, QuietStart

LEMMA PatchMetadataKeeps ==
    ASSUME AutoInv, NEW q \in Requests, PatchMetadata(q)
    PROVE  AutoInv'
<1>1. AutopilotTypeOK /\ product \in ProductRow /\ idea \in [Ids -> IdeaRow] /\ clock \in Nat
  BY DEF AutoInv, AutopilotTypeOK
<1>2. Start(q, [Idle EXCEPT !.at = "patch", !.row = product, !.stamp = clock + 1])
  BY DEF PatchMetadata
<1> clock + 1 \in Nat
  BY <1>1
<1> DEFINE u == [Idle EXCEPT !.at = "patch", !.row = product, !.stamp = clock + 1]
<1>3. u \in Request /\ u.at = "patch" /\ u.row = product /\ u.stamp = clock + 1
  BY <1>1, <1>2, IdleIs, PlaceNames DEF Request, Home, Processes, Decisions
<1> HIDE DEF u
<1>4. Start(q, u)
  BY <1>2 DEF u
<1>5. /\ product' = product /\ idea' = idea /\ pool' = pool /\ swipes' = swipes /\ tasks' = tasks
      /\ counter' = counter /\ crossed' = crossed /\ clock' = clock + 1
  BY DEF PatchMetadata
<1>6. u.at \notin AtIdea
  BY <1>2, <1>3 DEF AtIdea, HalfDone, Half, Current, Pend, WithProduct, Stamps, HasRead
<1> QED
  BY <1>1, <1>3, <1>4, <1>5, <1>6, QuietStart

\* The places of a request that is at no idea, and of one that has written nothing of its idea.
LEMMA PlaceKinds ==
    ASSUME NEW s
    PROVE  /\ s.at \in {"idle", "restamp", "spec", "next", "research", "ideate", "drafts",
                        "stamp", "patch"} => s.at \notin AtIdea /\ s.at \notin Half \cup {"link"}
           /\ s.at \in {"idle", "restamp", "spec", "next"} => ~HasRead(s) /\ ~Stamps(s)
           /\ s.at \in {"research", "ideate", "stamp"} => HasRead(s) /\ ~Stamps(s)
           /\ s.at \in {"drafts", "patch"} \cup {"swipeIdea", "swipePool", "swipeProduct",
                        "promoteIdea", "promotePool", "promoteHistory", "promoteProduct"} =>
                HasRead(s) /\ Stamps(s)
           /\ s.at \in {"swipe", "promote", "create", "task", "manual", "patchIdea", "link",
                        "swipeHistory"} =>
                s.at \in AtIdea /\ ~HasRead(s) /\ ~Stamps(s)
           /\ s.at \in {"swipe", "promote", "create", "task", "manual", "patchIdea", "swipeIdea",
                        "promoteIdea", "promoteProduct"} =>
                s.at \in AtIdea /\ s.at \notin Half \cup {"link"}
  BY DEF AtIdea, HalfDone, Half, HasRead, Stamps, WithProduct, Pend

\* What is the same in all steps of a request but its first.
LEMMA QuietGo ==
    ASSUME AutoInv, NEW q \in Requests, NEW u \in Request, req' \in [Requests -> Request],
           req'[q] = u, Only(q),
           idea' = idea, pool' = pool, swipes' = swipes, tasks' = tasks, crossed' = crossed,
           counter' = counter, events' = events,
           clock' \in {clock, clock + 1}, product' \in ProductRow,
           req[q].at \notin Half \cup {"link"},
           u.at \in AtIdea => /\ u.at \notin Half \cup {"link"}
                              /\ u.i \notin crossed => Current(u, u.i),
           HasRead(u) => u.row = product \/ (HasRead(req[q]) /\ u.row = req[q].row),
           Stamps(u) => \/ Stamps(req[q]) /\ u.stamp = req[q].stamp
                        \/ product' = product /\ clock' = clock + 1 /\ u.stamp = clock',
           \/ product' = product
           \/ HasRead(req[q]) /\ product'.at = req[q].row.at /\ SameRow(product', req[q].row)
           \/ Stamps(req[q]) /\ ~Stamps(u) /\ product'.at = req[q].stamp
           \/ product'.at = clock' /\ clock' = clock + 1
    PROVE  AutoInv'
<1>1. events' \in [requests : 0 .. MaxEvents, upsets : 0 .. MaxUpsets]
  BY DEF AutoInv, AutopilotTypeOK
<1> QED
  BY <1>1, QuietStep

LEMMA AutoTypes ==
    ASSUME AutoInv
    PROVE  /\ AutopilotTypeOK /\ product \in ProductRow /\ idea \in [Ids -> IdeaRow]
           /\ clock \in Nat /\ clock + 1 \in Nat /\ req \in [Requests -> Request]
  BY DEF AutoInv, AutopilotTypeOK

LEMMA GenerateIdeasKeeps ==
    ASSUME AutoInv, NEW q \in Requests, GenerateIdeas(q)
    PROVE  AutoInv'
<1>1. /\ req[q].at = "ideate" /\ req' = [req EXCEPT ![q].at = "drafts", ![q].stamp = clock + 1]
      /\ product' = product /\ idea' = idea /\ pool' = pool /\ swipes' = swipes /\ tasks' = tasks
      /\ counter' = counter /\ clock' = clock + 1 /\ events' = events /\ crossed' = crossed
  BY DEF GenerateIdeas, At
<1>2. req'[q] \in Request /\ req'[q].at = "drafts" /\ req'[q].row = req[q].row
      /\ req'[q].stamp = clock + 1
  BY <1>1, AutoTypes, PlaceNames DEF Request
<1>3. req' \in [Requests -> Request] /\ Only(q)
  BY <1>1, <1>2, AutoTypes DEF Only
<1> QED
  BY <1>1, <1>2, <1>3, AutoTypes, PlaceKinds, QuietGo

LEMMA ReadToStampKeeps ==
    ASSUME AutoInv, NEW q \in Requests, ReadToStamp(q)
    PROVE  AutoInv'
<1>1. /\ req[q].at = "restamp" /\ req' = [req EXCEPT ![q].at = "stamp", ![q].row = product]
      /\ product' = product /\ idea' = idea /\ pool' = pool /\ swipes' = swipes /\ tasks' = tasks
      /\ counter' = counter /\ clock' = clock /\ events' = events /\ crossed' = crossed
  BY DEF ReadToStamp, At
<1>2. req'[q] \in Request /\ req'[q].at = "stamp" /\ req'[q].row = product
  BY <1>1, AutoTypes, PlaceNames DEF Request
<1>3. req' \in [Requests -> Request] /\ Only(q)
  BY <1>1, <1>2, AutoTypes DEF Only
<1> QED
  BY <1>1, <1>2, <1>3, AutoTypes, PlaceKinds, QuietGo

LEMMA TickGoesOnKeeps ==
    ASSUME AutoInv, NEW q \in Requests, TickGoesOn(q)
    PROVE  AutoInv'
<1>1. /\ req[q].at = "next"
      /\ req' = [req EXCEPT ![q].at = "ideate", ![q].row = product, ![q].tick = FALSE]
      /\ product' = product /\ idea' = idea /\ pool' = pool /\ swipes' = swipes /\ tasks' = tasks
      /\ counter' = counter /\ clock' = clock /\ events' = events /\ crossed' = crossed
  BY DEF TickGoesOn, At
<1>2. req'[q] \in Request /\ req'[q].at = "ideate" /\ req'[q].row = product
  BY <1>1, AutoTypes, PlaceNames, ZenonT(90) DEF Request
<1>3. req' \in [Requests -> Request] /\ Only(q)
  BY <1>1, <1>2, AutoTypes DEF Only
<1> QED
  BY <1>1, <1>2, <1>3, AutoTypes, PlaceKinds, QuietGo

LEMMA TickEndsKeeps ==
    ASSUME AutoInv, NEW q \in Requests, TickEnds(q)
    PROVE  AutoInv'
<1>1. /\ req[q].at \in {"restamp", "next"}
      /\ product' = product /\ idea' = idea /\ pool' = pool /\ swipes' = swipes /\ tasks' = tasks
      /\ counter' = counter /\ clock' = clock /\ events' = events /\ crossed' = crossed
  BY DEF TickEnds
<1>2. req' \in [Requests -> Request] /\ req'[q] = Idle /\ Only(q)
  BY AutoTypes, Finishes DEF TickEnds
<1> QED
  BY <1>1, <1>2, AutoTypes, IdleIs, PlaceKinds, QuietGo

LEMMA ReadManualIdeaKeeps ==
    ASSUME AutoInv, NEW q \in Requests, ReadManualIdea(q)
    PROVE  AutoInv'
<1>1. /\ req[q].at = "manual" /\ req[q].i \in Ids
      /\ product' = product /\ idea' = idea /\ pool' = pool /\ swipes' = swipes /\ tasks' = tasks
      /\ counter' = counter /\ clock' = clock /\ events' = events /\ crossed' = crossed
  BY AutoTypes DEF ReadManualIdea, At, Request
<1>2. CASE idea[req[q].i].decision = "yes"
  <2>1. req' = [req EXCEPT ![q].at = "create", ![q].idea = idea[req[q].i]]
    BY <1>2 DEF ReadManualIdea
  <2>2. /\ req'[q] \in Request /\ req'[q].at = "create" /\ req'[q].idea = idea[req[q].i]
        /\ req'[q].i = req[q].i
    BY <1>1, <2>1, AutoTypes, PlaceNames DEF Request
  <2>3. req' \in [Requests -> Request] /\ Only(q)
    BY <2>1, <2>2, AutoTypes DEF Only
  <2>4. Current(req'[q], req'[q].i)
    BY <1>2, <2>2 DEF Current, Half
  <2> QED
    BY <1>1, <2>2, <2>3, <2>4, AutoTypes, PlaceKinds, QuietGo
<1>3. CASE idea[req[q].i].decision # "yes"
  <2>1. req' \in [Requests -> Request] /\ req'[q] = Idle /\ Only(q)
    BY <1>3, AutoTypes, Finishes DEF ReadManualIdea
  <2> QED
    BY <1>1, <2>1, AutoTypes, IdleIs, PlaceKinds, QuietGo
<1> QED
  BY <1>2, <1>3

LEMMA ReadProductKeeps ==
    ASSUME AutoInv, NEW q \in Requests, ReadProduct(q)
    PROVE  AutoInv'
<1>1. /\ req[q].at \in {"swipe", "promote", "create"} /\ req[q].i \in Ids
      /\ product' = product /\ idea' = idea /\ pool' = pool /\ swipes' = swipes /\ tasks' = tasks
      /\ counter' = counter /\ events' = events /\ crossed' = crossed
  BY AutoTypes DEF ReadProduct, Request
<1> DEFINE next == CASE req[q].at = "swipe" -> "swipeIdea"
                     [] req[q].at = "promote" -> "promoteIdea"
                     [] req[q].at = "create" -> "task"
<1>2. CASE /\ clock' = clock + 1
           /\ req' = [req EXCEPT ![q].row = product, ![q].stamp = clock + 1, ![q].at = next]
  <2>1. /\ next \in {"swipeIdea", "promoteIdea", "task"}
        /\ req[q].at = "swipe" <=> next = "swipeIdea"
        /\ req[q].at = "promote" <=> next = "promoteIdea"
        /\ req[q].at = "create" <=> next = "task"
    BY <1>1
  <2> HIDE DEF next
  <2>2. /\ req'[q] \in Request /\ req'[q].at = next /\ req'[q].row = product
        /\ req'[q].stamp = clock + 1 /\ req'[q].i = req[q].i /\ req'[q].idea = req[q].idea
        /\ req'[q].decision = req[q].decision
    BY <1>2, <2>1, AutoTypes, PlaceNames DEF Request
  <2>3. req' \in [Requests -> Request] /\ Only(q)
    BY <1>2, <2>2, AutoTypes DEF Only
  <2>4. ASSUME req[q].i \notin crossed
        PROVE  Current(req[q], req[q].i)
    BY <1>1, <2>4, PlaceKinds DEF AutoInv, LedgerInv, LedgerOf, AtIt
  <2>5. req'[q].i \notin crossed => Current(req'[q], req'[q].i)
    BY <2>1, <2>2, <2>4 DEF Current, Half
  <2>6. req[q].at \notin Half \cup {"link"} /\ req'[q].at \notin Half \cup {"link"}
    BY <1>1, <2>1, <2>2 DEF Half
  <2> QED
    BY <1>1, <1>2, <2>2, <2>3, <2>5, <2>6, AutoTypes, QuietGo
<1>3. CASE Finish(q) /\ clock' = clock
  <2>1. req' \in [Requests -> Request] /\ req'[q] = Idle /\ Only(q)
    BY <1>3, AutoTypes, Finishes
  <2> QED
    BY <1>1, <1>3, <2>1, AutoTypes, IdleIs, PlaceKinds, QuietGo
<1> QED
  BY <1>2, <1>3 DEF ReadProduct

(***************************************************************************)
(* The product is saved.                                                   *)
(***************************************************************************)
LEMMA RestampIs ==
    ASSUME NEW p \in Processes, NEW t \in BOOLEAN
    PROVE  /\ [Idle EXCEPT !.at = "restamp", !.tick = t, !.home = p] \in Request
           /\ [Idle EXCEPT !.at = "restamp", !.tick = t, !.home = p].at = "restamp"
           /\ [Idle EXCEPT !.at = "restamp", !.home = p] \in Request
           /\ [Idle EXCEPT !.at = "restamp", !.home = p].at = "restamp"
  BY IdleIs, PlaceNames DEF Request

LEMMA SaveResearchKeeps ==
    ASSUME AutoInv, NEW q \in Requests, SaveResearch(q)
    PROVE  AutoInv'
<1>1. /\ req[q].at = "research" /\ req[q] \in Request /\ req[q].row \in ProductRow
      /\ req[q].home \in Processes
      /\ product' = [req[q].row EXCEPT !.stage = "ideation", !.at = clock + 1]
      /\ idea' = idea /\ pool' = pool /\ swipes' = swipes /\ tasks' = tasks
      /\ counter' = counter /\ clock' = clock + 1 /\ events' = events /\ crossed' = crossed
  BY AutoTypes DEF SaveResearch, SaveProduct, At, Request
<1>2. product' \in ProductRow /\ product'.at = clock'
  BY <1>1, AutoTypes DEF ProductRow, Stages
<1>3. /\ req' \in [Requests -> Request] /\ Only(q)
      /\ req'[q] = Idle \/ req'[q].at = "restamp"
  <2>1. CASE req[q].tick
    <3>1. [Idle EXCEPT !.at = "restamp", !.tick = TRUE, !.home = req[q].home] \in Request
      BY <1>1, RestampIs
    <3>2. req' = [req EXCEPT ![q] = [Idle EXCEPT !.at = "restamp", !.tick = TRUE,
                                                 !.home = req[q].home]]
      BY <2>1 DEF SaveResearch
    <3> QED
      BY <1>1, <3>1, <3>2, RestampIs, Becomes, AutoTypes
  <2>2. CASE ~req[q].tick
    BY <2>2, AutoTypes, Finishes DEF SaveResearch
  <2> QED
    BY <2>1, <2>2
<1>4. req'[q].at \in {"idle", "restamp"} /\ req'[q] \in Request
  BY <1>3, IdleIs
<1> QED
  BY <1>1, <1>2, <1>3, <1>4, AutoTypes, PlaceKinds, QuietGo

LEMMA SaveIdeationKeeps ==
    ASSUME AutoInv, NEW q \in Requests, SaveIdeation(q)
    PROVE  AutoInv'
<1>1. /\ req[q].at = "drafts" /\ req[q] \in Request /\ req[q].row \in ProductRow
      /\ req[q].home \in Processes /\ req[q].stamp \in Nat
      /\ product' = [req[q].row EXCEPT !.stage = IF req[q].drafts > 0 THEN "swipe" ELSE @,
                                       !.at = req[q].stamp]
      /\ idea' = idea /\ pool' = pool /\ swipes' = swipes /\ tasks' = tasks
      /\ counter' = counter /\ clock' = clock /\ events' = events /\ crossed' = crossed
  BY AutoTypes DEF SaveIdeation, SaveProduct, At, Request
<1>2. product' \in ProductRow /\ product'.at = req[q].stamp
  BY <1>1, AutoTypes DEF ProductRow, Stages
<1>3. /\ req' \in [Requests -> Request] /\ Only(q)
      /\ req'[q] = Idle \/ req'[q].at = "restamp"
  <2>1. CASE req[q].tick
    <3>1. [Idle EXCEPT !.at = "restamp", !.home = req[q].home] \in Request
      BY <1>1, RestampIs
    <3>2. req' = [req EXCEPT ![q] = [Idle EXCEPT !.at = "restamp", !.home = req[q].home]]
      BY <2>1 DEF SaveIdeation
    <3> QED
      BY <1>1, <3>1, <3>2, RestampIs, Becomes, AutoTypes
  <2>2. CASE ~req[q].tick
    BY <2>2, AutoTypes, Finishes DEF SaveIdeation
  <2> QED
    BY <2>1, <2>2
<1>4. req'[q].at \in {"idle", "restamp"} /\ req'[q] \in Request
  BY <1>3, IdleIs
<1> QED
  BY <1>1, <1>2, <1>3, <1>4, AutoTypes, PlaceKinds, QuietGo

LEMMA SaveStampKeeps ==
    ASSUME AutoInv, NEW q \in Requests, SaveStamp(q)
    PROVE  AutoInv'
<1>1. /\ req[q].at = "stamp" /\ req[q] \in Request /\ req[q].row \in ProductRow
      /\ product' = [req[q].row EXCEPT !.auto = TRUE]
      /\ idea' = idea /\ pool' = pool /\ swipes' = swipes /\ tasks' = tasks
      /\ counter' = counter /\ clock' = clock /\ events' = events /\ crossed' = crossed
  BY AutoTypes DEF SaveStamp, SaveProduct, At, Request
<1>2. product' \in ProductRow /\ product'.at = req[q].row.at /\ SameRow(product', req[q].row)
  BY <1>1 DEF ProductRow, SameRow
<1>3. /\ req' \in [Requests -> Request] /\ Only(q)
      /\ req'[q] = Idle \/ req'[q].at = "next"
  <2>1. CASE req[q].tick
    BY <2>1, AutoTypes, PlaceNames, Goes DEF SaveStamp
  <2>2. CASE ~req[q].tick
    BY <2>2, AutoTypes, Finishes DEF SaveStamp
  <2> QED
    BY <2>1, <2>2
<1>4. req'[q].at \in {"idle", "next"} /\ req'[q] \in Request
  BY <1>3, IdleIs
<1>5. HasRead(req[q]) /\ req[q].at \notin Half \cup {"link"}
  BY <1>1, PlaceKinds
<1> QED
  BY <1>1, <1>2, <1>3, <1>4, <1>5, AutoTypes, PlaceKinds, QuietGo

LEMMA SavePatchKeeps ==
    ASSUME AutoInv, NEW q \in Requests, SavePatch(q)
    PROVE  AutoInv'
<1>1. /\ req[q].at = "patch" /\ req[q] \in Request /\ req[q].row \in ProductRow
      /\ req[q].stamp \in Nat
      /\ idea' = idea /\ pool' = pool /\ swipes' = swipes /\ tasks' = tasks
      /\ counter' = counter /\ clock' = clock /\ events' = events /\ crossed' = crossed
  BY AutoTypes DEF SavePatch, At, Request
<1>2. product' = product \/ (product' \in ProductRow /\ product'.at = req[q].stamp)
  <2>1. \/ product' = product
        \/ product' = [req[q].row EXCEPT !.meta = req[q].stamp, !.at = req[q].stamp]
    BY DEF SavePatch, SaveProduct
  <2> QED
    BY <1>1, <2>1 DEF ProductRow
<1>3. req' \in [Requests -> Request] /\ req'[q] = Idle /\ Only(q)
  BY AutoTypes, Finishes DEF SavePatch
<1> QED
  BY <1>1, <1>2, <1>3, AutoTypes, IdleIs, PlaceKinds, QuietGo

LEMMA SwipedRow ==
    ASSUME NEW q \in Requests, AutopilotTypeOK, SaveSwipedProduct(q)
    PROVE  /\ req[q].at \in {"swipeProduct", "promoteProduct"}
           /\ req[q] \in Request /\ req[q].i \in Ids /\ req[q].decision \in Decisions
           /\ product' \in ProductRow /\ product'.at = req[q].stamp
           /\ idea' = idea /\ pool' = pool /\ swipes' = swipes /\ tasks' = tasks
           /\ counter' = counter /\ clock' = clock /\ events' = events /\ crossed' = crossed
<1>1. /\ req[q].at \in {"swipeProduct", "promoteProduct"} /\ req[q].row \in ProductRow
      /\ req[q] \in Request /\ req[q].i \in Ids /\ req[q].stamp \in Nat
      /\ req[q].decision \in Decisions
      /\ product' = [req[q].row EXCEPT
            !.stage = IF req[q].decision = "yes" /\ @ = "swipe" THEN "planning" ELSE @,
            !.at = req[q].stamp]
      /\ idea' = idea /\ pool' = pool /\ swipes' = swipes /\ tasks' = tasks
      /\ counter' = counter /\ clock' = clock /\ events' = events /\ crossed' = crossed
  BY DEF AutopilotTypeOK, SaveSwipedProduct, SaveProduct, Request
<1>2. product' \in ProductRow /\ product'.at = req[q].stamp
  BY <1>1 DEF ProductRow, Stages
<1> QED
  BY <1>1, <1>2

LEMMA PromotedProductKeeps ==
    ASSUME AutoInv, NEW q \in Requests, SaveSwipedProduct(q), At(q, "promoteProduct")
    PROVE  AutoInv'
<1>1. req[q].at = "promoteProduct"
  BY DEF At
<1>2. req' \in [Requests -> Request] /\ req'[q] = Idle /\ Only(q)
  BY <1>1, AutoTypes, Finishes DEF SaveSwipedProduct, At
<1>3. Stamps(req[q]) /\ req[q].at \notin Half \cup {"link"}
  BY <1>1, PlaceKinds
<1> QED
  BY <1>2, <1>3, SwipedRow, AutoTypes, IdleIs, PlaceKinds, QuietGo

(***************************************************************************)
(* The ledgers are written.                                                *)
(***************************************************************************)
LEMMA KeepsStamps ==
    ASSUME AutoInv, AutopilotTypeOK', NEW q \in Requests, Only(q),
           product' = product, clock' = clock,
           HasRead(req'[q]) => HasRead(req[q]) /\ req'[q].row = req[q].row,
           Stamps(req'[q]) => Stamps(req[q]) /\ req'[q].stamp = req[q].stamp
    PROVE  StampInv'
<1>1. AutopilotTypeOK /\ StampInv /\ clock <= clock'
  BY DEF AutoInv, AutopilotTypeOK
<1>2. \A r \in Requests : HasRead(req'[r]) =>
         req'[r].row = product \/ (HasRead(req[r]) /\ req'[r].row = req[r].row)
  BY DEF Only
<1>3. \A r \in Requests : Stamps(req'[r]) =>
         \/ Stamps(req[r]) /\ req'[r].stamp = req[r].stamp
         \/ r = q /\ product' = product /\ clock' = clock + 1 /\ req'[r].stamp = clock'
  BY DEF Only
<1> QED
  BY <1>1, <1>2, <1>3, StampStep

LEMMA OtherIdea ==
    ASSUME AutoInv, NEW q \in Requests, Only(q), NEW i \in Ids, i \notin crossed,
           ~AtIt(req[q], i), ~AtIt(req'[q], i),
           idea'[i] = idea[i], swipes'[i] = swipes[i], i \in pool' <=> i \in pool,
           \A n \in Ids : tasks'[n] = i <=> tasks[n] = i
    PROVE  LedgerOf(i)'
<1>1. AutopilotTypeOK /\ LedgerOf(i)
  BY DEF AutoInv, LedgerInv
<1>2. \A r \in Requests :
        \/ req'[r] = req[r]
        \/ /\ AtIt(req'[r], i) => req'[r].at \notin Half \cup {"link"} /\ Current(req'[r], i)
           /\ AtIt(req[r], i) => req[r].at \notin Half \cup {"link"}
  BY DEF Only
<1> QED
  BY <1>1, <1>2, Elsewhere

LEMMA AppendedIs ==
    ASSUME NEW S, NEW s \in Seq(S), NEW d \in S, NEW u \in Seq(S)
    PROVE  Len(s) = 1 /\ Len(u) = 2 /\ u[1] = s[1] /\ u[2] = d => Append(s, d) = u
<1> DEFINE t == Append(s, d)
<1>1. /\ t \in Seq(S) /\ Len(t) = Len(s) + 1 /\ \A i \in 1 .. Len(s) : t[i] = s[i]
      /\ t[Len(s) + 1] = d
  BY AppendProperties
<1> HIDE DEF t
<1>2. ASSUME Len(s) = 1, Len(u) = 2, u[1] = s[1], u[2] = d
      PROVE  t = u
  <2>1. \A i \in 1 .. Len(t) : t[i] = u[i]
    BY <1>1, <1>2
  <2> QED
    BY <1>1, <1>2, <2>1, SeqEqual
<1> QED
  BY <1>2 DEF t

LEMMA Histories ==
    ASSUME NEW d
    PROVE  Append(<<>>, d) = <<d>> /\ Append(<<"maybe">>, d) = <<"maybe", d>>
<1> DEFINE S == {"maybe", d}
           s == <<"maybe">>
           u == <<"maybe", d>>
<1>1. /\ s \in Seq(S) /\ u \in Seq(S) /\ d \in S /\ Len(s) = 1 /\ s[1] = "maybe"
      /\ Len(u) = 2 /\ u[1] = "maybe" /\ u[2] = d
  OBVIOUS
<1> HIDE DEF S, s, u
<1>2. Append(s, d) = u
  BY <1>1, AppendedIs
<1>3. Append(<<>>, d) = <<d>>
  OBVIOUS
<1> QED
  BY <1>2, <1>3 DEF s, u
LEMMA UpdatePoolKeeps ==
    ASSUME AutoInv, NEW q \in Requests, UpdatePool(q)
    PROVE  AutoInv'
<1> DEFINE i == req[q].i
           next == IF req[q].at = "swipePool" THEN "swipeProduct" ELSE "promoteHistory"
<1>1. /\ req[q].at \in {"swipePool", "promotePool"} /\ i \in Ids
      /\ pool' = IF req[q].decision = "maybe" THEN pool \cup {i} ELSE pool \ {i}
      /\ req' = [req EXCEPT ![q].at = next]
      /\ product' = product /\ idea' = idea /\ swipes' = swipes /\ tasks' = tasks
      /\ counter' = counter /\ clock' = clock /\ events' = events /\ crossed' = crossed
  BY AutoTypes DEF UpdatePool, Go, At, Request
<1>2. /\ next \in {"swipeProduct", "promoteHistory"}
      /\ req[q].at = "swipePool" <=> next = "swipeProduct"
      /\ req[q].at = "promotePool" <=> next = "promoteHistory"
  BY <1>1
<1> HIDE DEF next
<1>3. /\ req' \in [Requests -> Request] /\ Only(q)
      /\ req'[q].at = next /\ req'[q].i = i /\ req'[q].decision = req[q].decision
      /\ req'[q].stamp = req[q].stamp /\ req'[q].row = req[q].row
  BY <1>1, <1>2, AutoTypes, PlaceNames, Goes, ZenonT(90)
<1>4. AutopilotTypeOK'
  <2>1. pool' \subseteq Ids
    BY <1>1, AutoTypes DEF AutopilotTypeOK
  <2> QED
    BY <1>1, <1>3, <2>1, AutoTypes DEF AutopilotTypeOK
<1>5. StampInv'
  BY <1>1, <1>2, <1>3, <1>4, PlaceKinds, KeepsStamps
<1>6. ASSUME NEW j \in Ids, j \notin crossed
      PROVE  LedgerOf(j)'
  <2>1. CASE j # i
    BY <1>1, <1>3, <1>6, <2>1, OtherIdea DEF AtIt
  <2>2. CASE j = i
    <3>1. /\ LedgerOf(j) /\ req[q].at \in Half /\ req'[q].at \in Half /\ req[q].at \in AtIdea
          /\ req[q].i = j /\ req'[q].i = j
      BY <1>1, <1>2, <1>3, <1>6, <2>2 DEF AutoInv, LedgerInv, Half, AtIdea, HalfDone
    <3>2. Halfway(req[q], j)
      BY <3>1 DEF LedgerOf, AtIt, Current
    <3>3. j \in pool' <=> req[q].decision = "maybe"
      BY <1>1, <2>2
    <3>4. Halfway(req[q], j)'
      BY <1>1, <1>2, <1>3, <3>2, <3>3 DEF Halfway
    <3>5. Current(req[q], j)'
      BY <1>2, <1>3, <3>4 DEF Current
    <3> QED
      BY <1>1, <1>3, <3>1, <3>5, AutoTypes, HalfStep
  <2> QED
    BY <2>1, <2>2
<1> QED
  BY <1>1, <1>4, <1>5, <1>6 DEF AutoInv, LedgerInv

LEMMA AppendSwipeKeeps ==
    ASSUME AutoInv, NEW q \in Requests, AppendSwipe(q)
    PROVE  AutoInv'
<1> DEFINE i == req[q].i
           d == req[q].decision
<1>1. /\ req[q].at \in {"swipeHistory", "promoteHistory"} /\ i \in Ids /\ d \in Decisions
      /\ swipes' = [swipes EXCEPT ![i] = Append(swipes[i], d)]
      /\ product' = product /\ idea' = idea /\ pool' = pool /\ tasks' = tasks
      /\ counter' = counter /\ clock' = clock /\ events' = events /\ crossed' = crossed
  BY AutoTypes DEF AppendSwipe, Request
<1>2. /\ req' \in [Requests -> Request] /\ Only(q)
      /\ \/ req'[q] = Idle
         \/ /\ req[q].at = "promoteHistory" /\ req'[q].at = "promoteProduct" /\ req'[q].i = i
            /\ req'[q].stamp = req[q].stamp /\ req'[q].row = req[q].row
  <2>1. CASE At(q, "promoteHistory") /\ req[q].row.stage = "swipe"
    BY <2>1, AutoTypes, PlaceNames, Goes DEF AppendSwipe, Go, At
  <2>2. CASE ~(At(q, "promoteHistory") /\ req[q].row.stage = "swipe")
    BY <2>2, AutoTypes, Finishes DEF AppendSwipe
  <2> QED
    BY <2>1, <2>2
<1>3. AutopilotTypeOK'
  <2>1. swipes \in [Ids -> Seq(Decisions)]
    BY AutoTypes DEF AutopilotTypeOK
  <2>2. Append(swipes[i], d) \in Seq(Decisions)
    BY <1>1, <2>1
  <2>3. swipes' \in [Ids -> Seq(Decisions)]
    BY <1>1, <2>1, <2>2
  <2> QED
    BY <1>1, <1>2, <2>3, AutoTypes DEF AutopilotTypeOK
<1>4. req'[q].at \in {"idle", "promoteProduct"}
  BY <1>2, IdleIs
<1>5. StampInv'
  <2>1. CASE req'[q] = Idle
    BY <1>1, <1>2, <1>3, <2>1, IdleIs, KeepsStamps
  <2>2. CASE req'[q] # Idle
    BY <1>1, <1>2, <1>3, <2>2, PlaceKinds, KeepsStamps
  <2> QED
    BY <2>1, <2>2
<1>6. ASSUME NEW j \in Ids, j \notin crossed
      PROVE  LedgerOf(j)'
  <2>1. CASE j # i
    <3>1. ~AtIt(req[q], j) /\ ~AtIt(req'[q], j)
      BY <1>2, <2>1, IdleIs DEF AtIt
    <3>2. swipes'[j] = swipes[j]
      BY <1>1, <2>1, AutoTypes DEF AutopilotTypeOK
    <3> QED
      BY <1>1, <1>2, <1>6, <3>1, <3>2, OtherIdea
  <2>2. CASE j = i
    <3>1. /\ LedgerOf(j) /\ req[q].at \in Half /\ req[q].at \in AtIdea
          /\ req[q].i = j /\ req'[q].at \notin Half
      BY <1>1, <1>4, <1>6, <2>2 DEF AutoInv, LedgerInv, Half, AtIdea, HalfDone
    <3>2. Halfway(req[q], j)
      BY <3>1 DEF LedgerOf, AtIt, Current
    <3>3. swipes'[j] = Append(swipes[j], d)
      BY <1>1, <2>2, AutoTypes DEF AutopilotTypeOK
    <3>4. Settled(j)'
      <4>1. CASE req[q].at = "swipeHistory"
        <5>1. /\ swipes[j] = <<>> /\ idea[j].decision = d /\ ~idea[j].manual
              /\ j \in pool <=> d = "maybe"
          BY <3>2, <4>1 DEF Halfway
        <5>2. swipes'[j] = <<d>>
          BY <3>3, <5>1, Histories
        <5> HIDE DEF d
        <5> QED
          BY <1>1, <5>1, <5>2 DEF Settled
      <4>2. CASE req[q].at = "promoteHistory"
        <5>1. /\ swipes[j] = <<"maybe">> /\ idea[j].decision = d /\ ~idea[j].manual
              /\ d = "yes" /\ j \notin pool
          BY <3>2, <4>2 DEF Halfway
        <5>2. swipes'[j] = <<"maybe", "yes">>
          BY <3>3, <5>1, Histories
        <5> HIDE DEF d
        <5> QED
          BY <1>1, <5>1, <5>2 DEF Settled
      <4> QED
        BY <1>1, <4>1, <4>2
    <3>5. Current(req[q], j)'
      BY <1>4, <3>1 DEF Current
    <3> QED
      BY <1>1, <1>2, <3>1, <3>4, <3>5, AutoTypes, HalfStep
  <2> QED
    BY <2>1, <2>2
<1> QED
  BY <1>1, <1>3, <1>5, <1>6 DEF AutoInv, LedgerInv

LEMMA SwipedProductKeeps ==
    ASSUME AutoInv, NEW q \in Requests, SaveSwipedProduct(q), At(q, "swipeProduct")
    PROVE  AutoInv'
<1>1. /\ req[q].at = "swipeProduct" /\ req[q] \in Request
      /\ req[q].i \in Ids /\ req[q].decision \in Decisions
      /\ product' \in ProductRow /\ product'.at = req[q].stamp
      /\ idea' = idea /\ pool' = pool /\ swipes' = swipes /\ tasks' = tasks
      /\ counter' = counter /\ clock' = clock /\ events' = events /\ crossed' = crossed
  BY SwipedRow, AutoTypes DEF At
<1> DEFINE u == [Idle EXCEPT !.at = "swipeHistory", !.i = req[q].i, !.decision = req[q].decision]
<1>2. /\ u \in Request /\ u.at = "swipeHistory" /\ u.i = req[q].i
      /\ u.decision = req[q].decision
  BY <1>1, IdleIs, PlaceNames DEF Request
<1>3. req' = [req EXCEPT ![q] = u]
  BY DEF SaveSwipedProduct
<1> HIDE DEF u
<1>4. req' \in [Requests -> Request] /\ req'[q] = u /\ Only(q)
  BY <1>2, <1>3, AutoTypes, Becomes
<1>5. AutopilotTypeOK'
  BY <1>1, <1>4, AutoTypes DEF AutopilotTypeOK
<1>6. /\ ~HasRead(req'[q]) /\ ~Stamps(req'[q]) /\ Stamps(req[q])
      /\ clock <= clock' /\ StampInv
  BY <1>1, <1>2, <1>4, PlaceKinds, AutoTypes DEF AutoInv
<1>7. StampInv'
  <2>1. \A r \in Requests : HasRead(req'[r]) =>
           req'[r].row = product \/ (HasRead(req[r]) /\ req'[r].row = req[r].row)
    BY <1>4, <1>6 DEF Only
  <2>2. \A r \in Requests : Stamps(req'[r]) =>
           \/ Stamps(req[r]) /\ req'[r].stamp = req[r].stamp
           \/ r = q /\ product' = product /\ clock' = clock + 1 /\ req'[r].stamp = clock'
    BY <1>4, <1>6 DEF Only
  <2> QED
    BY <1>1, <1>5, <1>6, <2>1, <2>2, AutoTypes, StampStep
<1>8. ASSUME NEW j \in Ids, j \notin crossed
      PROVE  LedgerOf(j)'
  <2>1. CASE j # req[q].i
    BY <1>1, <1>2, <1>4, <1>8, <2>1, OtherIdea DEF AtIt
  <2>2. CASE j = req[q].i
    <3>1. /\ LedgerOf(j) /\ req[q].at \in Half /\ req'[q].at \in Half /\ req[q].at \in AtIdea
          /\ req[q].i = j /\ req'[q].i = j
      BY <1>1, <1>2, <1>4, <1>8, <2>2 DEF AutoInv, LedgerInv, Half, AtIdea, HalfDone
    <3>2. Halfway(req[q], j)
      BY <3>1 DEF LedgerOf, AtIt, Current
    <3>3. Halfway(req[q], j)'
      BY <1>1, <1>2, <1>4, <3>2 DEF Halfway
    <3>4. Current(req[q], j)'
      BY <1>2, <1>4, <3>3 DEF Current
    <3> QED
      BY <1>1, <1>4, <3>1, <3>4, AutoTypes, HalfStep
  <2> QED
    BY <2>1, <2>2
<1> QED
  BY <1>1, <1>5, <1>7, <1>8 DEF AutoInv, LedgerInv

\* An idea is written: unless another request is at it, it stays out of crossed.
LEMMA Aloof ==
    ASSUME NEW q \in Requests, NEW i \in Ids, ~Busy(q, i)
    PROVE  \A r \in Requests : r # q => ~AtIt(req[r], i)
  BY DEF Busy, AtIt

LEMMA SavedIdea ==
    ASSUME AutoInv, NEW q \in Requests, NEW i \in Ids, NEW saved \in IdeaRow,
           SaveIdea(q, i, saved) \/ InsertIdea(q, i, saved)
    PROVE  /\ idea' \in [Ids -> IdeaRow] /\ idea'[i] = saved
           /\ \A j \in Ids : j # i => idea'[j] = idea[j]
           /\ crossed' \subseteq Ids /\ crossed \subseteq crossed'
           /\ i \notin crossed' =>
                /\ \A r \in Requests : r # q => ~AtIt(req[r], i)
                /\ SaveIdea(q, i, saved) \/ idea[i] = Absent
<1>1. /\ idea' = [idea EXCEPT ![i] = saved] /\ idea \in [Ids -> IdeaRow] /\ crossed \subseteq Ids
      /\ crossed' = crossed \/ crossed' = crossed \cup {i}
  BY AutoTypes DEF SaveIdea, InsertIdea, AutopilotTypeOK
<1>2. i \notin crossed' => ~Busy(q, i) /\ (SaveIdea(q, i, saved) \/ idea[i] = Absent)
  BY DEF SaveIdea, InsertIdea
<1> QED
  BY <1>1, <1>2, Aloof

\* Of an idea nobody else is at, with the request that is at it in no half of its writes.
LEMMA AloneAt ==
    ASSUME AutoInv, NEW q \in Requests, NEW i \in Ids, i \notin crossed,
           \A r \in Requests : r # q => ~AtIt(req[r], i),
           req[q].at \notin Half
    PROVE  /\ LedgerOf(i) /\ Settled(i)
           /\ idea[i].task # 0 => tasks[idea[i].task] = i
           /\ \A n \in Ids : tasks[n] = i =>
                idea[i].task # 0 \/ (AtIt(req[q], i) /\ req[q].at = "link")
<1>1. \A p \in Half \cup {"link"} : p \in AtIdea
  BY DEF Half, AtIdea, HalfDone
<1>2. LedgerOf(i)
  BY DEF AutoInv, LedgerInv
<1>3. \A r \in Requests : req[r].at \in Half => req[r].i # i
  BY <1>1 DEF AtIt
<1>4. Settled(i)
  BY <1>2, <1>3 DEF LedgerOf
<1>5. \A r \in Requests : req[r].at = "link" /\ req[r].i = i => r = q /\ AtIt(req[q], i)
  BY <1>1 DEF AtIt
<1>6. TasksOf(i)
  BY <1>2 DEF LedgerOf
<1>7. \A n \in Ids : tasks[n] = i => idea[i].task # 0 \/ (AtIt(req[q], i) /\ req[q].at = "link")
  BY <1>5, <1>6 DEF TasksOf
<1>8. idea[i].task # 0 => tasks[idea[i].task] = i
  BY <1>6 DEF TasksOf
<1> QED
  BY <1>2, <1>4, <1>7, <1>8

LEMMA SaveDecisionKeeps ==
    ASSUME AutoInv, NEW q \in Requests, SaveDecision(q)
    PROVE  AutoInv'
<1> DEFINE i == req[q].i
           saved == [req[q].idea EXCEPT !.decision = req[q].decision]
           next == IF req[q].at = "swipeIdea" THEN "swipePool" ELSE "promotePool"
<1>1. /\ req[q].at \in {"swipeIdea", "promoteIdea"} /\ req[q] \in Request
      /\ i \in Ids /\ req[q].idea \in IdeaRow /\ req[q].decision \in Decisions
      /\ SaveIdea(q, i, saved)
      /\ req' = [req EXCEPT ![q].at = next, ![q].idea = Absent]
      /\ product' = product /\ pool' = pool /\ swipes' = swipes /\ tasks' = tasks
      /\ counter' = counter /\ clock' = clock /\ events' = events
  BY AutoTypes DEF SaveDecision, Request
<1>2. /\ next \in {"swipePool", "promotePool"}
      /\ req[q].at = "swipeIdea" <=> next = "swipePool"
      /\ req[q].at = "promoteIdea" <=> next = "promotePool"
  BY <1>1
<1>3. /\ saved \in IdeaRow /\ saved.decision = req[q].decision
      /\ saved.manual = req[q].idea.manual /\ saved.task = req[q].idea.task
  BY <1>1 DEF IdeaRow
<1> HIDE DEF next, saved
<1>4. /\ req'[q] \in Request /\ req'[q].at = next /\ req'[q].i = i
      /\ req'[q].decision = req[q].decision /\ req'[q].stamp = req[q].stamp
      /\ req'[q].row = req[q].row
  BY <1>1, <1>2, AutoTypes, RowsTyped, PlaceNames DEF Request
<1>5. req' \in [Requests -> Request] /\ Only(q)
  BY <1>1, <1>4, AutoTypes DEF Only
<1>6. /\ idea' \in [Ids -> IdeaRow] /\ \A j \in Ids : j # i => idea'[j] = idea[j]
      /\ crossed' \subseteq Ids /\ crossed \subseteq crossed' /\ idea'[i] = saved
      /\ i \notin crossed' => \A r \in Requests : r # q => ~AtIt(req[r], i)
  BY <1>1, <1>3, SavedIdea
<1>7. AutopilotTypeOK'
  BY <1>1, <1>5, <1>6, AutoTypes DEF AutopilotTypeOK
<1>8. StampInv'
  BY <1>1, <1>2, <1>4, <1>5, <1>7, PlaceKinds, KeepsStamps
<1>9. ASSUME NEW j \in Ids, j \notin crossed'
      PROVE  LedgerOf(j)'
  <2>0. j \notin crossed
    BY <1>6, <1>9
  <2>1. CASE j # i
    BY <1>1, <1>4, <1>5, <1>6, <2>0, <2>1, OtherIdea DEF AtIt
  <2>2. CASE j = i
    <3>1. /\ \A r \in Requests : r # q => ~AtIt(req[r], j)
          /\ req[q].at \notin Half /\ req'[q].at \in Half /\ AtIt(req[q], j)
          /\ req[q].at # "link"
          /\ req'[q].i = j /\ idea'[j] = saved
      BY <1>1, <1>2, <1>4, <1>6, <1>9, <2>2, PlaceKinds DEF Half, AtIt
    <3>2. /\ Settled(j) /\ LedgerOf(j)
          /\ idea[j].task # 0 => tasks[idea[j].task] = j
          /\ \A n \in Ids : tasks[n] = j => idea[j].task # 0
      BY <2>0, <3>1, AloneAt
    <3>3. /\ req[q].idea = idea[j]
          /\ req[q].at = "swipeIdea" => idea[j].decision = "none"
          /\ req[q].at = "promoteIdea" => idea[j].decision = "maybe" /\ req[q].decision = "yes"
      BY <1>1, <3>1, <3>2 DEF LedgerOf, Current
    <3>4. Halfway(req[q], j)'
      <4>1. CASE req[q].at = "swipeIdea"
        <5>1. j \notin pool /\ swipes[j] = <<>> /\ ~idea[j].manual
          BY <3>2, <3>3, <4>1 DEF Settled, Decisions
        <5> QED
          BY <1>1, <1>2, <1>3, <1>4, <3>1, <3>3, <4>1, <5>1 DEF Halfway
      <4>2. CASE req[q].at = "promoteIdea"
        <5>1. swipes[j] = <<"maybe">> /\ ~idea[j].manual
          BY <3>2, <3>3, <4>2 DEF Settled, Decisions
        <5> QED
          BY <1>1, <1>2, <1>3, <1>4, <3>1, <3>3, <4>2, <5>1 DEF Halfway
      <4> QED
        BY <1>1, <4>1, <4>2
    <3>5. Current(req[q], j)'
      BY <1>2, <1>4, <3>4 DEF Current
    <3>6. TasksOf(j)'
      BY <1>1, <1>3, <3>1, <3>2, <3>3 DEF TasksOf
    <3> QED
      BY <1>5, <3>1, <3>5, <3>6, AloneStep
  <2> QED
    BY <2>1, <2>2
<1> QED
  BY <1>7, <1>8, <1>9 DEF AutoInv, LedgerInv

LEMMA LinkTaskKeeps ==
    ASSUME AutoInv, NEW q \in Requests, LinkTask(q)
    PROVE  AutoInv'
<1> DEFINE i == req[q].i
           saved == [req[q].idea EXCEPT !.task = req[q].n]
<1>1. /\ req[q].at = "link" /\ req[q] \in Request /\ req[q].n \in Ids \cup {0}
      /\ i \in Ids /\ req[q].idea \in IdeaRow
      /\ SaveIdea(q, i, saved)
      /\ product' = product /\ pool' = pool /\ swipes' = swipes /\ tasks' = tasks
      /\ counter' = counter /\ clock' = clock /\ events' = events
  BY AutoTypes DEF LinkTask, At, Request
<1>2. req' \in [Requests -> Request] /\ req'[q] = Idle /\ Only(q)
  BY AutoTypes, Finishes DEF LinkTask
<1>3. /\ saved \in IdeaRow /\ saved.decision = req[q].idea.decision
      /\ saved.manual = req[q].idea.manual /\ saved.task = req[q].n
  BY <1>1 DEF IdeaRow
<1> HIDE DEF saved
<1>6. /\ idea' \in [Ids -> IdeaRow] /\ \A j \in Ids : j # i => idea'[j] = idea[j]
      /\ crossed' \subseteq Ids /\ crossed \subseteq crossed' /\ idea'[i] = saved
      /\ i \notin crossed' => \A r \in Requests : r # q => ~AtIt(req[r], i)
  BY <1>1, <1>3, SavedIdea
<1>7. AutopilotTypeOK'
  BY <1>1, <1>2, <1>6, AutoTypes DEF AutopilotTypeOK
<1>8. StampInv'
  BY <1>1, <1>2, <1>7, IdleIs, KeepsStamps
<1>9. ASSUME NEW j \in Ids, j \notin crossed'
      PROVE  LedgerOf(j)'
  <2>0. j \notin crossed
    BY <1>6, <1>9
  <2>1. CASE j # i
    BY <1>1, <1>2, <1>6, <2>0, <2>1, IdleIs, OtherIdea DEF AtIt
  <2>2. CASE j = i
    <3>1. /\ \A r \in Requests : r # q => ~AtIt(req[r], j)
          /\ req[q].at \notin Half /\ ~AtIt(req'[q], j) /\ AtIt(req[q], j)
          /\ idea'[j] = saved
      BY <1>1, <1>2, <1>6, <1>9, <2>2, IdleIs, PlaceKinds DEF Half, AtIt
    <3>2. Settled(j) /\ LedgerOf(j)
      BY <2>0, <3>1, AloneAt
    <3>3. /\ req[q].idea = idea[j] /\ req[q].n # 0 /\ tasks[req[q].n] = j
      BY <1>1, <3>1, <3>2 DEF LedgerOf, Current
    <3>4. Settled(j)'
      BY <1>1, <1>3, <3>1, <3>2, <3>3 DEF Settled
    <3>5. TasksOf(j)'
      BY <1>1, <1>3, <3>1, <3>3 DEF TasksOf
    <3> QED
      BY <1>2, <3>1, <3>4, <3>5, AloneStep
  <2> QED
    BY <2>1, <2>2
<1> QED
  BY <1>7, <1>8, <1>9 DEF AutoInv, LedgerInv

LEMMA SavePatchedIdeaKeeps ==
    ASSUME AutoInv, NEW q \in Requests, SavePatchedIdea(q)
    PROVE  AutoInv'
<1> DEFINE i == req[q].i
           saved == req[q].idea
<1>1. /\ req[q].at = "patchIdea" /\ req[q] \in Request
      /\ i \in Ids /\ saved \in IdeaRow
      /\ SaveIdea(q, i, saved)
      /\ product' = product /\ pool' = pool /\ swipes' = swipes /\ tasks' = tasks
      /\ counter' = counter /\ clock' = clock /\ events' = events
  BY AutoTypes DEF SavePatchedIdea, At, Request
<1>2. req' \in [Requests -> Request] /\ req'[q] = Idle /\ Only(q)
  BY AutoTypes, Finishes DEF SavePatchedIdea
<1>6. /\ idea' \in [Ids -> IdeaRow] /\ \A j \in Ids : j # i => idea'[j] = idea[j]
      /\ crossed' \subseteq Ids /\ crossed \subseteq crossed' /\ idea'[i] = saved
      /\ i \notin crossed' => \A r \in Requests : r # q => ~AtIt(req[r], i)
  BY <1>1, SavedIdea
<1>7. AutopilotTypeOK'
  BY <1>1, <1>2, <1>6, AutoTypes DEF AutopilotTypeOK
<1>8. StampInv'
  BY <1>1, <1>2, <1>7, IdleIs, KeepsStamps
<1>9. ASSUME NEW j \in Ids, j \notin crossed'
      PROVE  LedgerOf(j)'
  <2>0. j \notin crossed
    BY <1>6, <1>9
  <2>1. CASE j # i
    BY <1>1, <1>2, <1>6, <2>0, <2>1, IdleIs, OtherIdea DEF AtIt
  <2>2. CASE j = i
    <3>1. /\ \A r \in Requests : r # q => ~AtIt(req[r], j)
          /\ req[q].at \notin Half /\ ~AtIt(req'[q], j) /\ AtIt(req[q], j)
          /\ idea'[j] = req[q].idea
      BY <1>1, <1>2, <1>6, <1>9, <2>2, IdleIs, PlaceKinds DEF Half, AtIt
    <3>2. /\ Settled(j) /\ LedgerOf(j)
          /\ idea[j].task # 0 => tasks[idea[j].task] = j
          /\ \A n \in Ids : tasks[n] = j =>
               idea[j].task # 0 \/ (AtIt(req[q], j) /\ req[q].at = "link")
      BY <2>0, <3>1, AloneAt
    <3>3. req[q].idea = idea[j]
      BY <1>1, <3>1, <3>2 DEF LedgerOf, Current
    <3>4. Settled(j)'
      BY <1>1, <3>1, <3>2, <3>3 DEF Settled
    <3>5. TasksOf(j)'
      BY <1>1, <3>1, <3>2, <3>3 DEF TasksOf
    <3> QED
      BY <1>2, <3>1, <3>4, <3>5, AloneStep
  <2> QED
    BY <2>1, <2>2
<1> QED
  BY <1>7, <1>8, <1>9 DEF AutoInv, LedgerInv

\* A new idea: unless the id was in use, its ledgers are empty.
LEMMA NewIdea ==
    ASSUME AutoInv, NEW q \in Requests, NEW n \in Ids, NEW saved \in IdeaRow,
           InsertIdea(q, n, saved), n \notin crossed', req[q].at \notin AtIdea
    PROVE  /\ n \notin crossed /\ \A r \in Requests : r # q => ~AtIt(req[r], n)
           /\ n \notin pool /\ swipes[n] = <<>> /\ \A m \in Ids : tasks[m] # n
<1>1. /\ crossed \subseteq crossed'
      /\ \A r \in Requests : r # q => ~AtIt(req[r], n)
      /\ SaveIdea(q, n, saved) \/ idea[n] = Absent
  BY SavedIdea
<1>2. idea[n] = Absent
  BY DEF InsertIdea
<1>3. req[q].at \notin Half /\ ~AtIt(req[q], n)
  BY DEF Half, AtIdea, HalfDone, AtIt
<1>4. /\ Settled(n)
      /\ \A m \in Ids : tasks[m] = n => idea[n].task # 0 \/ AtIt(req[q], n)
  BY <1>1, <1>3, AloneAt
<1>5. n \notin pool /\ swipes[n] = <<>>
  BY <1>2, <1>4, RowsTyped DEF Settled, Decisions
<1> QED
  BY <1>1, <1>2, <1>3, <1>4, <1>5, RowsTyped

LEMMA SaveDraftKeeps ==
    ASSUME AutoInv, NEW q \in Requests, SaveDraft(q)
    PROVE  AutoInv'
<1>1. PICK n \in Ids : Draw(req[q].home, n) /\ InsertIdea(q, n, Pending)
  BY DEF SaveDraft
<1>2. /\ req[q].at = "drafts" /\ req[q] \in Request /\ req[q].home \in Processes
      /\ req[q].drafts \in Nat
      /\ req' = [req EXCEPT ![q].drafts = req[q].drafts + 1]
      /\ product' = product /\ pool' = pool /\ swipes' = swipes /\ tasks' = tasks
      /\ clock' = clock /\ events' = events
  BY AutoTypes DEF SaveDraft, At, Request
<1>3. req[q].drafts + 1 \in Nat
  BY <1>2
<1>4. /\ req'[q] \in Request /\ req'[q].at = "drafts"
      /\ req'[q].stamp = req[q].stamp /\ req'[q].row = req[q].row
  BY <1>2, <1>3, AutoTypes DEF Request
<1>5. req' \in [Requests -> Request] /\ Only(q)
  BY <1>2, <1>4, AutoTypes DEF Only
<1>6. /\ idea' \in [Ids -> IdeaRow] /\ \A j \in Ids : j # n => idea'[j] = idea[j]
      /\ crossed' \subseteq Ids /\ crossed \subseteq crossed' /\ idea'[n] = Pending
  BY <1>1, RowsTyped, SavedIdea
<1>7. counter' \in [Processes -> 0 .. MaxId]
  BY <1>1, <1>2, IdsAre, AutoTypes DEF Draw, Ids, AutopilotTypeOK
<1>8. AutopilotTypeOK'
  BY <1>2, <1>5, <1>6, <1>7, AutoTypes DEF AutopilotTypeOK
<1>9. StampInv'
  BY <1>2, <1>4, <1>5, <1>8, PlaceKinds, KeepsStamps
<1>10. \A j \in Ids : ~AtIt(req[q], j) /\ ~AtIt(req'[q], j)
  BY <1>2, <1>4, PlaceKinds DEF AtIt
<1>11. ASSUME NEW j \in Ids, j \notin crossed'
       PROVE  LedgerOf(j)'
  <2>1. CASE j # n
    BY <1>2, <1>5, <1>6, <1>10, <1>11, <2>1, OtherIdea
  <2>2. CASE j = n
    <3>1. /\ \A r \in Requests : r # q => ~AtIt(req[r], j)
          /\ j \notin pool /\ swipes[j] = <<>> /\ \A m \in Ids : tasks[m] # j
      BY <1>1, <1>2, <1>11, <2>2, RowsTyped, PlaceKinds, NewIdea
    <3>2. Settled(j)'
      BY <1>2, <1>6, <2>2, <3>1, RowsTyped DEF Settled, Decisions
    <3>3. TasksOf(j)'
      BY <1>2, <1>6, <2>2, <3>1, RowsTyped DEF TasksOf
    <3> QED
      BY <1>5, <1>10, <3>1, <3>2, <3>3, AloneStep
  <2> QED
    BY <2>1, <2>2
<1> QED
  BY <1>8, <1>9, <1>11 DEF AutoInv, LedgerInv

LEMMA SaveManualIdeaKeeps ==
    ASSUME AutoInv, NEW q \in Requests, SaveManualIdea(q)
    PROVE  AutoInv'
<1> DEFINE saved == [decision |-> "yes", manual |-> TRUE, task |-> 0]
<1>1. PICK n \in Ids :
        /\ IF req[q].n = 0 THEN Draw("server", n) ELSE n = req[q].n /\ UNCHANGED counter
        /\ InsertIdea(q, n, saved)
        /\ req' = [req EXCEPT ![q].at = "manual", ![q].i = n]
  BY DEF SaveManualIdea
<1>2. /\ req[q].at = "spec"
      /\ product' = product /\ pool' = pool /\ swipes' = swipes /\ tasks' = tasks
      /\ clock' = clock /\ events' = events
  BY DEF SaveManualIdea, At
<1>3. saved \in IdeaRow /\ saved.decision = "yes" /\ saved.manual = TRUE /\ saved.task = 0
  BY DEF IdeaRow, Decisions
<1> HIDE DEF saved
<1>4. req'[q] \in Request /\ req'[q].at = "manual" /\ req'[q].i = n
  BY <1>1, AutoTypes, PlaceNames DEF Request
<1>5. req' \in [Requests -> Request] /\ Only(q)
  BY <1>1, <1>4, AutoTypes DEF Only
<1>6. /\ idea' \in [Ids -> IdeaRow] /\ \A j \in Ids : j # n => idea'[j] = idea[j]
      /\ crossed' \subseteq Ids /\ crossed \subseteq crossed' /\ idea'[n] = saved
  BY <1>1, <1>3, SavedIdea
<1>7. counter' \in [Processes -> 0 .. MaxId]
  <2>1. CASE counter' = counter
    BY <2>1, AutoTypes DEF AutopilotTypeOK
  <2>2. CASE Draw("server", n)
    BY <2>2, IdsAre, AutoTypes DEF Draw, Ids, AutopilotTypeOK, Processes
  <2> QED
    BY <1>1, <2>1, <2>2
<1>8. AutopilotTypeOK'
  BY <1>2, <1>5, <1>6, <1>7, AutoTypes DEF AutopilotTypeOK
<1>9. StampInv'
  BY <1>2, <1>4, <1>5, <1>8, PlaceKinds, KeepsStamps
<1>10. \A j \in Ids : ~AtIt(req[q], j) /\ (j # n => ~AtIt(req'[q], j))
  BY <1>2, <1>4, PlaceKinds DEF AtIt
<1>11. ASSUME NEW j \in Ids, j \notin crossed'
       PROVE  LedgerOf(j)'
  <2>1. CASE j # n
    BY <1>2, <1>5, <1>6, <1>10, <1>11, <2>1, OtherIdea
  <2>2. CASE j = n
    <3>1. /\ \A r \in Requests : r # q => ~AtIt(req[r], j)
          /\ j \notin pool /\ swipes[j] = <<>> /\ \A m \in Ids : tasks[m] # j
      BY <1>1, <1>2, <1>3, <1>11, <2>2, PlaceKinds, NewIdea
    <3>2. Settled(j)'
      BY <1>2, <1>3, <1>6, <2>2, <3>1 DEF Settled, Decisions
    <3>3. TasksOf(j)'
      BY <1>2, <1>3, <1>6, <2>2, <3>1 DEF TasksOf
    <3>4. Current(req[q], j)'
      BY <1>4, PlaceKinds DEF Current
    <3> QED
      BY <1>5, <3>1, <3>2, <3>3, <3>4, AloneStep
  <2> QED
    BY <2>1, <2>2
<1> QED
  BY <1>8, <1>9, <1>11 DEF AutoInv, LedgerInv

LEMMA SaveTaskKeeps ==
    ASSUME AutoInv, NEW q \in Requests, SaveTask(q)
    PROVE  AutoInv'
<1> DEFINE i == req[q].i
<1>1. PICK n \in Ids :
         /\ Draw("server", n)
         /\ tasks' = [tasks EXCEPT ![n] = i]
         /\ crossed' = crossed \cup ({tasks[n]} \ {0})
         /\ req' = [req EXCEPT ![q] = [Idle EXCEPT !.at = "link", !.i = req[q].i, !.n = n,
                                                   !.idea = req[q].idea]]
  BY DEF SaveTask
<1>2. /\ req[q].at = "task" /\ req[q] \in Request /\ i \in Ids /\ req[q].idea \in IdeaRow
      /\ product' = product /\ idea' = idea /\ pool' = pool /\ swipes' = swipes
      /\ clock' = clock /\ events' = events
  BY AutoTypes DEF SaveTask, At, Request
<1> DEFINE u == [Idle EXCEPT !.at = "link", !.i = req[q].i, !.n = n, !.idea = req[q].idea]
<1>3. u \in Request /\ u.at = "link" /\ u.i = i /\ u.n = n /\ u.idea = req[q].idea
  BY <1>2, IdleIs, PlaceNames DEF Request
<1>4. req' = [req EXCEPT ![q] = u]
  BY <1>1
<1> HIDE DEF u
<1>5. req' \in [Requests -> Request] /\ req'[q] = u /\ Only(q)
  BY <1>3, <1>4, AutoTypes, Becomes
<1>6. tasks \in [Ids -> Ids \cup {0}] /\ crossed \subseteq Ids /\ n # 0
  BY IdsAre, AutoTypes DEF AutopilotTypeOK
<1>7. /\ tasks' \in [Ids -> Ids \cup {0}] /\ crossed' \subseteq Ids /\ crossed \subseteq crossed'
      /\ tasks'[n] = i /\ \A m \in Ids : m # n => tasks'[m] = tasks[m]
      /\ \A j \in Ids : j \notin crossed' => tasks[n] # j
  BY <1>1, <1>2, <1>6, IdsAre
<1>8. counter' \in [Processes -> 0 .. MaxId]
  BY <1>1, IdsAre, AutoTypes DEF Draw, Ids, AutopilotTypeOK, Processes
<1>9. AutopilotTypeOK'
  BY <1>2, <1>5, <1>7, <1>8, AutoTypes DEF AutopilotTypeOK
<1>10. ~HasRead(req'[q]) /\ ~Stamps(req'[q])
  BY <1>3, <1>5, PlaceKinds
<1>11. StampInv'
  BY <1>2, <1>5, <1>9, <1>10, KeepsStamps
<1>12. ASSUME NEW j \in Ids, j \notin crossed'
       PROVE  LedgerOf(j)'
  <2>0. j \notin crossed /\ tasks[n] # j
    BY <1>7, <1>12
  <2>1. CASE j # i
    <3>1. \A m \in Ids : tasks'[m] = j <=> tasks[m] = j
      BY <1>7, <2>0, <2>1
    <3>2. ~AtIt(req[q], j) /\ ~AtIt(req'[q], j)
      BY <1>3, <1>5, <2>1 DEF AtIt
    <3> QED
      BY <1>2, <1>5, <2>0, <3>1, <3>2, OtherIdea
  <2>2. CASE j = i
    <3>1. /\ LedgerOf(j) /\ AtIt(req[q], j)
          /\ req[q].at \notin Half /\ req'[q].at \notin Half
      BY <1>2, <1>3, <1>5, <2>0, <2>2, PlaceKinds DEF AutoInv, LedgerInv, AtIt, Half
    <3>2. /\ req[q].idea = idea[j] /\ idea[j].decision = "yes"
      BY <1>2, <3>1 DEF LedgerOf, Current
    <3>3. tasks'[n] = j /\ \A m \in Ids : tasks[m] = j => tasks'[m] = j
      BY <1>7, <2>2
    <3>4. \A r \in Requests : AtIt(req'[r], j) => Current(req[r], j)'
      <4> TAKE r \in Requests
      <4> HAVE AtIt(req'[r], j)
      <4>1. CASE r = q
        BY <1>2, <1>3, <1>5, <1>6, <3>1, <3>2, <3>3, <4>1 DEF Current
      <4>2. CASE r # q
        <5>1. req'[r] = req[r] /\ req[r].n \in Ids \cup {0}
          BY <1>5, <4>2, AutoTypes DEF Only, Request
        <5>2. Current(req[r], j)
          BY <3>1, <5>1 DEF LedgerOf
        <5>3. req[r].at \in Half => Halfway(req[r], j)'
          BY <1>2, <5>1, <5>2 DEF Current, Halfway
        <5>4. req[r].at = "link" => req[r].n # 0 /\ tasks'[req[r].n] = j
          BY <3>3, <5>1, <5>2 DEF Current
        <5> QED
          BY <1>2, <5>1, <5>2, <5>3, <5>4 DEF Current
      <4> QED
        BY <4>1, <4>2
    <3>5. \A r \in Requests : req'[r].at \in Half => req'[r] = req[r]
      BY <1>5, <3>1 DEF Only
    <3>6. \A p, r \in Requests : /\ req'[p].at \in Half /\ req'[p].i = j
                                 /\ req'[r].at \in Half /\ req'[r].i = j
                                 => p = r
      BY <3>1, <3>5 DEF LedgerOf
    <3>7. (\A r \in Requests : req'[r].at \in Half => req'[r].i # j) => Settled(j)'
      <4>1. \A r \in Requests : req[r].at \in Half => req'[r] = req[r]
        BY <1>5, <3>1 DEF Only
      <4> QED
        BY <1>2, <3>1, <4>1 DEF LedgerOf, Settled
    <3>8. TasksOf(j)'
      <4>1. \E r \in Requests : req'[r].at = "link" /\ req'[r].i = j
        BY <1>3, <1>5, <2>2
      <4>2. idea[j].task # 0 => tasks'[idea[j].task] = j
        <5>1. idea[j].task # 0 => idea[j].task \in Ids /\ tasks[idea[j].task] = j
          BY <3>1, AutoTypes DEF LedgerOf, TasksOf, IdeaRow
        <5> QED
          BY <3>3, <5>1
      <4> QED
        BY <1>2, <4>1, <4>2 DEF TasksOf
    <3> QED
      BY <3>4, <3>6, <3>7, <3>8 DEF LedgerOf
  <2> QED
    BY <2>1, <2>2
<1> QED
  BY <1>9, <1>11, <1>12 DEF AutoInv, LedgerInv

(***************************************************************************)
(* The product at once; the end of a request, or of a process.             *)
(***************************************************************************)
LEMMA SameLedgers ==
    ASSUME AutoInv, req' \in [Requests -> Request], crossed \subseteq crossed',
           crossed' \subseteq Ids,
           idea' = idea, pool' = pool, swipes' = swipes, tasks' = tasks,
           \A r \in Requests :
             \/ req'[r] = req[r]
             \/ /\ req'[r] = Idle
                /\ req[r].at \in HalfDone => req[r].i \in crossed'
    PROVE  LedgerInv'
<1>1. ASSUME NEW j \in Ids, j \notin crossed'
      PROVE  LedgerOf(j)'
  <2>1. LedgerOf(j)
    BY <1>1 DEF AutoInv, LedgerInv
  <2>2. \A p \in Half \cup {"link"} : p \in HalfDone
    BY DEF Half, HalfDone
  <2>3. \A r \in Requests :
          \/ req'[r] = req[r]
          \/ /\ AtIt(req'[r], j) => req'[r].at \notin Half \cup {"link"} /\ Current(req'[r], j)
             /\ AtIt(req[r], j) => req[r].at \notin Half \cup {"link"}
    BY <1>1, <2>2, IdleIs DEF AtIt
  <2> QED
    BY <2>1, <2>3, AutoTypes, Elsewhere
<1> QED
  BY <1>1 DEF LedgerInv

LEMMA AtOnceKeeps ==
    ASSUME AutoInv, AtOnce, counter' \in [Processes -> 0 .. MaxId],
           product' \in ProductRow,
           product' = product \/ product'.at = clock + 1
    PROVE  AutoInv'
<1>1. /\ idea' = idea /\ pool' = pool /\ swipes' = swipes /\ tasks' = tasks /\ req' = req
      /\ crossed' = crossed /\ clock' = clock + 1
      /\ events' \in [requests : 0 .. MaxEvents, upsets : 0 .. MaxUpsets]
  BY AutoTypes, EventsCount DEF AtOnce
<1>2. AutopilotTypeOK'
  BY <1>1, AutoTypes DEF AutopilotTypeOK
<1>3. StampInv'
  <2>1. StampInv /\ clock <= clock'
    BY <1>1, AutoTypes DEF AutoInv
  <2> QED
    BY <1>1, <1>2, <2>1, AutoTypes, StampStep
<1>4. LedgerInv'
  BY <1>1, AutoTypes, SameLedgers DEF AutopilotTypeOK
<1> QED
  BY <1>2, <1>3, <1>4 DEF AutoInv

LEMMA SoftDeleteKeeps == ASSUME AutoInv, SoftDelete PROVE AutoInv'
<1>1. product' \in ProductRow /\ product'.at = clock + 1
  BY AutoTypes DEF SoftDelete, ProductRow
<1>2. counter' \in [Processes -> 0 .. MaxId] /\ AtOnce
  BY AutoTypes DEF SoftDelete, AutopilotTypeOK
<1> QED
  BY <1>1, <1>2, AtOnceKeeps

LEMMA RestoreKeeps == ASSUME AutoInv, Restore PROVE AutoInv'
<1>1. product' \in ProductRow /\ product'.at = clock + 1
  BY AutoTypes DEF Restore, ProductRow
<1>2. counter' \in [Processes -> 0 .. MaxId] /\ AtOnce
  BY AutoTypes DEF Restore, AutopilotTypeOK
<1> QED
  BY <1>1, <1>2, AtOnceKeeps

LEMMA RegisterKeeps == ASSUME AutoInv, Register PROVE AutoInv'
<1>1. PICK n \in Ids : /\ Draw("server", n)
                       /\ product' = IF n = TheProduct THEN Registered(clock + 1) ELSE product
  BY DEF Register
<1>2. counter' \in [Processes -> 0 .. MaxId] /\ AtOnce
  BY <1>1, IdsAre, AutoTypes DEF Draw, Ids, AutopilotTypeOK, Processes, Register
<1>3. product' \in ProductRow /\ (product' = product \/ product'.at = clock + 1)
  BY <1>1, AutoTypes, RowsTyped
<1> QED
  BY <1>2, <1>3, AtOnceKeeps

LEMMA EndsKeep ==
    ASSUME AutoInv, Upset, req' \in [Requests -> Request],
           counter' \in [Processes -> 0 .. MaxId], clock' = clock,
           product' = product, idea' = idea, pool' = pool, swipes' = swipes, tasks' = tasks,
           crossed \subseteq crossed', crossed' \subseteq Ids,
           \A r \in Requests :
             \/ req'[r] = req[r]
             \/ /\ req'[r] = Idle
                /\ req[r].at \in HalfDone => req[r].i \in crossed'
    PROVE  AutoInv'
<1>1. events' \in [requests : 0 .. MaxEvents, upsets : 0 .. MaxUpsets]
  BY AutoTypes, EventsCount
<1>2. AutopilotTypeOK'
  BY <1>1, AutoTypes DEF AutopilotTypeOK
<1>3. StampInv'
  <2>1. StampInv /\ clock <= clock'
    BY AutoTypes DEF AutoInv
  <2>2. \A r \in Requests : HasRead(req'[r]) => HasRead(req[r]) /\ req'[r].row = req[r].row
    BY IdleIs
  <2>3. \A r \in Requests : Stamps(req'[r]) => Stamps(req[r]) /\ req'[r].stamp = req[r].stamp
    BY IdleIs
  <2> QED
    BY <1>2, <2>1, <2>2, <2>3, AutoTypes, StampStep
<1>4. LedgerInv'
  BY SameLedgers
<1> QED
  BY <1>2, <1>3, <1>4 DEF AutoInv

LEMMA AbandonKeeps ==
    ASSUME AutoInv, NEW q \in Requests, Abandon(q)
    PROVE  AutoInv'
<1>1. /\ Upset /\ crossed' = crossed \cup Orphaned({q}) /\ Finish(q) /\ clock' = clock
      /\ product' = product /\ idea' = idea /\ pool' = pool /\ swipes' = swipes /\ tasks' = tasks
      /\ counter' \in [Processes -> 0 .. MaxId]
  BY AutoTypes DEF Abandon, AutopilotTypeOK
<1>2. req' \in [Requests -> Request] /\ req'[q] = Idle /\ Only(q)
  BY <1>1, AutoTypes, Finishes
<1>3. crossed \subseteq crossed' /\ crossed' \subseteq Ids
  BY <1>1, AutoTypes DEF Orphaned, AutopilotTypeOK, Request
<1>4. req[q].at \in HalfDone => req[q].i \in crossed'
  BY <1>1 DEF Orphaned
<1> QED
  BY <1>1, <1>2, <1>3, <1>4, EndsKeep DEF Only

LEMMA RestartKeeps ==
    ASSUME AutoInv, NEW p \in Processes, Restart(p)
    PROVE  AutoInv'
<1> DEFINE Q == {q \in Requests : req[q].home = p}
<1>1. /\ Upset /\ crossed' = crossed \cup Orphaned(Q) /\ clock' = clock
      /\ product' = product /\ idea' = idea /\ pool' = pool /\ swipes' = swipes /\ tasks' = tasks
      /\ req' = [q \in Requests |-> IF req[q].home = p THEN Idle ELSE req[q]]
      /\ counter' = [counter EXCEPT ![p] = 0]
  BY DEF Restart
<1>2. req' \in [Requests -> Request] /\ counter' \in [Processes -> 0 .. MaxId]
  BY <1>1, IdsAre, IdleIs, AutoTypes DEF AutopilotTypeOK
<1>3. crossed \subseteq crossed' /\ crossed' \subseteq Ids
  BY <1>1, AutoTypes DEF Orphaned, AutopilotTypeOK, Request
<1>4. \A r \in Q : req[r].at \in HalfDone => req[r].i \in crossed'
  BY <1>1 DEF Orphaned
<1>5. \A r \in Requests :
        \/ req'[r] = req[r]
        \/ /\ req'[r] = Idle
           /\ req[r].at \in HalfDone => req[r].i \in crossed'
  BY <1>1, <1>4
<1> QED
  BY <1>1, <1>2, <1>3, <1>5, EndsKeep

LEMMA AutopilotStarts == ASSUME AutopilotInit PROVE AutoInv
<1>1. /\ swipes = [i \in Ids |-> IF i \in pool THEN <<"maybe">> ELSE <<>>]
      /\ tasks = [i \in Ids |-> 0] /\ clock = 1 /\ req = [q \in Requests |-> Idle]
      /\ events = [requests |-> 0, upsets |-> 0] /\ crossed = {}
  BY DEF AutopilotInit
<1>2. product \in ProductRow /\ product.at = 1
  <2>1. PICK gone \in BOOLEAN :
           \/ product = [Registered(1) EXCEPT !.deleted = gone]
           \/ product = [Registered(1) EXCEPT !.stage = "swipe", !.deleted = gone]
    BY DEF AutopilotInit
  <2> DEFINE r == Registered(1)
  <2>2. r \in ProductRow /\ r.at = 1
    BY RowsTyped
  <2>3. \/ product = [r EXCEPT !.deleted = gone]
        \/ product = [r EXCEPT !.stage = "swipe", !.deleted = gone]
    BY <2>1
  <2> HIDE DEF r
  <2> QED
    BY <2>2, <2>3 DEF ProductRow, Stages
<1>3. counter \in [Processes -> 0 .. MaxId]
  <2>1. \/ counter = [p \in Processes |-> IF p = "server" THEN TheProduct ELSE 0]
        \/ counter = [p \in Processes |-> 1]
    BY DEF AutopilotInit
  <2> QED
    BY <2>1, IdsAre DEF TheProduct, Ids
<1>4. /\ idea \in [Ids -> IdeaRow] /\ pool \subseteq Ids
      /\ \A i \in Ids : /\ ~idea[i].manual /\ idea[i].task = 0
                        /\ idea[i].decision \in {"absent", "none", "maybe"}
                        /\ i \in pool <=> idea[i].decision = "maybe"
  <2>1. CASE idea = [i \in Ids |-> Absent] /\ pool = {}
    BY <2>1, RowsTyped
  <2>2. ASSUME NEW d \in {"none", "maybe"},
               idea = [i \in Ids |-> IF i = 1 THEN [Absent EXCEPT !.decision = d] ELSE Absent],
               pool = IF d = "maybe" THEN {1} ELSE {}
        PROVE  <1>4!1 /\ <1>4!2
    <3> DEFINE one == [Absent EXCEPT !.decision = d]
    <3>1. one \in IdeaRow /\ one.decision = d /\ one.manual = FALSE /\ one.task = 0
      BY RowsTyped DEF Absent, IdeaRow, Decisions
    <3> HIDE DEF one
    <3>2. idea = [i \in Ids |-> IF i = 1 THEN one ELSE Absent]
      BY <2>2 DEF one
    <3> QED
      BY <2>2, <3>1, <3>2, RowsTyped, IdsAre
  <2>3. \/ idea = [i \in Ids |-> Absent] /\ pool = {}
        \/ \E d \in {"none", "maybe"} :
             /\ idea = [i \in Ids |-> IF i = 1 THEN [Absent EXCEPT !.decision = d] ELSE Absent]
             /\ pool = IF d = "maybe" THEN {1} ELSE {}
    BY DEF AutopilotInit
  <2> QED
    BY <2>1, <2>2, <2>3
<1>5. \A i \in Ids : /\ swipes[i] = (IF i \in pool THEN <<"maybe">> ELSE <<>>)
                     /\ tasks[i] = 0
  BY <1>1
<1>6. \A q \in Requests : req[q] = Idle
  BY <1>1
<1>7. AutopilotTypeOK
  <2>0. <<"maybe">> \in Seq(Decisions) /\ <<>> \in Seq(Decisions)
    BY DEF Decisions
  <2>1. swipes \in [Ids -> Seq(Decisions)]
    <3> DEFINE one == <<"maybe">>
    <3>1. one \in Seq(Decisions) /\ swipes = [i \in Ids |-> IF i \in pool THEN one ELSE <<>>]
      BY <1>1, <2>0
    <3> HIDE DEF one
    <3> QED
      BY <2>0, <3>1
  <2>2. /\ tasks \in [Ids -> Ids \cup {0}] /\ req \in [Requests -> Request]
        /\ clock \in Nat /\ crossed \subseteq Ids
    BY <1>1, IdleIs
  <2>3. events \in [requests : 0 .. MaxEvents, upsets : 0 .. MaxUpsets]
    BY <1>1, AutopilotAssumption
  <2> QED
    BY <1>2, <1>3, <1>4, <2>1, <2>2, <2>3 DEF AutopilotTypeOK
<1>8. StampInv
  BY <1>1, <1>2, <1>6, IdleIs DEF StampInv, StampsFresh, RowsIdentified
<1>9. ASSUME NEW i \in Ids
      PROVE  LedgerOf(i)
  <2>1. \A q \in Requests : ~AtIt(req[q], i) /\ req[q].at \notin Half
    BY <1>6, IdleIs DEF AtIt
  <2>2. Settled(i)
    BY <1>4, <1>5 DEF Settled, Decisions
  <2>3. TasksOf(i)
    BY <1>4, <1>5, IdsAre DEF TasksOf
  <2> QED
    BY <2>1, <2>2, <2>3 DEF LedgerOf
<1> QED
  BY <1>7, <1>8, <1>9 DEF AutoInv, LedgerInv

LEMMA AutopilotSteps == ASSUME AutoInv, [AutopilotNext]_autoVars PROVE AutoInv'
<1>1. CASE UNCHANGED autoVars
  <2>1. /\ product' = product /\ idea' = idea /\ pool' = pool /\ swipes' = swipes
        /\ tasks' = tasks /\ counter' = counter /\ clock' = clock /\ req' = req
        /\ events' = events /\ crossed' = crossed
    BY <1>1 DEF autoVars
  <2>2. AutopilotTypeOK'
    BY <2>1, AutoTypes DEF AutopilotTypeOK
  <2>3. StampInv'
    BY <2>1, AutoTypes DEF AutoInv, StampInv, StampsFresh, RowsIdentified
  <2>4. LedgerInv'
    BY <2>1, AutoTypes, SameLedgers DEF AutopilotTypeOK
  <2> QED
    BY <2>2, <2>3, <2>4 DEF AutoInv
<1>2. ASSUME NEW q \in Requests, Research(q)
      PROVE  AutoInv'
  BY <1>2, RunResearchKeeps, SaveResearchKeeps, RunIdeationKeeps, GenerateIdeasKeeps,
     SaveDraftKeeps, SaveIdeationKeeps, ReadToStampKeeps, SaveStampKeeps, TickGoesOnKeeps,
     TickEndsKeeps DEF Research
<1>3. ASSUME NEW q \in Requests, Swipes(q)
      PROVE  AutoInv'
  <2>1. ASSUME SaveSwipedProduct(q)
        PROVE  AutoInv'
    BY <2>1, SwipedProductKeeps, PromotedProductKeeps DEF SaveSwipedProduct, At
  <2> QED
    BY <1>3, <2>1, SubmitSwipeKeeps, PromoteMaybeKeeps, ReadProductKeeps, SaveDecisionKeeps,
       UpdatePoolKeeps, AppendSwipeKeeps DEF Swipes
<1>4. ASSUME NEW q \in Requests, Edits(q)
      PROVE  AutoInv'
  BY <1>4, CreateFromApprovedIdeaKeeps, PatchIdeaMetadataKeeps, SaveTaskKeeps, LinkTaskKeeps,
     CreateFromSpecWithNewIdeaKeeps, SaveManualIdeaKeeps, ReadManualIdeaKeeps,
     SavePatchedIdeaKeeps, PatchMetadataKeeps, SavePatchKeeps DEF Edits
<1> QED
  BY <1>1, <1>2, <1>3, <1>4, AbandonKeeps, SoftDeleteKeeps, RestoreKeeps, RegisterKeeps,
     RestartKeeps DEF AutopilotNext

LEMMA AutopilotAlways == AutopilotSpec => []AutoInv
<1>1. AutopilotInit => AutoInv
  BY AutopilotStarts
<1>2. AutoInv /\ [AutopilotNext]_autoVars => AutoInv'
  BY AutopilotSteps
<1> QED
  BY <1>1, <1>2, PTL DEF AutopilotSpec

(* Every variable of the autopilot keeps its type.                         *)
THEOREM AutopilotTypeCorrect == AutopilotSpec => []AutopilotTypeOK
<1>1. AutoInv => AutopilotTypeOK
  BY DEF AutoInv
<1> QED
  BY <1>1, AutopilotAlways, PTL

(* The guard of SaveIfUnchangedSince, which compares a time only, tells    *)
(* rows apart for any number of requests, faults and restarts: no writer   *)
(* saves the product under an updated_at that another row has or had in    *)
(* the hands of a request.                                                 *)
THEOREM StampsIdentifyRows == AutopilotSpec => []StampIdentifiesRow
<1>1. AutoInv => StampIdentifiesRow
  <2> SUFFICES ASSUME AutoInv, NEW q \in Requests,
                      req[q].at \in WithProduct, req[q].row.at = product.at
               PROVE  [req[q].row EXCEPT !.auto = FALSE] = [product EXCEPT !.auto = FALSE]
    BY DEF StampIdentifiesRow
  <2>1. Copies(req[q].row, product)
    BY DEF AutoInv, StampInv, RowsIdentified, HasRead
  <2>2. /\ product \in ProductRow /\ req[q].row \in ProductRow
        /\ SameRow(req[q].row, product)
    BY <2>1, AutoTypes DEF Copies, Request
  <2> QED
    BY <2>2 DEF SameRow, ProductRow
<1> QED
  BY <1>1, AutopilotAlways, PTL

(* The decision on an idea, the maybe pool, the swipe history and the      *)
(* tasks, written one after the other, agree whenever nobody is at the     *)
(* idea, for every number of requests and ideas: only two requests at one  *)
(* idea, one cut short, or an id drawn twice can set them apart.           *)
THEOREM LedgersAlwaysAgree == AutopilotSpec => []LedgersAgree
<1>1. AutoInv => LedgersAgree
  <2> SUFFICES ASSUME AutoInv, NEW i \in Ids, i \notin crossed,
                      \A q \in Requests : req[q].at \in AtIdea => req[q].i # i
               PROVE  /\ i \in pool <=> idea[i].decision = "maybe"
                      /\ idea[i].decision \in Decisions <=> idea[i].manual \/ swipes[i] # <<>>
                      /\ swipes[i] # <<>> =>
                           /\ idea[i].decision = swipes[i][Len(swipes[i])]
                           /\ Len(swipes[i]) = 1 \/ swipes[i] = <<"maybe", "yes">>
                      /\ idea[i].task # 0 => tasks[idea[i].task] = i
                      /\ (\E n \in Ids : tasks[n] = i) => idea[i].task # 0
    BY DEF LedgersAgree
  <2>1. /\ LedgerOf(i) /\ \A q \in Requests : req[q].at \in Half => req[q].i # i
        /\ \A q \in Requests : ~(req[q].at = "link" /\ req[q].i = i)
    BY DEF AutoInv, LedgerInv, Half, AtIdea, HalfDone
  <2>2. Settled(i) /\ TasksOf(i)
    BY <2>1 DEF LedgerOf
  <2>3. /\ idea[i].task # 0 => tasks[idea[i].task] = i
        /\ (\E n \in Ids : tasks[n] = i) => idea[i].task # 0
    BY <2>1, <2>2 DEF TasksOf
  <2>4. i \in pool <=> idea[i].decision = "maybe"
    BY <2>2 DEF Settled
  <2> DEFINE d == idea[i].decision
  <2>5. /\ idea[i].manual \in BOOLEAN
        /\ \/ d \notin Decisions /\ ~idea[i].manual /\ swipes[i] = <<>>
           \/ d \in Decisions /\ ~idea[i].manual /\ swipes[i] = <<d>>
           \/ d = "yes" /\ ~idea[i].manual /\ swipes[i] = <<"maybe", "yes">>
           \/ d = "yes" /\ idea[i].manual /\ swipes[i] = <<>>
    BY <2>2, AutoTypes DEF Settled, IdeaRow
  <2> HIDE DEF d
  <2>6. /\ <<d>> # <<>> /\ Len(<<d>>) = 1 /\ <<d>>[1] = d
        /\ <<"maybe", "yes">> # <<>> /\ Len(<<"maybe", "yes">>) = 2 /\ <<"maybe", "yes">>[2] = "yes"
    OBVIOUS
  <2>7. \/ d \notin Decisions /\ ~idea[i].manual /\ swipes[i] = <<>>
        \/ d \in Decisions /\ ~idea[i].manual /\ swipes[i] # <<>>
        \/ d = "yes" /\ swipes[i] # <<>>
        \/ d = "yes" /\ idea[i].manual
    BY <2>5, <2>6
  <2>8. d \in Decisions <=> idea[i].manual \/ swipes[i] # <<>>
    BY <2>7 DEF Decisions
  <2>9. swipes[i] # <<>> =>
           /\ d = swipes[i][Len(swipes[i])]
           /\ Len(swipes[i]) = 1 \/ swipes[i] = <<"maybe", "yes">>
    <3>1. CASE swipes[i] = <<d>>
      BY <2>6, <3>1
    <3>2. CASE d = "yes" /\ swipes[i] = <<"maybe", "yes">>
      BY <2>6, <3>2
    <3> QED
      BY <2>5, <3>1, <3>2
  <2> QED
    BY <2>3, <2>4, <2>8, <2>9 DEF d
<1> QED
  BY <1>1, AutopilotAlways, PTL

(***************************************************************************)
(* TickJobs.                                                               *)
(***************************************************************************)
(* asynq keeps the job the worker is in, so that its id is taken.          *)
TickInv == TickTypeOK /\ \A p \in Products : phase[p] # "none" => job[p] = "active"

LEMMA TickStarts == TickInit => TickInv
<1> SUFFICES ASSUME TickInit PROVE TickInv
  OBVIOUS
<1>1. MaxProduct \in Nat /\ MaxRetry \in Nat /\ MaxFaults \in Nat
  BY TickJobsAssumption
<1>2. TickTypeOK
  BY <1>1 DEF TickInit, TickTypeOK, TickStages
<1> QED
  BY <1>2 DEF TickInit, TickInv

LEMMA FaultsCount == ASSUME TickTypeOK, Fault PROVE faults' \in 0 .. MaxFaults
  BY TickJobsAssumption DEF TickTypeOK, Fault

LEMMA CursorMoves ==
    ASSUME TickTypeOK, NEW r \in Reconcilers, cursor[r] # 0, NextProduct(r)
    PROVE  cursor' \in [Reconcilers -> 0 .. MaxProduct]
<1>1. cursor[r] \in 0 .. MaxProduct /\ MaxProduct \in Nat
  BY TickJobsAssumption DEF TickTypeOK
<1>2. cursor[r] # MaxProduct => cursor[r] + 1 \in 0 .. MaxProduct
  BY <1>1
<1>3. 0 \in 0 .. MaxProduct
  BY <1>1
<1> QED
  BY <1>2, <1>3 DEF NextProduct, TickTypeOK

(* What the end of a job does, whichever way it ends.                      *)
LEMMA JobEnds ==
    ASSUME TickInv, NEW p \in Products, TickDone(p) \/ TickFails(p)
    PROVE  /\ job' \in [Products -> {"none", "scheduled", "active", "retry", "archived"}]
           /\ TickDone(p) => lock' \in [Products -> BOOLEAN]
           /\ retried' \in [Products -> 0 .. MaxRetry]
           /\ phase' \in [Products -> {"none", "tick", "next"}]
           /\ phase'[p] = "none"
           /\ \A o \in Products : o # p => job'[o] = job[o] /\ phase'[o] = phase[o]
<1>1. /\ retried \in [Products -> 0 .. MaxRetry] /\ MaxRetry \in Nat /\ TickTypeOK
      /\ retried[p] \in 0 .. MaxRetry
  BY TickJobsAssumption DEF TickInv, TickTypeOK
<1>2. CASE TickDone(p)
  <2>1. 0 \in 0 .. MaxRetry
    BY <1>1
  <2> QED
    BY <1>1, <1>2, <2>1 DEF TickDone, TickTypeOK
<1>3. CASE TickFails(p)
  <2>1. retried[p] < MaxRetry => retried[p] + 1 \in 0 .. MaxRetry
    BY <1>1
  <2>2. retried' \in [Products -> 0 .. MaxRetry]
    BY <1>1, <1>3, <2>1 DEF TickFails
  <2> QED
    BY <1>1, <1>3, <2>2 DEF TickFails, TickDone, TickTypeOK
<1> QED
  BY <1>2, <1>3

LEMMA TickSteps == TickInv /\ [TickNext]_tickVars => TickInv'
<1> SUFFICES ASSUME TickInv, [TickNext]_tickVars PROVE TickInv'
  OBVIOUS
<1> TickTypeOK
  BY DEF TickInv
<1>1. ASSUME NEW r \in Reconcilers, StartReconcile(r) PROVE TickInv'
  <2>1. 1 \in 0 .. MaxProduct /\ cursor' = [cursor EXCEPT ![r] = 1]
    BY <1>1, TickJobsAssumption DEF StartReconcile
  <2> QED
    BY <1>1, <2>1 DEF StartReconcile, TickInv, TickTypeOK
<1>2. ASSUME NEW r \in Reconcilers, ReconcileProduct(r) PROVE TickInv'
  <2>1. cursor' \in [Reconcilers -> 0 .. MaxProduct]
    <3>1. 0 \in 0 .. MaxProduct
      BY TickJobsAssumption
    <3> QED
      BY <1>2, <3>1, CursorMoves DEF ReconcileProduct, TickTypeOK
  <2>2. /\ job' \in [Products -> {"none", "scheduled", "active", "retry", "archived"}]
        /\ lock' \in [Products -> BOOLEAN]
        /\ \A p \in Products : job[p] # "none" => job'[p] = job[p]
    BY <1>2 DEF ReconcileProduct, EnqueueTick, TakeLock, TickTypeOK
  <2> QED
    BY <1>2, <2>1, <2>2 DEF ReconcileProduct, TickInv, TickTypeOK
<1>3. ASSUME NEW r \in Reconcilers, ReconcileStops(r) PROVE TickInv'
  <2>1. 0 \in 0 .. MaxProduct /\ faults' \in 0 .. MaxFaults
    BY <1>3, FaultsCount, TickJobsAssumption DEF ReconcileStops
  <2> QED
    BY <1>3, <2>1 DEF ReconcileStops, TickInv, TickTypeOK
<1>4. ASSUME NEW p \in Products, StartJob(p) PROVE TickInv'
  BY <1>4 DEF StartJob, TickInv, TickTypeOK
<1>5. ASSUME NEW p \in Products, TickProduct(p) PROVE TickInv'
  <2>1. CASE TickDone(p) /\ UNCHANGED stage
    BY <1>5, <2>1, JobEnds DEF TickProduct, TickInv, TickTypeOK
  <2>2. CASE /\ phase' = [phase EXCEPT ![p] = "next"] /\ UNCHANGED <<job, lock, retried>>
             /\ \E s \in TickStages : stage' = [stage EXCEPT ![p] = s]
    BY <1>5, <2>2 DEF TickProduct, TickInv, TickTypeOK
  <2> QED
    BY <1>5, <2>1, <2>2 DEF TickProduct
<1>6. ASSUME NEW p \in Products, EnqueueFollowUp(p) PROVE TickInv'
  <2>1. TickDone(p) \/ (TickFails(p) /\ lock' \in [Products -> BOOLEAN])
    BY <1>6 DEF EnqueueFollowUp, TakeLock, TickTypeOK
  <2> QED
    BY <1>6, <2>1, JobEnds DEF EnqueueFollowUp, TickInv, TickTypeOK
<1>7. ASSUME NEW p \in Products, JobFails(p) PROVE TickInv'
  <2>1. TickFails(p) /\ faults' \in 0 .. MaxFaults
    BY <1>7, FaultsCount DEF JobFails
  <2> QED
    BY <1>7, <2>1, JobEnds DEF JobFails, TickInv, TickTypeOK
<1>8. ASSUME NEW p \in Products, LockExpires(p) PROVE TickInv'
  <2>1. faults' \in 0 .. MaxFaults
    BY <1>8, FaultsCount DEF LockExpires
  <2> QED
    BY <1>8, <2>1 DEF LockExpires, TickInv, TickTypeOK
<1>9. ASSUME NEW p \in Products, Operate(p) PROVE TickInv'
  <2>1. faults' \in 0 .. MaxFaults
    BY <1>9, FaultsCount DEF Operate
  <2>2. /\ deleted' \in [Products -> BOOLEAN] /\ enabled' \in [Products -> BOOLEAN]
        /\ stage' \in [Products -> TickStages]
    BY <1>9 DEF Operate, TickTypeOK, TickStages
  <2> QED
    BY <1>9, <2>1, <2>2 DEF Operate, TickInv, TickTypeOK
<1>10. CASE UNCHANGED tickVars
  BY <1>10 DEF tickVars, TickInv, TickTypeOK
<1> QED
  BY <1>1, <1>2, <1>3, <1>4, <1>5, <1>6, <1>7, <1>8, <1>9, <1>10 DEF TickNext, WorkerStep

LEMMA TicksAlways == TickSpec => []TickInv
<1> QED
  BY TickStarts, TickSteps, PTL DEF TickSpec

(* Every variable of the tick jobs keeps its type: no job is retried more  *)
(* often than asynq is told.                                               *)
THEOREM TickTypeCorrect == TickSpec => []TickTypeOK
<1>1. TickInv => TickTypeOK
  BY DEF TickInv
<1> QED
  BY <1>1, TicksAlways, PTL

(* ProductAutopilotTickHandler.Handle never enqueues its successor: while  *)
(* it runs, its own job has the lock, or at least the id.  It is the       *)
(* reconcile of the server that ticks on.                                  *)
THEOREM FollowUpsAreRefused ==
    TickSpec => [](\A p \in Products : phase[p] = "next" => IsDuplicate(p) \/ IsConflict(p))
<1>1. TickInv => \A p \in Products : phase[p] = "next" => IsDuplicate(p) \/ IsConflict(p)
  BY DEF TickInv, IsDuplicate, IsConflict
<1> QED
  BY <1>1, TicksAlways, PTL

(***************************************************************************)
(* Schedules.                                                              *)
(***************************************************************************)
(***************************************************************************)
(* Every job there will be is paid for.  A writer that is about to enqueue *)
(* has one to come, and so has a row without a job, which the ticker will  *)
(* find, unless the ticker has found it already; a PATCH that has not      *)
(* saved its row yet brings two.                                           *)
(***************************************************************************)
OfTicker == IF proc[Ticker].at = "enqueue" \/ (proc[Ticker].at = "idle" /\ ~schedule.task)
              THEN 1 ELSE 0
OfPatcher == CASE proc[Patcher].at = "save" -> 2
               [] proc[Patcher].at \in {"resync", "enqueue"} -> 1
               [] OTHER -> 0

(* A row that is upserted names the job; the server's writers keep to      *)
(* their places.                                                           *)
SchedulePlaces ==
    /\ \A w \in Writers : proc[w].at = "upsert" => proc[w].row.task
    /\ proc[Ticker].at \in {"idle", "enqueue", "upsert"}
    /\ proc[Patcher].at \in {"idle", "save", "resync", "enqueue", "upsert"}

ScheduleInv ==
    /\ ScheduleTypeOK
    /\ IsFiniteSet(Waiting)
    /\ SchedulePlaces
    /\ Jobs + OfTicker + OfPatcher <= 1 + 2 * patched + failed

Counted == {"get", "tick", "enqueue"}
Here(p) == IF p.at \in Counted THEN 1 ELSE 0

(***************************************************************************)
(* Jobs are counted.                                                       *)
(***************************************************************************)
LEMMA WritersAre ==
    /\ Ticker \in Writers /\ Patcher \in Writers /\ Ticker # Patcher
    /\ Ticker \notin Slots /\ Patcher \notin Slots /\ Slots \subseteq Writers
    /\ \A w \in Writers : w = Ticker \/ w = Patcher \/ w \in Slots
    /\ RunRetries \in Nat /\ 0 \in Attempts /\ Attempts \subseteq Nat
  BY SchedulesAssumption DEF Writers, Attempts

LEMMA WaitingIs ==
    ASSUME NEW x
    PROVE  x \in Waiting <=> \E a \in Attempts : \E k \in 1 .. queue[a] : x = <<a, k>>
  BY DEF Waiting

LEMMA JobComes ==
    ASSUME ScheduleTypeOK, IsFiniteSet(Waiting), NEW a \in Attempts,
           queue' = [queue EXCEPT ![a] = @ + 1]
    PROVE  /\ queue' \in [Attempts -> Nat] /\ IsFiniteSet(Waiting)'
           /\ Cardinality(Waiting)' = Cardinality(Waiting) + 1
<1> DEFINE new == <<a, queue[a] + 1>>
<1>1. queue \in [Attempts -> Nat] /\ queue[a] \in Nat
  BY DEF ScheduleTypeOK
<1>2. queue'[a] = queue[a] + 1 /\ \A b \in Attempts : b # a => queue'[b] = queue[b]
  BY <1>1
<1>3. \A k : k \in 1 .. (queue[a] + 1) <=> k \in 1 .. queue[a] \/ k = queue[a] + 1
  BY <1>1
<1>4. \A x : x \in Waiting' <=> x \in Waiting \/ x = new
  <2> SUFFICES ASSUME NEW x
               PROVE  x \in Waiting' <=> x \in Waiting \/ x = new
    OBVIOUS
  <2>1. x \in Waiting' <=> \E b \in Attempts : \E k \in 1 .. queue'[b] : x = <<b, k>>
    BY DEF Waiting
  <2>2. x \in Waiting' => x \in Waiting \/ x = new
    BY <1>2, <1>3, <2>1, WaitingIs
  <2>3. x \in Waiting => x \in Waiting'
    BY <1>2, <1>3, <2>1, WaitingIs
  <2>4. x = new => x \in Waiting'
    BY <1>1, <1>2, <1>3, <2>1
  <2> QED
    BY <2>2, <2>3, <2>4
<1>5. new \notin Waiting
  BY <1>1, WaitingIs
<1>6. Waiting' = Waiting \cup {new}
  BY <1>4
<1> HIDE DEF new
<1>7. IsFiniteSet(Waiting') /\ Cardinality(Waiting') = Cardinality(Waiting) + 1
  BY <1>5, <1>6, FS_AddElement
<1> QED
  BY <1>1, <1>7

LEMMA JobGoes ==
    ASSUME ScheduleTypeOK, IsFiniteSet(Waiting), NEW a \in Attempts, queue[a] > 0,
           queue' = [queue EXCEPT ![a] = @ - 1]
    PROVE  /\ queue' \in [Attempts -> Nat] /\ IsFiniteSet(Waiting)'
           /\ Cardinality(Waiting)' = Cardinality(Waiting) - 1
<1> DEFINE old == <<a, queue[a]>>
<1>1. queue \in [Attempts -> Nat] /\ queue[a] \in Nat /\ queue[a] - 1 \in Nat
  BY DEF ScheduleTypeOK
<1>2. queue'[a] = queue[a] - 1 /\ \A b \in Attempts : b # a => queue'[b] = queue[b]
  BY <1>1
<1>3. \A k : k \in 1 .. (queue[a] - 1) <=> k \in 1 .. queue[a] /\ k # queue[a]
  BY <1>1
<1>4. \A x : x \in Waiting' <=> x \in Waiting /\ x # old
  <2> SUFFICES ASSUME NEW x
               PROVE  x \in Waiting' <=> x \in Waiting /\ x # old
    OBVIOUS
  <2>1. x \in Waiting' <=> \E b \in Attempts : \E k \in 1 .. queue'[b] : x = <<b, k>>
    BY DEF Waiting
  <2>2. x \in Waiting' => x \in Waiting /\ x # old
    BY <1>2, <1>3, <2>1, WaitingIs
  <2>3. x \in Waiting /\ x # old => x \in Waiting'
    BY <1>2, <1>3, <2>1, WaitingIs
  <2> QED
    BY <2>2, <2>3
<1>5. old \in Waiting
  BY <1>1, WaitingIs
<1>6. Waiting' = Waiting \ {old}
  BY <1>4
<1> HIDE DEF old
<1>7. IsFiniteSet(Waiting') /\ Cardinality(Waiting') = Cardinality(Waiting) - 1
  BY <1>5, <1>6, FS_RemoveElement
<1> QED
  BY <1>1, <1>7

LEMMA RunningFinite == IsFiniteSet(Running) /\ Cardinality(Running) \in Nat
  BY SchedulesAssumption, FS_Subset, FS_CardinalityType DEF Running

\* A step of one writer.
Alone(w) == \A v \in Writers : v # w => proc'[v] = proc[v]

LEMMA ServerMoves ==
    ASSUME NEW w \in {Ticker, Patcher}, Alone(w)
    PROVE  Cardinality(Running)' = Cardinality(Running)
<1>1. Running' = Running
  BY WritersAre DEF Running, Alone
<1> QED
  BY <1>1

LEMMA SlotMoves ==
    ASSUME NEW s \in Slots, Alone(s)
    PROVE  Cardinality(Running)' = Cardinality(Running) + Here(proc'[s]) - Here(proc[s])
<1>1. /\ IsFiniteSet(Running) /\ Cardinality(Running) \in Nat /\ IsFiniteSet(Running \cup {s})
  BY RunningFinite, FS_AddElement
<1>2. CASE proc[s].at \in Counted /\ proc'[s].at \in Counted
  <2>1. Running' = Running
    BY <1>2, WritersAre DEF Running, Alone, Counted
  <2> QED
    BY <1>1, <1>2, <2>1 DEF Here
<1>3. CASE proc[s].at \notin Counted /\ proc'[s].at \notin Counted
  <2>1. Running' = Running
    BY <1>3, WritersAre DEF Running, Alone, Counted
  <2> QED
    BY <1>1, <1>3, <2>1 DEF Here
<1>4. CASE proc[s].at \notin Counted /\ proc'[s].at \in Counted
  <2>1. Running' = Running \cup {s} /\ s \notin Running
    BY <1>4, WritersAre DEF Running, Alone, Counted
  <2>2. Cardinality(Running') = Cardinality(Running) + 1
    BY <1>1, <2>1, FS_AddElement
  <2> QED
    BY <1>1, <1>4, <2>2 DEF Here
<1>5. CASE proc[s].at \in Counted /\ proc'[s].at \notin Counted
  <2>1. Running' = Running \ {s} /\ s \in Running
    BY <1>5, WritersAre DEF Running, Alone, Counted
  <2>2. Cardinality(Running') = Cardinality(Running) - 1
    BY <1>1, <2>1, FS_RemoveElement
  <2> QED
    BY <1>1, <1>5, <2>2 DEF Here
<1> QED
  BY <1>2, <1>3, <1>4, <1>5

LEMMA Proceeds ==
    ASSUME ScheduleTypeOK, NEW w \in Writers, NEW place \in RunPlaces, NEW r \in ScheduleRow,
           Proceed(w, place, r)
    PROVE  /\ proc' \in [Writers -> [at : RunPlaces, row : ScheduleRow, attempt : Attempts]]
           /\ proc'[w].at = place /\ proc'[w].row = r /\ Alone(w)
<1>1. /\ proc'[w] \in [at : RunPlaces, row : ScheduleRow, attempt : Attempts]
      /\ proc'[w].at = place /\ proc'[w].row = r
  BY DEF Proceed, ScheduleTypeOK
<1>2. Alone(w) /\ proc' \in [Writers -> [at : RunPlaces, row : ScheduleRow, attempt : Attempts]]
  BY <1>1 DEF Proceed, ScheduleTypeOK, Alone
<1> QED
  BY <1>1, <1>2

LEMMA NoRunIs ==
    /\ NoRun \in [at : RunPlaces, row : ScheduleRow, attempt : Attempts] /\ NoRun.at = "idle"
    /\ NoSchedule \in ScheduleRow
<1>1. NoSchedule \in ScheduleRow
  BY DEF NoSchedule, ScheduleRow
<1> QED
  BY <1>1, WritersAre DEF NoRun, RunPlaces

LEMMA Leaves ==
    ASSUME ScheduleTypeOK, NEW w \in Writers, Leave(w)
    PROVE  /\ proc' \in [Writers -> [at : RunPlaces, row : ScheduleRow, attempt : Attempts]]
           /\ proc'[w].at = "idle" /\ Alone(w)
  BY NoRunIs DEF Leave, ScheduleTypeOK, Alone

LEMMA Fails ==
    ASSUME ScheduleTypeOK, MayFail
    PROVE  failed' = failed + 1 /\ failed' \in 0 .. MaxFailures
  BY SchedulesAssumption DEF ScheduleTypeOK, MayFail

LEMMA ScheduleTypes ==
    ASSUME ScheduleInv
    PROVE  /\ ScheduleTypeOK /\ schedule \in ScheduleRow /\ SchedulePlaces /\ IsFiniteSet(Waiting)
           /\ \A w \in Writers : proc[w].row \in ScheduleRow /\ proc[w].attempt \in Attempts
           /\ Cardinality(Waiting) \in Nat /\ Cardinality(Running) \in Nat
           /\ patched \in Nat /\ failed \in Nat
           /\ OfTicker \in 0 .. 1 /\ OfPatcher \in 0 .. 2
           /\ Cardinality(Waiting) + Cardinality(Running) + OfTicker + OfPatcher
                 <= 1 + 2 * patched + failed
<1>1. /\ ScheduleTypeOK /\ schedule \in ScheduleRow /\ SchedulePlaces /\ IsFiniteSet(Waiting)
      /\ \A w \in Writers : proc[w].row \in ScheduleRow /\ proc[w].attempt \in Attempts
  BY DEF ScheduleInv, ScheduleTypeOK
<1>2. Cardinality(Waiting) \in Nat /\ Cardinality(Running) \in Nat
  BY <1>1, RunningFinite, FS_CardinalityType
<1>3. patched \in Nat /\ failed \in Nat
  BY <1>1, SchedulesAssumption DEF ScheduleTypeOK
<1>4. OfTicker \in 0 .. 1
  BY DEF OfTicker
<1>5. OfPatcher \in 0 .. 2
  BY DEF OfPatcher
<1>6. Cardinality(Waiting) + Cardinality(Running) + OfTicker + OfPatcher
         <= 1 + 2 * patched + failed
  BY DEF ScheduleInv, Jobs
<1> QED
  BY <1>1, <1>2, <1>3, <1>4, <1>5, <1>6

(***************************************************************************)
(* The steps.                                                              *)
(***************************************************************************)
LEMMA Balance ==
    ASSUME ScheduleTypeOK', SchedulePlaces', IsFiniteSet(Waiting)',
           Cardinality(Waiting)' + Cardinality(Running)' + OfTicker' + OfPatcher'
              <= 1 + 2 * patched' + failed'
    PROVE  ScheduleInv'
  BY DEF ScheduleInv, Jobs

LEMMA PlacesKept ==
    ASSUME ScheduleInv, NEW w \in Writers, Alone(w),
           proc'[w].at = "upsert" => proc'[w].row.task,
           w = Ticker => proc'[w].at \in {"idle", "enqueue", "upsert"},
           w = Patcher => proc'[w].at \in {"idle", "save", "resync", "enqueue", "upsert"}
    PROVE  SchedulePlaces'
<1>1. \A v \in Writers : v # w => proc'[v] = proc[v]
  BY DEF Alone
<1>2. \A v \in Writers : proc'[v].at = "upsert" => proc'[v].row.task
  BY <1>1, ScheduleTypes DEF SchedulePlaces
<1>3. proc'[Ticker].at \in {"idle", "enqueue", "upsert"}
  BY <1>1, ScheduleTypes, WritersAre DEF SchedulePlaces
<1>4. proc'[Patcher].at \in {"idle", "save", "resync", "enqueue", "upsert"}
  BY <1>1, ScheduleTypes, WritersAre DEF SchedulePlaces
<1> QED
  BY <1>2, <1>3, <1>4 DEF SchedulePlaces

\* The terms of the others in a step of one.
LEMMA Terms ==
    ASSUME NEW w \in Writers, Alone(w)
    PROVE  /\ w # Patcher => OfPatcher' = OfPatcher
           /\ w # Ticker /\ schedule'.task = schedule.task => OfTicker' = OfTicker
           /\ w # Ticker /\ schedule'.task => OfTicker' <= OfTicker
           /\ OfTicker \in 0 .. 1 /\ OfTicker' \in 0 .. 1
           /\ OfPatcher \in 0 .. 2 /\ OfPatcher' \in 0 .. 2
<1>1. /\ w # Patcher => proc'[Patcher] = proc[Patcher]
      /\ w # Ticker => proc'[Ticker] = proc[Ticker]
  BY WritersAre DEF Alone
<1>2. /\ OfTicker \in 0 .. 1 /\ OfTicker' \in 0 .. 1
      /\ OfPatcher \in 0 .. 2 /\ OfPatcher' \in 0 .. 2
  BY DEF OfTicker, OfPatcher
<1>3. w # Patcher => OfPatcher' = OfPatcher
  BY <1>1 DEF OfPatcher
<1>4. w # Ticker /\ schedule'.task = schedule.task => OfTicker' = OfTicker
  BY <1>1 DEF OfTicker
<1>5. w # Ticker /\ schedule'.task => OfTicker' <= OfTicker
  BY <1>1 DEF OfTicker
<1> QED
  BY <1>2, <1>3, <1>4, <1>5

LEMMA PlaceTypes ==
    \A p \in {"idle", "save", "resync", "get", "tick", "enqueue", "upsert"} : p \in RunPlaces
  BY DEF RunPlaces

LEMMA StartProductSchedulesKeeps ==
    ASSUME ScheduleInv, StartProductSchedules PROVE ScheduleInv'
<1>1. /\ proc[Ticker].at = "idle" /\ ~schedule.task /\ Proceed(Ticker, "enqueue", schedule)
      /\ schedule' = schedule /\ queue' = queue /\ patched' = patched /\ failed' = failed
      /\ raced' = raced
  BY DEF StartProductSchedules
<1>2. /\ proc' \in [Writers -> [at : RunPlaces, row : ScheduleRow, attempt : Attempts]]
      /\ proc'[Ticker].at = "enqueue" /\ Alone(Ticker)
  BY <1>1, Proceeds, PlaceTypes, ScheduleTypes, WritersAre
<1>3. ScheduleTypeOK'
  BY <1>1, <1>2, ScheduleTypes DEF ScheduleTypeOK
<1>4. SchedulePlaces'
  BY <1>2, PlacesKept, WritersAre
<1>5. Waiting' = Waiting
  BY <1>1 DEF Waiting
<1>6. OfTicker' = 1 /\ OfTicker = 1 /\ OfPatcher' = OfPatcher
  BY <1>1, <1>2, Terms, WritersAre DEF OfTicker
<1>7. Cardinality(Running)' = Cardinality(Running)
  BY <1>2, ServerMoves
<1> QED
  BY <1>1, <1>3, <1>4, <1>5, <1>6, <1>7, ScheduleTypes, Balance

LEMMA PatchReadsKeeps ==
    ASSUME ScheduleInv, PatchReads PROVE ScheduleInv'
<1>1. /\ proc[Patcher].at = "idle" /\ patched < MaxPatches /\ patched' = patched + 1
      /\ schedule' = schedule /\ queue' = queue /\ failed' = failed /\ raced' = raced
  BY DEF PatchReads
<1>2. PICK r \in {[schedule EXCEPT !.enabled = e] : e \in BOOLEAN}
                   \cup [enabled : BOOLEAN, timing : {"none", "delay", "cron"},
                         task : {FALSE}] :
         Proceed(Patcher, "save", [r EXCEPT !.task = @ /\ r.enabled])
  BY DEF PatchReads
<1>3. r \in ScheduleRow
  BY ScheduleTypes DEF ScheduleRow
<1> DEFINE u == [r EXCEPT !.task = @ /\ r.enabled]
<1>4. u \in ScheduleRow
  BY <1>3 DEF ScheduleRow
<1> HIDE DEF u
<1>5. Proceed(Patcher, "save", u)
  BY <1>2 DEF u
<1>6. /\ proc' \in [Writers -> [at : RunPlaces, row : ScheduleRow, attempt : Attempts]]
      /\ proc'[Patcher].at = "save" /\ Alone(Patcher)
  BY <1>4, <1>5, Proceeds, PlaceTypes, ScheduleTypes, WritersAre
<1>7. ScheduleTypeOK'
  BY <1>1, <1>6, ScheduleTypes, SchedulesAssumption DEF ScheduleTypeOK
<1>8. SchedulePlaces'
  BY <1>6, PlacesKept, WritersAre
<1>9. Waiting' = Waiting
  BY <1>1 DEF Waiting
<1>10. OfPatcher' = 2 /\ OfPatcher = 0 /\ OfTicker' = OfTicker
  BY <1>1, <1>6, Terms, WritersAre DEF OfPatcher
<1>11. Cardinality(Running)' = Cardinality(Running)
  BY <1>6, ServerMoves
<1> QED
  BY <1>1, <1>7, <1>8, <1>9, <1>10, <1>11, ScheduleTypes, Balance

LEMMA SaveProductScheduleKeeps ==
    ASSUME ScheduleInv, SaveProductSchedule PROVE ScheduleInv'
<1>1. /\ proc[Patcher].at = "save" /\ schedule' = proc[Patcher].row /\ raced' \in BOOLEAN
      /\ queue' = queue /\ patched' = patched /\ failed' = failed
      /\ Proceed(Patcher, "resync", NoSchedule)
  BY ScheduleTypes DEF SaveProductSchedule, SaveRow, ScheduleTypeOK
<1>2. /\ proc' \in [Writers -> [at : RunPlaces, row : ScheduleRow, attempt : Attempts]]
      /\ proc'[Patcher].at = "resync" /\ Alone(Patcher)
  BY <1>1, Proceeds, PlaceTypes, NoRunIs, ScheduleTypes, WritersAre
<1>3. ScheduleTypeOK'
  BY <1>1, <1>2, ScheduleTypes, WritersAre DEF ScheduleTypeOK
<1>4. SchedulePlaces'
  BY <1>2, PlacesKept, WritersAre
<1>5. Waiting' = Waiting
  BY <1>1 DEF Waiting
<1>6. OfPatcher' = 1 /\ OfPatcher = 2
  BY <1>1, <1>2 DEF OfPatcher
<1>7. OfTicker \in 0 .. 1 /\ OfTicker' \in 0 .. 1
  BY <1>2, Terms, WritersAre
<1>8. Cardinality(Running)' = Cardinality(Running)
  BY <1>2, ServerMoves
<1> QED
  BY <1>1, <1>3, <1>4, <1>5, <1>6, <1>7, <1>8, ScheduleTypes, Balance

LEMMA ResyncProductKeeps ==
    ASSUME ScheduleInv, ResyncProduct PROVE ScheduleInv'
<1>1. /\ proc[Patcher].at = "resync"
      /\ Proceed(Patcher, "enqueue", schedule) \/ Leave(Patcher)
      /\ schedule' = schedule /\ queue' = queue /\ patched' = patched /\ failed' = failed
      /\ raced' = raced
  BY DEF ResyncProduct
<1>2. /\ proc' \in [Writers -> [at : RunPlaces, row : ScheduleRow, attempt : Attempts]]
      /\ proc'[Patcher].at \in {"enqueue", "idle"} /\ Alone(Patcher)
  BY <1>1, Proceeds, Leaves, PlaceTypes, ScheduleTypes, WritersAre
<1>3. ScheduleTypeOK'
  BY <1>1, <1>2, ScheduleTypes DEF ScheduleTypeOK
<1>4. SchedulePlaces'
  BY <1>2, PlacesKept, WritersAre
<1>5. Waiting' = Waiting
  BY <1>1 DEF Waiting
<1>6. OfPatcher' \in 0 .. 1 /\ OfPatcher = 1 /\ OfTicker' = OfTicker
  BY <1>1, <1>2, Terms, WritersAre DEF OfPatcher
<1>7. Cardinality(Running)' = Cardinality(Running)
  BY <1>2, ServerMoves
<1> QED
  BY <1>1, <1>3, <1>4, <1>5, <1>6, <1>7, ScheduleTypes, Balance

LEMMA ServerFailsKeeps ==
    ASSUME ScheduleInv, NEW w \in {Ticker, Patcher}, ServerFails(w) PROVE ScheduleInv'
<1>1. /\ Leave(w) /\ schedule' = schedule /\ queue' = queue /\ patched' = patched
      /\ raced' = raced /\ failed' = failed + 1 /\ failed' \in 0 .. MaxFailures
  BY ScheduleTypes, Fails DEF ServerFails
<1>2. /\ proc' \in [Writers -> [at : RunPlaces, row : ScheduleRow, attempt : Attempts]]
      /\ proc'[w].at = "idle" /\ Alone(w)
  BY <1>1, Leaves, ScheduleTypes, WritersAre
<1>3. ScheduleTypeOK'
  BY <1>1, <1>2, ScheduleTypes DEF ScheduleTypeOK
<1>4. SchedulePlaces'
  BY <1>2, PlacesKept, WritersAre
<1>5. Waiting' = Waiting
  BY <1>1 DEF Waiting
<1>6. OfTicker' + OfPatcher' <= OfTicker + OfPatcher + 1
  <2>1. CASE w = Ticker
    BY <1>2, <2>1, Terms, WritersAre
  <2>2. CASE w = Patcher
    <3>1. OfPatcher' = 0
      BY <1>2, <2>2 DEF OfPatcher
    <3> QED
      BY <1>1, <1>2, <2>2, <3>1, Terms, WritersAre
  <2> QED
    BY <2>1, <2>2
<1>7. Cardinality(Running)' = Cardinality(Running)
  BY <1>2, ServerMoves
<1>8. OfTicker' \in 0 .. 1 /\ OfPatcher' \in 0 .. 2
  BY <1>2, Terms, WritersAre
<1> QED
  BY <1>1, <1>3, <1>4, <1>5, <1>6, <1>7, <1>8, ScheduleTypes, Balance

LEMMA EnqueueRunKeeps ==
    ASSUME ScheduleInv, NEW w \in Writers, EnqueueRun(w) PROVE ScheduleInv'
<1> DEFINE u == [proc[w].row EXCEPT !.task = TRUE,
                                    !.timing = IF @ = "delay" THEN "none" ELSE @]
<1>1. /\ proc[w].at = "enqueue" /\ queue' = [queue EXCEPT ![0] = @ + 1]
      /\ schedule' = schedule /\ patched' = patched /\ failed' = failed /\ raced' = raced
      /\ Proceed(w, "upsert", u)
  BY DEF EnqueueRun
<1>2. u \in ScheduleRow /\ u.task = TRUE
  BY ScheduleTypes DEF ScheduleRow
<1> HIDE DEF u
<1>3. /\ proc' \in [Writers -> [at : RunPlaces, row : ScheduleRow, attempt : Attempts]]
      /\ proc'[w].at = "upsert" /\ proc'[w].row = u /\ Alone(w)
  BY <1>1, <1>2, Proceeds, PlaceTypes, ScheduleTypes
<1>4. /\ queue' \in [Attempts -> Nat] /\ IsFiniteSet(Waiting)'
      /\ Cardinality(Waiting)' = Cardinality(Waiting) + 1
  BY <1>1, JobComes, ScheduleTypes, WritersAre
<1>5. ScheduleTypeOK'
  BY <1>1, <1>3, <1>4, ScheduleTypes DEF ScheduleTypeOK
<1>6. SchedulePlaces'
  BY <1>2, <1>3, PlacesKept
<1>7. Cardinality(Running)' + OfTicker' + OfPatcher' + 1
         <= Cardinality(Running) + OfTicker + OfPatcher
  <2>0. Cardinality(Running) \in Nat
    BY ScheduleTypes
  <2>1. CASE w = Ticker
    <3>1. OfTicker = 1 /\ OfTicker' = 0
      BY <1>1, <1>3, <2>1 DEF OfTicker
    <3> QED
      BY <1>3, <2>0, <2>1, <3>1, Terms, ServerMoves, WritersAre
  <2>2. CASE w = Patcher
    <3>1. OfPatcher = 1 /\ OfPatcher' = 0
      BY <1>1, <1>3, <2>2 DEF OfPatcher
    <3> QED
      BY <1>1, <1>3, <2>0, <2>2, <3>1, Terms, ServerMoves, WritersAre
  <2>3. CASE w \in Slots
    <3>1. Here(proc[w]) = 1 /\ Here(proc'[w]) = 0
      BY <1>1, <1>3 DEF Here, Counted
    <3>2. w # Ticker /\ w # Patcher
      BY <2>3, WritersAre
    <3>3. Cardinality(Running)' = Cardinality(Running) - 1
      BY <1>3, <2>0, <2>3, <3>1, SlotMoves
    <3> QED
      BY <1>1, <1>3, <2>0, <3>2, <3>3, Terms
  <2> QED
    BY <2>1, <2>2, <2>3, WritersAre
<1>8. OfTicker' \in 0 .. 1 /\ OfPatcher' \in 0 .. 2 /\ Cardinality(Running)' \in Nat
  <2>1. OfTicker' \in 0 .. 1 /\ OfPatcher' \in 0 .. 2
    BY <1>3, Terms
  <2>2. IsFiniteSet(Running') /\ Cardinality(Running') \in Nat
    BY SchedulesAssumption, FS_Subset, FS_CardinalityType DEF Running
  <2> QED
    BY <2>1, <2>2
<1> QED
  BY <1>1, <1>4, <1>5, <1>6, <1>7, <1>8, ScheduleTypes, Balance

LEMMA UpsertKeeps ==
    ASSUME ScheduleInv, NEW w \in Writers, Upsert(w) PROVE ScheduleInv'
<1>1. /\ proc[w].at = "upsert" /\ schedule' = proc[w].row /\ raced' \in BOOLEAN
      /\ queue' = queue /\ patched' = patched /\ failed' = failed /\ Leave(w)
  BY ScheduleTypes DEF Upsert, SaveRow, ScheduleTypeOK
<1>2. schedule'.task /\ schedule' \in ScheduleRow
  BY <1>1, ScheduleTypes DEF SchedulePlaces
<1>3. /\ proc' \in [Writers -> [at : RunPlaces, row : ScheduleRow, attempt : Attempts]]
      /\ proc'[w].at = "idle" /\ Alone(w)
  BY <1>1, Leaves, ScheduleTypes
<1>4. ScheduleTypeOK'
  BY <1>1, <1>2, <1>3, ScheduleTypes DEF ScheduleTypeOK
<1>5. SchedulePlaces'
  BY <1>3, PlacesKept
<1>6. Waiting' = Waiting
  BY <1>1 DEF Waiting
<1>7. OfTicker' <= OfTicker
  <2>1. CASE w = Ticker
    <3>1. OfTicker' = 0
      BY <1>2, <1>3, <2>1 DEF OfTicker
    <3> QED
      BY <1>3, <3>1, Terms
  <2>2. CASE w # Ticker
    BY <1>2, <1>3, <2>2, Terms
  <2> QED
    BY <2>1, <2>2
<1>8. OfPatcher' <= OfPatcher
  <2>1. CASE w = Patcher
    <3>1. OfPatcher' = 0
      BY <1>3, <2>1 DEF OfPatcher
    <3> QED
      BY <1>3, <3>1, Terms
  <2>2. CASE w # Patcher
    BY <1>3, <2>2, Terms
  <2> QED
    BY <2>1, <2>2
<1>9. Cardinality(Running)' = Cardinality(Running)
  <2>1. CASE w \in Slots
    <3>1. Here(proc[w]) = 0 /\ Here(proc'[w]) = 0
      BY <1>1, <1>3 DEF Here, Counted
    <3> QED
      BY <1>3, <2>1, <3>1, SlotMoves, ScheduleTypes
  <2>2. CASE w \notin Slots
    BY <1>3, <2>2, ServerMoves, WritersAre
  <2> QED
    BY <2>1, <2>2
<1>10. OfTicker' \in 0 .. 1 /\ OfPatcher' \in 0 .. 2
  BY <1>3, Terms
<1> QED
  BY <1>1, <1>4, <1>5, <1>6, <1>7, <1>8, <1>9, <1>10, ScheduleTypes, Balance

\* A step of a job that leaves the rows and Redis alone.
LEMMA JobMoves ==
    ASSUME ScheduleInv, NEW s \in Slots, Alone(s),
           proc' \in [Writers -> [at : RunPlaces, row : ScheduleRow, attempt : Attempts]],
           proc'[s].at # "upsert",
           schedule' = schedule, patched' = patched, raced' = raced,
           failed' \in {failed, failed + 1}, failed' \in 0 .. MaxFailures,
           queue' \in [Attempts -> Nat], IsFiniteSet(Waiting)',
           Cardinality(Waiting)' + Here(proc'[s]) + failed
              <= Cardinality(Waiting) + Here(proc[s]) + failed'
    PROVE  ScheduleInv'
<1>1. s \in Writers /\ s # Ticker /\ s # Patcher
  BY WritersAre
<1>2. OfTicker' = OfTicker /\ OfPatcher' = OfPatcher
  BY <1>1, Terms
<1>3. Cardinality(Running)' = Cardinality(Running) + Here(proc'[s]) - Here(proc[s])
  BY SlotMoves
<1>4. Here(proc'[s]) \in 0 .. 1 /\ Here(proc[s]) \in 0 .. 1
  BY DEF Here
<1>5. ScheduleTypeOK'
  BY ScheduleTypes DEF ScheduleTypeOK
<1>6. SchedulePlaces'
  BY <1>1, PlacesKept
<1>7. Cardinality(Waiting)' \in Nat
  BY FS_CardinalityType
<1>8. failed' \in Nat
  BY ScheduleTypes
<1> QED
  BY <1>2, <1>3, <1>4, <1>5, <1>6, <1>7, <1>8, ScheduleTypes, Balance

LEMMA SameWaiting ==
    ASSUME ScheduleInv, queue' = queue
    PROVE  /\ queue' \in [Attempts -> Nat] /\ IsFiniteSet(Waiting)'
           /\ Cardinality(Waiting)' = Cardinality(Waiting) /\ Cardinality(Waiting) \in Nat
           /\ failed \in 0 .. MaxFailures
<1>1. Waiting' = Waiting
  BY DEF Waiting
<1> QED
  BY <1>1, ScheduleTypes DEF ScheduleTypeOK

LEMMA FireKeeps ==
    ASSUME ScheduleInv, NEW s \in Slots, Fire(s) PROVE ScheduleInv'
<1>1. /\ proc[s].at = "idle" /\ schedule' = schedule /\ patched' = patched /\ failed' = failed
      /\ raced' = raced
  BY DEF Fire
<1>2. PICK a \in Attempts :
         /\ queue[a] > 0
         /\ queue' = [queue EXCEPT ![a] = @ - 1]
         /\ proc' = [proc EXCEPT ![s] = [NoRun EXCEPT !.at = "get", !.attempt = a]]
  BY DEF Fire
<1> DEFINE u == [NoRun EXCEPT !.at = "get", !.attempt = a]
<1>3. u \in [at : RunPlaces, row : ScheduleRow, attempt : Attempts] /\ u.at = "get"
  BY NoRunIs, PlaceTypes
<1>4. proc' = [proc EXCEPT ![s] = u]
  BY <1>2
<1> HIDE DEF u
<1>5. /\ proc' \in [Writers -> [at : RunPlaces, row : ScheduleRow, attempt : Attempts]]
      /\ proc'[s] = u /\ Alone(s)
  BY <1>3, <1>4, ScheduleTypes, WritersAre DEF ScheduleTypeOK, Alone
<1>6. /\ queue' \in [Attempts -> Nat] /\ IsFiniteSet(Waiting)'
      /\ Cardinality(Waiting)' = Cardinality(Waiting) - 1
  BY <1>2, JobGoes, ScheduleTypes
<1>7. Here(proc[s]) = 0 /\ Here(proc'[s]) = 1
  BY <1>1, <1>3, <1>5 DEF Here, Counted
<1>8. /\ failed \in 0 .. MaxFailures /\ failed \in Nat /\ Cardinality(Waiting) \in Nat
  BY ScheduleTypes DEF ScheduleTypeOK
<1> QED
  BY <1>1, <1>3, <1>5, <1>6, <1>7, <1>8, JobMoves

LEMMA GetScheduleKeeps ==
    ASSUME ScheduleInv, NEW s \in Slots, GetSchedule(s) PROVE ScheduleInv'
<1>1. /\ proc[s].at = "get" /\ schedule' = schedule /\ queue' = queue /\ patched' = patched
      /\ failed' = failed /\ raced' = raced
      /\ Proceed(s, "tick", NoSchedule) \/ Leave(s)
  BY DEF GetSchedule
<1>2. /\ proc' \in [Writers -> [at : RunPlaces, row : ScheduleRow, attempt : Attempts]]
      /\ proc'[s].at \in {"tick", "idle"} /\ Alone(s)
  BY <1>1, Proceeds, Leaves, PlaceTypes, NoRunIs, ScheduleTypes, WritersAre
<1>3. Here(proc[s]) = 1 /\ Here(proc'[s]) \in 0 .. 1
  BY <1>1, <1>2 DEF Here, Counted
<1> QED
  BY <1>1, <1>2, <1>3, SameWaiting, ScheduleTypes, JobMoves

LEMMA GetScheduleAgainKeeps ==
    ASSUME ScheduleInv, NEW s \in Slots, GetScheduleAgain(s) PROVE ScheduleInv'
<1>1. /\ proc[s].at = "tick" /\ schedule' = schedule /\ queue' = queue /\ patched' = patched
      /\ failed' = failed /\ raced' = raced
      /\ Proceed(s, "enqueue", schedule) \/ Leave(s)
  BY DEF GetScheduleAgain
<1>2. /\ proc' \in [Writers -> [at : RunPlaces, row : ScheduleRow, attempt : Attempts]]
      /\ proc'[s].at \in {"enqueue", "idle"} /\ Alone(s)
  BY <1>1, Proceeds, Leaves, PlaceTypes, ScheduleTypes, WritersAre
<1>3. Here(proc[s]) = 1 /\ Here(proc'[s]) \in 0 .. 1
  BY <1>1, <1>2 DEF Here, Counted
<1> QED
  BY <1>1, <1>2, <1>3, SameWaiting, ScheduleTypes, JobMoves

LEMMA EndsSilentlyKeeps ==
    ASSUME ScheduleInv, NEW s \in Slots, EndsSilently(s) PROVE ScheduleInv'
<1>1. /\ schedule' = schedule /\ queue' = queue /\ patched' = patched /\ raced' = raced
      /\ failed' = failed + 1 /\ failed' \in 0 .. MaxFailures /\ Leave(s)
  BY ScheduleTypes, Fails DEF EndsSilently
<1>2. /\ proc' \in [Writers -> [at : RunPlaces, row : ScheduleRow, attempt : Attempts]]
      /\ proc'[s].at = "idle" /\ Alone(s)
  BY <1>1, Leaves, ScheduleTypes, WritersAre
<1>3. Here(proc[s]) \in 0 .. 1 /\ Here(proc'[s]) = 0
  BY <1>2 DEF Here, Counted
<1> QED
  BY <1>1, <1>2, <1>3, SameWaiting, ScheduleTypes, JobMoves

LEMMA RunFailsKeeps ==
    ASSUME ScheduleInv, NEW s \in Slots, RunFails(s) PROVE ScheduleInv'
<1>1. /\ schedule' = schedule /\ patched' = patched /\ raced' = raced
      /\ failed' = failed + 1 /\ failed' \in 0 .. MaxFailures /\ Leave(s)
      /\ \/ /\ proc[s].attempt < RunRetries
            /\ queue' = [queue EXCEPT ![proc[s].attempt + 1] = @ + 1]
         \/ queue' = queue
  BY ScheduleTypes, Fails DEF RunFails
<1>2. /\ proc' \in [Writers -> [at : RunPlaces, row : ScheduleRow, attempt : Attempts]]
      /\ proc'[s].at = "idle" /\ Alone(s)
  BY <1>1, Leaves, ScheduleTypes, WritersAre
<1>3. Here(proc[s]) \in 0 .. 1 /\ Here(proc'[s]) = 0
  BY <1>2 DEF Here, Counted
<1>4. /\ queue' \in [Attempts -> Nat] /\ IsFiniteSet(Waiting)'
      /\ Cardinality(Waiting)' <= Cardinality(Waiting) + 1
      /\ Cardinality(Waiting) \in Nat /\ Cardinality(Waiting)' \in Nat
  <2>1. CASE queue' = queue
    BY <2>1, SameWaiting
  <2>2. CASE proc[s].attempt < RunRetries /\ queue' = [queue EXCEPT ![proc[s].attempt + 1] = @ + 1]
    <3>1. proc[s].attempt + 1 \in Attempts
      BY <2>2, ScheduleTypes, WritersAre DEF Attempts
    <3>2. PICK a \in Attempts : queue' = [queue EXCEPT ![a] = @ + 1]
      BY <2>2, <3>1
    <3>3. /\ queue' \in [Attempts -> Nat] /\ IsFiniteSet(Waiting)'
          /\ Cardinality(Waiting)' = Cardinality(Waiting) + 1
      BY <3>2, JobComes, ScheduleTypes
    <3> QED
      BY <3>3, ScheduleTypes
  <2> QED
    BY <1>1, <2>1, <2>2
<1> QED
  BY <1>1, <1>2, <1>3, <1>4, ScheduleTypes, JobMoves

LEMMA SchedulesStart == ASSUME ScheduleInit PROVE ScheduleInv
<1>1. /\ schedule \in ScheduleRow /\ queue = [a \in Attempts |-> 0]
      /\ proc = [w \in Writers |-> NoRun] /\ patched = 0 /\ failed = 0 /\ raced = FALSE
  BY DEF ScheduleInit, ScheduleRow
<1>2. ScheduleTypeOK
  <2>1. queue \in [Attempts -> Nat]
    BY <1>1
  <2>2. proc \in [Writers -> [at : RunPlaces, row : ScheduleRow, attempt : Attempts]]
    BY <1>1, NoRunIs
  <2>3. MaxPatches \in Nat /\ MaxFailures \in Nat
    BY SchedulesAssumption
  <2>4. patched \in 0 .. MaxPatches /\ failed \in 0 .. MaxFailures
    BY <1>1, <2>3
  <2>5. raced \in BOOLEAN
    BY <1>1
  <2> QED
    BY <1>1, <2>1, <2>2, <2>4, <2>5 DEF ScheduleTypeOK
<1>3. Waiting = {}
  BY <1>1 DEF Waiting
<1>4. Running = {}
  BY <1>1, NoRunIs, WritersAre DEF Running
<1>5. SchedulePlaces
  BY <1>1, NoRunIs, WritersAre DEF SchedulePlaces
<1>6. OfTicker \in 0 .. 1 /\ OfPatcher = 0
  BY <1>1, NoRunIs, WritersAre DEF OfTicker, OfPatcher
<1>7. Cardinality(Waiting) = 0 /\ Cardinality(Running) = 0 /\ IsFiniteSet(Waiting)
  BY <1>3, <1>4, FS_EmptySet
<1> QED
  BY <1>1, <1>2, <1>5, <1>6, <1>7 DEF ScheduleInv, Jobs

LEMMA SchedulesStep == ASSUME ScheduleInv, [ScheduleNext]_schedVars PROVE ScheduleInv'
<1>1. CASE UNCHANGED schedVars
  <2>1. /\ schedule' = schedule /\ queue' = queue /\ proc' = proc /\ patched' = patched
        /\ failed' = failed /\ raced' = raced
    BY <1>1 DEF schedVars
  <2> QED
    BY <2>1 DEF ScheduleInv, ScheduleTypeOK, Waiting, SchedulePlaces, Jobs, Running, OfTicker, OfPatcher
<1>2. ASSUME NEW w \in {Ticker, Patcher}, ServerStep(w)
      PROVE  ScheduleInv'
  BY <1>2, StartProductSchedulesKeeps, SaveProductScheduleKeeps, ResyncProductKeeps,
     EnqueueRunKeeps, UpsertKeeps, WritersAre DEF ServerStep
<1>3. ASSUME NEW s \in Slots, JobStep(s)
      PROVE  ScheduleInv'
  BY <1>3, FireKeeps, GetScheduleKeeps, GetScheduleAgainKeeps, EnqueueRunKeeps, UpsertKeeps,
     WritersAre DEF JobStep
<1> QED
  BY <1>1, <1>2, <1>3, PatchReadsKeeps, ServerFailsKeeps, EndsSilentlyKeeps, RunFailsKeeps
     DEF ScheduleNext

LEMMA SchedulesAlways == ScheduleSpec => []ScheduleInv
<1>1. ScheduleInit => ScheduleInv
  BY SchedulesStart
<1>2. ScheduleInv /\ [ScheduleNext]_schedVars => ScheduleInv'
  BY SchedulesStep
<1> QED
  BY <1>1, <1>2, PTL DEF ScheduleSpec

(* Every variable of the schedule keeps its type.                          *)
THEOREM ScheduleTypeCorrect == ScheduleSpec => []ScheduleTypeOK
<1>1. ScheduleInv => ScheduleTypeOK
  BY DEF ScheduleInv
<1> QED
  BY <1>1, SchedulesAlways, PTL

(* However many jobs run at a time and however a PATCH, the ticker and the *)
(* jobs meet, the jobs of a product are no more than the first, two for    *)
(* every PATCH and one for every failure between a job and its row.        *)
THEOREM ChainsStayBounded == ScheduleSpec => []ChainsAreBounded
<1>1. ScheduleInv => ChainsAreBounded
  <2> SUFFICES ASSUME ScheduleInv PROVE Jobs <= 1 + 2 * patched + failed
    BY DEF ChainsAreBounded
  <2> QED
    BY ScheduleTypes DEF Jobs
<1> QED
  BY <1>1, SchedulesAlways, PTL

(***************************************************************************)
(* Budget.                                                                 *)
(***************************************************************************)
(***************************************************************************)
(* Who may still spend against a cap: the requests that have passed its    *)
(* check.  A sum that is close to its cap leaves room for one of them, and *)
(* for every other one no more than one cost.                              *)
(***************************************************************************)
After(c) == CASE c = "daily" -> {"monthly", "cumulative", "append"}
              [] c = "monthly" -> {"cumulative", "append"}
              [] c = "cumulative" -> {"append"}

Past(c) == {s \in Spenders : spender[s].step \in After(c)}
PastIn(c, t) == {s \in Past(c) : FirstHour(spender[s].asOf, c) <= FirstHour(t, c)}

Rooms(sum, P, limit, sp) ==
    /\ sum <= limit + Overspend
    /\ P # {} => \E s \in P : sum + sp[s].amount + (Cardinality(P) - 1) * MaxCost
                                 <= limit + Overspend

Covered(texts, P, c) == highest[c] # NoLimit => 
    Rooms(SpentAt(texts), P, highest[c], spender)

(* What a request has read, and the time it is to store.                   *)
Checking == {"daily", "monthly", "cumulative", "append"}
UnderLimit(n, c) == highest[c] # NoLimit => n # NoLimit /\ n <= highest[c]

SpenderOK(s) ==
    /\ s.amount <= MaxCost
    /\ s.step \in Checking =>
         /\ s.caps \in [Caps -> Nat \cup {NoLimit}] /\ s.asOf <= hour
         /\ \A c \in Caps : UnderLimit(s.caps[c], c)
         /\ s.step \in Caps => s.caps[s.step] # NoLimit
    /\ s.step = "upsert" => s.caps \in CapsRow
    /\ s.step = "append" /\ zone > 0 => 2 * s.asOf + 4 <= s.text

BudgetInv ==
    /\ BudgetTypeOK
    /\ IsFiniteSet(Units(Texts))
    /\ \A c \in Caps : UnderLimit(Effective(capsRow)[c], c)
    /\ \A s \in Spenders : SpenderOK(spender[s])
    /\ Covered(Texts, Past("cumulative"), "cumulative")
    /\ zone > 0 => \A c \in {"daily", "monthly"}, t \in 0 .. (MaxTime + 2) :
                     Covered(Within(c, t), PastIn(c, t), c)

(***************************************************************************)
(* Numbers.                                                                *)
(***************************************************************************)
LEMMA BudgetNumbers ==
    /\ MaxCost \in Nat /\ IsFiniteSet(Spenders) /\ Cardinality(Spenders) \in Nat
    /\ Cardinality(Spenders) - 1 \in Nat /\ Overspend \in Nat
    /\ Texts \subseteq Nat /\ 2 \in Texts /\ MaxTime \in Nat /\ 1 \in 0 .. MaxTime
<1>1. /\ IsFiniteSet(Spenders) /\ Spenders # {} /\ MaxTime \in Nat \ {0}
  BY BudgetAssumption
<1>2. MaxCost \in Nat
  <2>1. Amounts \subseteq 0 .. MaxCost /\ MaxCost \in Amounts \cup {0}
    BY BudgetAssumption
  <2> QED
    BY <2>1
<1>3. Cardinality(Spenders) \in Nat /\ Cardinality(Spenders) # 0
  BY <1>1, FS_CardinalityType, FS_EmptySet
<1>4. Cardinality(Spenders) - 1 \in Nat
  BY <1>3
<1>5. \A k \in Nat : k * MaxCost \in Nat
  BY <1>2
<1>6. Overspend \in Nat
  BY <1>4, <1>5 DEF Overspend
<1>7. Texts \subseteq Nat /\ 2 \in Texts /\ 1 \in 0 .. MaxTime
  BY <1>1 DEF Texts
<1> QED
  BY <1>1, <1>2, <1>3, <1>4, <1>6, <1>7

LEMMA Multiples ==
    ASSUME NEW k \in Nat
    PROVE  /\ k * MaxCost \in Nat /\ (k + 1) * MaxCost = k * MaxCost + MaxCost
           /\ \A n \in Nat : k <= n => k * MaxCost <= n * MaxCost
<1>1. MaxCost \in Nat
  BY BudgetNumbers
<1>2. \A n \in Nat : k <= n => k * MaxCost <= n * MaxCost
  <2> TAKE n \in Nat
  <2> HAVE k <= n
  <2>1. n - k \in Nat /\ n = k + (n - k)
    OBVIOUS
  <2>2. \A d \in Nat : (k + d) * MaxCost = k * MaxCost + d * MaxCost /\ d * MaxCost \in Nat
    BY <1>1
  <2>3. n * MaxCost = k * MaxCost + (n - k) * MaxCost /\ (n - k) * MaxCost \in Nat
    BY <2>1, <2>2
  <2> QED
    BY <1>1, <2>3
<1> QED
  BY <1>1, <1>2

(***************************************************************************)
(* Room for those who may still spend.                                     *)
(***************************************************************************)
LEMMA RoomsStay ==
    ASSUME NEW sp, NEW sp2, NEW P \in SUBSET Spenders, NEW sum \in Nat, NEW sum2 \in Nat,
           NEW limit \in Nat, NEW limit2 \in Nat, limit <= limit2, sum2 <= sum,
           \A r \in P : sp[r].amount \in 0 .. MaxCost /\ sp2[r].amount = sp[r].amount,
           Rooms(sum, P, limit, sp)
    PROVE  Rooms(sum2, P, limit2, sp2)
<1>1. Overspend \in Nat /\ MaxCost \in Nat
  BY BudgetNumbers
<1>2. sum2 <= limit2 + Overspend
  BY <1>1 DEF Rooms
<1>3. ASSUME P # {}
      PROVE  \E r \in P : sum2 + sp2[r].amount + (Cardinality(P) - 1) * MaxCost
                             <= limit2 + Overspend
  <2>1. PICK r \in P : sum + sp[r].amount + (Cardinality(P) - 1) * MaxCost <= limit + Overspend
    BY <1>3 DEF Rooms
  <2>2. IsFiniteSet(P) /\ Cardinality(P) \in Nat
    BY BudgetNumbers, FS_Subset, FS_CardinalityType
  <2> DEFINE rest == (Cardinality(P) - 1) * MaxCost
  <2>3. rest \in Int
    BY <1>1, <2>2
  <2>4. sp[r].amount \in Nat /\ sp2[r].amount = sp[r].amount
    BY <1>1
  <2>5. sum + sp[r].amount + rest <= limit + Overspend
    BY <2>1
  <2> HIDE DEF rest
  <2>6. sum2 + sp2[r].amount + rest <= limit2 + Overspend
    BY <1>1, <2>3, <2>4, <2>5
  <2> QED
    BY <2>6 DEF rest
<1> QED
  BY <1>2, <1>3 DEF Rooms

LEMMA RoomsLeave ==
    ASSUME NEW sp, NEW sp2, NEW P \in SUBSET Spenders, NEW s \in P,
           NEW sum \in Nat, NEW sum2 \in Nat,
           NEW limit \in Nat, NEW limit2 \in Nat, limit <= limit2,
           \A r \in P : sp[r].amount \in 0 .. MaxCost,
           \A r \in P \ {s} : sp2[r].amount = sp[r].amount,
           sum2 <= sum + sp[s].amount,
           Rooms(sum, P, limit, sp)
    PROVE  Rooms(sum2, P \ {s}, limit2, sp2)
<1>1. Overspend \in Nat /\ MaxCost \in Nat
  BY BudgetNumbers
<1>2. PICK r \in P : sum + sp[r].amount + (Cardinality(P) - 1) * MaxCost <= limit + Overspend
  BY DEF Rooms
<1>3. IsFiniteSet(P) /\ Cardinality(P) \in Nat /\ Cardinality(P) # 0
  BY BudgetNumbers, FS_Subset, FS_CardinalityType, FS_EmptySet
<1>4. Cardinality(P \ {s}) = Cardinality(P) - 1 /\ IsFiniteSet(P \ {s})
  BY <1>3, FS_RemoveElement
<1>5. /\ sp[s].amount \in Nat /\ sp[s].amount <= MaxCost
      /\ sp[r].amount \in Nat /\ sp[r].amount <= MaxCost
  BY <1>1
<1> DEFINE rest == (Cardinality(P) - 1) * MaxCost
<1>6. rest \in Nat /\ sum + sp[r].amount + rest <= limit + Overspend
  <2>1. Cardinality(P) - 1 \in Nat
    BY <1>3
  <2>2. rest \in Nat
    BY <2>1, Multiples
  <2>3. sum + sp[r].amount + rest <= limit + Overspend
    BY <1>2
  <2> QED
    BY <2>2, <2>3
\* Where r itself leaves, what it stores has been allowed for; where another
\* leaves, its one cost has.
<1>7. \/ s = r /\ sum2 + rest <= limit2 + Overspend
      \/ s # r /\ sum2 + sp[r].amount + rest <= limit2 + Overspend + MaxCost
  <2> HIDE DEF rest
  <2> QED
    BY <1>1, <1>5, <1>6
<1>8. P \ {s} # {} => rest = (Cardinality(P \ {s}) - 1) * MaxCost + MaxCost
  <2>1. P \ {s} # {} => Cardinality(P \ {s}) # 0
    BY <1>4, FS_EmptySet
  <2>2. P \ {s} # {} => Cardinality(P) - 2 \in Nat
    BY <1>3, <1>4, <2>1
  <2>3. P \ {s} # {} =>
          ((Cardinality(P) - 2) + 1) * MaxCost = (Cardinality(P) - 2) * MaxCost + MaxCost
    BY <2>2, Multiples
  <2> QED
    BY <1>3, <1>4, <2>2, <2>3
<1> DEFINE rest2 == (Cardinality(P \ {s}) - 1) * MaxCost
<1>9. rest2 \in Int
  BY <1>1, <1>3, <1>4
<1> HIDE DEF rest, rest2
<1>10. sum2 <= limit2 + Overspend
  <2>1. CASE s = r
    BY <1>1, <1>6, <1>7, <2>1
  <2>2. CASE s # r
    <3>1. rest = rest2 + MaxCost /\ rest2 \in Nat
      <4>1. P \ {s} # {}
        BY <2>2
      <4>2. Cardinality(P) - 2 \in Nat
        BY <1>3, <1>4, <4>1, FS_EmptySet
      <4>3. Cardinality(P \ {s}) - 1 = Cardinality(P) - 2
        BY <1>3, <1>4
      <4>4. rest2 \in Nat
        BY <4>2, <4>3, Multiples DEF rest2
      <4>5. rest = rest2 + MaxCost
        BY <1>8, <4>1 DEF rest2
      <4> QED
        BY <4>4, <4>5
    <3> QED
      BY <1>1, <1>5, <1>7, <2>2, <3>1
  <2> QED
    BY <2>1, <2>2
<1>11. ASSUME P \ {s} # {}
       PROVE  \E q \in P \ {s} : sum2 + sp2[q].amount + rest2 <= limit2 + Overspend
  <2>1. rest = rest2 + MaxCost
    BY <1>8, <1>11 DEF rest2
  <2>2. CASE s = r
    <3>1. PICK q \in P \ {s} : TRUE
      BY <1>11
    <3>2. sp2[q].amount \in Nat /\ sp2[q].amount <= MaxCost
      BY <1>1
    <3>3. sum2 + sp2[q].amount + rest2 <= limit2 + Overspend
      BY <1>1, <1>6, <1>7, <1>9, <2>1, <2>2, <3>2
    <3> QED
      BY <3>3
  <2>3. CASE s # r
    <3>1. r \in P \ {s} /\ sp2[r].amount = sp[r].amount
      BY <2>3
    <3>2. sum2 + sp2[r].amount + rest2 <= limit2 + Overspend
      BY <1>1, <1>5, <1>7, <1>9, <2>1, <2>3, <3>1
    <3> QED
      BY <3>1, <3>2
  <2> QED
    BY <2>2, <2>3
<1> QED
  BY <1>10, <1>11 DEF Rooms, rest2

LEMMA RoomsJoin ==
    ASSUME NEW sp, NEW P \in SUBSET Spenders, NEW s \in Spenders, s \notin P,
           NEW sum \in Nat, NEW limit \in Nat, sp[s].amount \in 0 .. MaxCost,
           sum + sp[s].amount <= limit
    PROVE  Rooms(sum, P \cup {s}, limit, sp)
<1>1. Overspend \in Nat /\ MaxCost \in Nat /\ sp[s].amount \in Nat
  BY BudgetNumbers
<1>2. IsFiniteSet(P) /\ Cardinality(P) \in Nat
  BY BudgetNumbers, FS_Subset, FS_CardinalityType
<1>3. Cardinality(P \cup {s}) = Cardinality(P) + 1
  BY <1>2, FS_AddElement
<1>4. Cardinality(P \cup {s}) <= Cardinality(Spenders)
  BY BudgetNumbers, FS_Subset
<1>5. Cardinality(P) * MaxCost <= Overspend /\ Cardinality(P) * MaxCost \in Nat
  BY <1>2, <1>3, <1>4, BudgetNumbers, Multiples DEF Overspend
<1> DEFINE rest == Cardinality(P) * MaxCost
<1>6. (Cardinality(P \cup {s}) - 1) * MaxCost = rest
  BY <1>2, <1>3
<1>7. rest \in Nat /\ rest <= Overspend
  BY <1>5
<1> HIDE DEF rest
<1>8. sum + sp[s].amount + rest <= limit + Overspend /\ sum <= limit + Overspend
  BY <1>1, <1>7
<1> QED
  BY <1>6, <1>8 DEF Rooms

(***************************************************************************)
(* What is stored.                                                         *)
(***************************************************************************)
LEMMA UnitsGrow ==
    ASSUME spent \in [Texts -> Nat], NEW mm \in Texts, NEW aa \in Nat,
           spent' = [spent EXCEPT ![mm] = @ + aa], IsFiniteSet(Units(Texts)),
           NEW W \in SUBSET Texts
    PROVE  /\ IsFiniteSet(Units(Texts))' /\ SpentAt(W) \in Nat /\ SpentAt(W)' \in Nat
           /\ SpentAt(W)' = SpentAt(W) + (IF mm \in W THEN aa ELSE 0)
<1> DEFINE more == {mm} \X ((spent[mm] + 1) .. (spent[mm] + aa))
<1>1. spent[mm] \in Nat /\ spent'[mm] = spent[mm] + aa
      /\ \A n \in Texts : n # mm => spent'[n] = spent[n]
  OBVIOUS
<1>2. 1 .. spent'[mm] = (1 .. spent[mm]) \cup ((spent[mm] + 1) .. (spent[mm] + aa))
  BY <1>1
<1>3. IsFiniteSet(more) /\ Cardinality(more) = aa
  <2> DEFINE R == (spent[mm] + 1) .. (spent[mm] + aa)
  <2>1. spent[mm] + 1 \in Int /\ spent[mm] + aa \in Int
    BY <1>1
  <2>2. IsFiniteSet(R) /\ Cardinality(R) = aa
    <3>1. IsFiniteSet(R) /\ Cardinality(R) = IF spent[mm] + 1 > spent[mm] + aa THEN 0
               ELSE (spent[mm] + aa) - (spent[mm] + 1) + 1
      BY <2>1, FS_Interval
    <3> QED
      BY <1>1, <3>1
  <2>3. IsFiniteSet({mm}) /\ Cardinality({mm}) = 1
    BY FS_Singleton
  <2> HIDE DEF R
  <2>4. IsFiniteSet({mm} \X R) /\ Cardinality({mm} \X R) = 1 * aa
    BY <2>2, <2>3, FS_Product
  <2> QED
    BY <2>4 DEF R
<1>4. ASSUME NEW V \in SUBSET Texts
      PROVE  Units(V)' = Units(V) \cup (IF mm \in V THEN more ELSE {})
  <2>1. \A x : x \in Units(V)' <=> \E m \in V : x \in {m} \X (1 .. spent'[m])
    BY DEF Units
  <2>2. \A x : x \in Units(V) <=> \E m \in V : x \in {m} \X (1 .. spent[m])
    BY DEF Units
  <2>3. \A x : x \in {mm} \X (1 .. spent'[mm]) <=> x \in {mm} \X (1 .. spent[mm]) \/ x \in more
    BY <1>2
  <2> HIDE DEF more
  <2>4. \A m \in V : m # mm => {m} \X (1 .. spent'[m]) = {m} \X (1 .. spent[m])
    BY <1>1
  <2>5. \A x : x \in Units(V)' <=> x \in Units(V) \/ (mm \in V /\ x \in more)
    BY <2>1, <2>2, <2>3, <2>4
  <2> QED
    BY <2>5
<1>5. Units(W) \subseteq Units(Texts)
  BY DEF Units
<1>6. IsFiniteSet(Units(W)) /\ Cardinality(Units(W)) \in Nat
  BY <1>5, FS_Subset, FS_CardinalityType
<1>7. Units(W) \cap more = {}
  <2>1. \A x \in Units(W) : \E m \in W : x \in {m} \X (1 .. spent[m])
    BY DEF Units
  <2>2. \A x \in more : x[1] = mm /\ x[2] > spent[mm]
    BY <1>1
  <2>3. \A x \in Units(W) : x[1] = mm => x[2] <= spent[mm]
    BY <1>1, <2>1
  <2>4. \A x \in Units(W) : x[2] \in Int
    BY <2>1
  <2>5. \A x \in Units(W) : x[1] = mm => ~(x[2] > spent[mm])
    BY <1>1, <2>3, <2>4
  <2> QED
    BY <2>2, <2>5
<1> HIDE DEF more
<1>8. IsFiniteSet(Units(Texts))'
  <2>1. Units(Texts)' = Units(Texts) \cup more
    BY <1>4
  <2>2. IsFiniteSet(Units(Texts) \cup more)
    BY <1>3, FS_Union
  <2> QED
    BY <2>1, <2>2
<1>9. SpentAt(W)' = SpentAt(W) + (IF mm \in W THEN aa ELSE 0)
  <2>1. CASE mm \in W
    <3>1. Units(W)' = Units(W) \cup more
      BY <1>4, <2>1
    <3>2. Cardinality(Units(W) \cup more) = Cardinality(Units(W)) + Cardinality(more)
                                            - Cardinality(Units(W) \cap more)
      BY <1>3, <1>6, FS_Union
    <3>3. Cardinality(Units(W) \cap more) = 0
      BY <1>7, FS_EmptySet
    <3> QED
      BY <1>3, <1>6, <2>1, <3>1, <3>2, <3>3 DEF SpentAt
  <2>2. CASE mm \notin W
    <3>1. Units(W)' = Units(W)
      BY <1>4, <2>2
    <3>2. SpentAt(W)' = SpentAt(W) /\ SpentAt(W) \in Nat
      BY <1>6, <3>1 DEF SpentAt
    <3> QED
      BY <2>2, <3>2
  <2> QED
    BY <2>1, <2>2
<1> QED
  BY <1>6, <1>8, <1>9 DEF SpentAt

LEMMA SpentTypes ==
    ASSUME spent \in [Texts -> Nat], IsFiniteSet(Units(Texts)),
           NEW W \in SUBSET Texts, NEW V \in SUBSET W
    PROVE  SpentAt(W) \in Nat /\ SpentAt(V) \in Nat /\ SpentAt(V) <= SpentAt(W)
<1>1. Units(W) \subseteq Units(Texts) /\ Units(V) \subseteq Units(W)
  BY DEF Units
<1>2. IsFiniteSet(Units(W)) /\ IsFiniteSet(Units(V))
  BY <1>1, FS_Subset
<1> QED
  BY <1>1, <1>2, FS_Subset, FS_CardinalityType DEF SpentAt

(***************************************************************************)
(* The caps in their order, and the periods.                               *)
(***************************************************************************)
LEMMA FollowingIs ==
    ASSUME NEW caps, NEW c \in {"start", "daily", "monthly", "cumulative"}
    PROVE  LET d == Following(caps, c)
           IN  /\ d \in Caps \cup {"append"} /\ Rank[c] < Rank[d]
               /\ d # "append" => caps[d] # NoLimit
               /\ \A e \in Caps \cup {"append"} :
                    Rank[e] > Rank[c] /\ (e = "append" \/ caps[e] # NoLimit) => Rank[d] <= Rank[e]
<1> DEFINE asked(e) == Rank[e] > Rank[c] /\ (e = "append" \/ caps[e] # NoLimit)
           First(d) == asked(d) /\ \A e \in Caps \cup {"append"} : asked(e) => Rank[d] <= Rank[e]
<1>1. /\ Rank["start"] = 0 /\ Rank["daily"] = 1 /\ Rank["monthly"] = 2
      /\ Rank["cumulative"] = 3 /\ Rank["append"] = 4
  BY DEF Rank
<1>2. Caps \cup {"append"} = {"daily", "monthly", "cumulative", "append"}
  BY DEF Caps
<1>3. asked("append")
  BY <1>1
<1>4. \E d \in Caps \cup {"append"} : First(d)
  <2>1. CASE asked("daily")
    <3>1. First("daily")
      BY <1>1, <1>2, <2>1
    <3> QED
      BY <1>2, <3>1
  <2>2. CASE ~asked("daily") /\ asked("monthly")
    <3>1. First("monthly")
      BY <1>1, <1>2, <2>2
    <3> QED
      BY <1>2, <3>1
  <2>3. CASE ~asked("daily") /\ ~asked("monthly") /\ asked("cumulative")
    <3>1. First("cumulative")
      BY <1>1, <1>2, <2>3
    <3> QED
      BY <1>2, <3>1
  <2>4. CASE ~asked("daily") /\ ~asked("monthly") /\ ~asked("cumulative")
    <3>1. First("append")
      BY <1>1, <1>2, <1>3, <2>4
    <3> QED
      BY <1>2, <3>1
  <2> QED
    BY <2>1, <2>2, <2>3, <2>4
<1>5. Following(caps, c) = CHOOSE d \in Caps \cup {"append"} : First(d)
  BY DEF Following
<1> HIDE DEF First
<1>6. Following(caps, c) \in Caps \cup {"append"} /\ First(Following(caps, c))
  BY <1>4, <1>5
<1>7. Rank[c] \in 0 .. 3 /\ \A d \in Caps \cup {"append"} : Rank[d] \in 1 .. 4
  BY <1>1, <1>2
<1>8. /\ Rank[Following(caps, c)] > Rank[c]
      /\ Following(caps, c) # "append" => caps[Following(caps, c)] # NoLimit
      /\ \A e \in Caps \cup {"append"} :
           Rank[e] > Rank[c] /\ (e = "append" \/ caps[e] # NoLimit)
              => Rank[Following(caps, c)] <= Rank[e]
  BY <1>6 DEF First
<1> QED
  BY <1>6, <1>7, <1>8

(* What a request has passed once it goes on: what it had, the cap that    *)
(* has been checked, and caps there are no limits for.                     *)
LEMMA NoneSkipped ==
    ASSUME NEW caps, NEW c \in {"start", "daily", "monthly", "cumulative"}, NEW e \in Caps
    PROVE  /\ c \in After(e) => Following(caps, c) \in After(e)
           /\ c = e => Following(caps, c) \in After(e)
           /\ Following(caps, c) \in After(e) => c = e \/ c \in After(e) \/ caps[e] = NoLimit
<1> DEFINE d == Following(caps, c)
<1>1. /\ d \in Caps \cup {"append"} /\ Rank[c] < Rank[d]
      /\ \A f \in Caps \cup {"append"} :
           Rank[f] > Rank[c] /\ (f = "append" \/ caps[f] # NoLimit) => Rank[d] <= Rank[f]
  BY FollowingIs
<1> HIDE DEF d
<1>2. /\ Rank["start"] = 0 /\ Rank["daily"] = 1 /\ Rank["monthly"] = 2
      /\ Rank["cumulative"] = 3 /\ Rank["append"] = 4
  BY DEF Rank
<1>3. \A f \in {"start", "daily", "monthly", "cumulative", "append"} :
        f \in After(e) <=> Rank[f] > Rank[e]
  <2>1. CASE e = "daily"
    BY <1>2, <2>1 DEF After
  <2>2. CASE e = "monthly"
    BY <1>2, <2>2 DEF After
  <2>3. CASE e = "cumulative"
    BY <1>2, <2>3 DEF After
  <2> QED
    BY <2>1, <2>2, <2>3 DEF Caps
<1>4. d \in {"daily", "monthly", "cumulative", "append"} /\ e \in {"daily", "monthly", "cumulative"}
  BY <1>1 DEF Caps
<1>5. Rank[c] \in 0 .. 4 /\ Rank[d] \in 0 .. 4 /\ Rank[e] \in 0 .. 4
  BY <1>2, <1>4
<1>6. d \in After(e) <=> Rank[d] > Rank[e]
  BY <1>3, <1>4
<1>7. c \in After(e) <=> Rank[c] > Rank[e]
  BY <1>3
<1>8. Rank[c] = Rank[e] => c = e
  BY <1>2, <1>4
<1>9. caps[e] # NoLimit /\ Rank[e] > Rank[c] => Rank[d] <= Rank[e]
  BY <1>1
<1>10. /\ c \in After(e) => d \in After(e)
       /\ c = e => d \in After(e)
       /\ d \in After(e) => c = e \/ c \in After(e) \/ caps[e] = NoLimit
  BY <1>1, <1>5, <1>6, <1>7, <1>8, <1>9
<1> QED
  BY <1>10 DEF d

LEMMA Periods ==
    ASSUME NEW c \in {"daily", "monthly"}, NEW x \in Nat, NEW t \in Nat
    PROVE  /\ FirstHour(x, c) \in 0 .. x /\ FirstHour(t, c) \in 0 .. t
           /\ Midnight(x, c) = 2 * FirstHour(x, c) + 4
           /\ Midnight(t, c) = 2 * FirstHour(t, c) + 4
           /\ FirstHour(x, c) < FirstHour(t, c) + Length[c] => FirstHour(x, c) <= FirstHour(t, c)
<1>1. Length["daily"] = 2 /\ Length["monthly"] = 4
  BY DEF Length
<1>2. CASE c = "daily"
  <2>1. FirstHour(x, c) = x - (x % 2) /\ FirstHour(t, c) = t - (t % 2) /\ Length[c] = 2
    BY <1>1, <1>2 DEF FirstHour
  <2>2. x = 2 * (x \div 2) + (x % 2) /\ t = 2 * (t \div 2) + (t % 2)
        /\ x % 2 \in 0 .. 1 /\ t % 2 \in 0 .. 1 /\ x \div 2 \in Nat /\ t \div 2 \in Nat
    OBVIOUS
  <2>3. FirstHour(x, c) = 2 * (x \div 2) /\ FirstHour(t, c) = 2 * (t \div 2)
    BY <2>1, <2>2
  <2>4. 2 * (x \div 2) < 2 * (t \div 2) + 2 => 2 * (x \div 2) <= 2 * (t \div 2)
    BY <2>2
  <2> QED
    BY <2>1, <2>2, <2>3, <2>4 DEF Midnight
<1>3. CASE c = "monthly"
  <2>1. FirstHour(x, c) = x - (x % 4) /\ FirstHour(t, c) = t - (t % 4) /\ Length[c] = 4
    BY <1>1, <1>3 DEF FirstHour
  <2>2. x = 4 * (x \div 4) + (x % 4) /\ t = 4 * (t \div 4) + (t % 4)
        /\ x % 4 \in 0 .. 3 /\ t % 4 \in 0 .. 3 /\ x \div 4 \in Nat /\ t \div 4 \in Nat
    OBVIOUS
  <2>3. FirstHour(x, c) = 4 * (x \div 4) /\ FirstHour(t, c) = 4 * (t \div 4)
    BY <2>1, <2>2
  <2>4. 4 * (x \div 4) < 4 * (t \div 4) + 4 => 4 * (x \div 4) <= 4 * (t \div 4)
    BY <2>2
  <2> QED
    BY <2>1, <2>2, <2>3, <2>4 DEF Midnight
<1> QED
  BY <1>2, <1>3

(* What is counted at a check made in a period, or before it, is all that  *)
(* is stored in the period.                                                *)
LEMMA CountedInPeriod ==
    ASSUME NEW c \in {"daily", "monthly"}, NEW x \in Nat, NEW t \in Nat
    PROVE  /\ Within(c, t) \subseteq Texts
           /\ FirstHour(x, c) <= FirstHour(t, c)
                => Within(c, t) \subseteq {m \in Texts : m > Midnight(x, c)}
           /\ \A m \in Within(c, t) : 2 * x + 4 <= m => FirstHour(x, c) <= FirstHour(t, c)
<1>1. /\ FirstHour(x, c) \in 0 .. x /\ FirstHour(t, c) \in 0 .. t
      /\ Midnight(x, c) = 2 * FirstHour(x, c) + 4
      /\ Midnight(t, c) = 2 * FirstHour(t, c) + 4
      /\ FirstHour(x, c) < FirstHour(t, c) + Length[c] => FirstHour(x, c) <= FirstHour(t, c)
  BY Periods
<1>2. Texts \subseteq Nat
  BY BudgetNumbers
<1>3. Length[c] \in Nat
  BY DEF Length
<1>4. Within(c, t) \subseteq Texts
  BY DEF Within
<1>5. ASSUME FirstHour(x, c) <= FirstHour(t, c), NEW m \in Within(c, t)
      PROVE  m > Midnight(x, c)
  <2>1. m \in Nat /\ m > Midnight(t, c)
    BY <1>2, <1>4 DEF Within
  <2> QED
    BY <1>1, <1>5, <2>1
<1>6. ASSUME NEW m \in Within(c, t), 2 * x + 4 <= m
      PROVE  FirstHour(x, c) <= FirstHour(t, c)
  <2>1. m \in Nat /\ m < Midnight(t, c) + 2 * Length[c]
    BY <1>2, <1>4 DEF Within
  <2> QED
    BY <1>1, <1>3, <1>6, <2>1
<1> QED
  BY <1>4, <1>5, <1>6

(***************************************************************************)
(* A step of one request.                                                  *)
(***************************************************************************)
LEMMA RoomsStep ==
    ASSUME NEW sp, NEW sp2, NEW P \in SUBSET Spenders, NEW P2 \in SUBSET Spenders,
           NEW s \in Spenders, P2 \ {s} = P \ {s},
           NEW sum \in Nat, NEW sum2 \in Nat, NEW limit \in Nat, NEW limit2 \in Nat,
           limit <= limit2,
           \A r \in Spenders : sp[r].amount \in 0 .. MaxCost,
           \A r \in Spenders \ {s} : sp2[r].amount = sp[r].amount,
           sp2[s].amount \in 0 .. MaxCost,
           s \in P /\ s \in P2 => sp2[s].amount = sp[s].amount,
           s \notin P2 /\ s \in P => sum2 <= sum + sp[s].amount,
           s \in P2 \/ s \notin P => sum2 <= sum,
           s \in P2 /\ s \notin P => sum2 + sp2[s].amount <= limit2,
           Rooms(sum, P, limit, sp)
    PROVE  Rooms(sum2, P2, limit2, sp2)
<1>1. CASE s \in P /\ s \in P2
  <2>1. P2 = P
    <3>1. \A r : r \in P2 \ {s} <=> r \in P \ {s}
      OBVIOUS
    <3>2. \A r : r \in P2 <=> r \in P
      BY <1>1, <3>1
    <3> QED
      BY <3>2
  <2>2. \A r \in P : sp[r].amount \in 0 .. MaxCost /\ sp2[r].amount = sp[r].amount
    BY <1>1
  <2>3. Rooms(sum2, P, limit2, sp2)
    BY <1>1, <2>2, RoomsStay
  <2> QED
    BY <2>1, <2>3
<1>2. CASE s \notin P /\ s \notin P2
  <2>1. P2 = P
    <3>1. \A r : r \in P2 \ {s} <=> r \in P \ {s}
      OBVIOUS
    <3>2. \A r : r \in P2 <=> r \in P
      BY <1>2, <3>1
    <3> QED
      BY <3>2
  <2>2. \A r \in P : sp[r].amount \in 0 .. MaxCost /\ sp2[r].amount = sp[r].amount
    BY <1>2
  <2>3. Rooms(sum2, P, limit2, sp2)
    BY <1>2, <2>2, RoomsStay
  <2> QED
    BY <2>1, <2>3
<1>3. CASE s \in P /\ s \notin P2
  <2>1. P2 = P \ {s}
    BY <1>3
  <2>2. Rooms(sum2, P \ {s}, limit2, sp2)
    BY <1>3, RoomsLeave
  <2> QED
    BY <2>1, <2>2
<1>4. CASE s \notin P /\ s \in P2
  <2>1. P2 = P \cup {s}
    BY <1>4
  <2>2. Rooms(sum2, P \cup {s}, limit2, sp2)
    BY <1>4, RoomsJoin
  <2> QED
    BY <2>1, <2>2
<1> QED
  BY <1>1, <1>2, <1>3, <1>4

SpenderRow == [step : Steps \cup {"idle"}, amount : Nat,
               caps : [Caps -> Nat \cup {NoLimit}] \cup {NoLimit},
               asOf : 0 .. MaxTime, text : Texts]

Raised == \A c \in Caps : highest'[c] # NoLimit =>
              highest[c] # NoLimit /\ highest[c] <= highest'[c]

(* The caps that a request passes by a step have room for it.              *)
Passes(x, y, c) == y.step \in After(c) /\ x.step \notin After(c) /\ highest'[c] # NoLimit

Admitted(x, y) ==
    /\ \A c \in Caps : y.step \in After(c) /\ x.step \in After(c) /\ highest'[c] # NoLimit
          => y.amount = x.amount /\ y.asOf = x.asOf
    /\ Passes(x, y, "cumulative") => SpentAt(Texts) + y.amount <= highest["cumulative"]
    /\ \A c \in {"daily", "monthly"}, t \in 0 .. (MaxTime + 2) :
          Passes(x, y, c) /\ FirstHour(y.asOf, c) <= FirstHour(t, c)
            => SpentAt(Within(c, t)) + y.amount <= highest[c]

LEMMA AmountsFit ==
    ASSUME BudgetInv, NEW r \in Spenders
    PROVE  /\ spender[r] \in SpenderRow /\ spender[r].amount \in 0 .. MaxCost
           /\ SpenderOK(spender[r])
<1>1. spender[r] \in SpenderRow /\ SpenderOK(spender[r])
  BY DEF BudgetInv, BudgetTypeOK, SpenderRow
<1>2. spender[r].amount \in Nat /\ spender[r].amount <= MaxCost
  BY <1>1 DEF SpenderRow, SpenderOK
<1> QED
  BY <1>1, <1>2, BudgetNumbers

LEMMA StaysOK ==
    ASSUME BudgetInv, Raised, highest' \in [Caps -> Nat \cup {NoLimit}], hour' \in Nat,
           hour <= hour', zone' = zone, NEW x \in SpenderRow, SpenderOK(x)
    PROVE  SpenderOK(x)'
<1>1. x.amount <= MaxCost
  BY DEF SpenderOK
<1>2. ASSUME x.step \in Checking
      PROVE  /\ x.caps \in [Caps -> Nat \cup {NoLimit}] /\ x.asOf <= hour'
             /\ \A c \in Caps : UnderLimit(x.caps[c], c)'
             /\ x.step \in Caps => x.caps[x.step] # NoLimit
  <2>1. /\ x.caps \in [Caps -> Nat \cup {NoLimit}] /\ x.asOf <= hour
        /\ \A c \in Caps : UnderLimit(x.caps[c], c)
        /\ x.step \in Caps => x.caps[x.step] # NoLimit
    BY <1>2 DEF SpenderOK
  <2>2. x.asOf \in Nat /\ hour \in Nat
    <3>1. x.asOf \in 0 .. MaxTime /\ hour \in 0 .. MaxTime
      BY DEF SpenderRow, BudgetInv, BudgetTypeOK
    <3> QED
      BY <3>1
  <2>3. ASSUME NEW c \in Caps
        PROVE  UnderLimit(x.caps[c], c)'
    <3>1. UnderLimit(x.caps[c], c)
      BY <2>1
    <3>2. /\ x.caps[c] \in Nat \cup {NoLimit} /\ highest[c] \in Nat \cup {NoLimit}
          /\ highest'[c] \in Nat \cup {NoLimit}
      BY <2>1 DEF BudgetInv, BudgetTypeOK
    <3>3. ASSUME highest'[c] # NoLimit
          PROVE  x.caps[c] # NoLimit /\ x.caps[c] <= highest'[c]
      <4>1. highest[c] # NoLimit /\ highest[c] <= highest'[c]
        BY <3>3 DEF Raised
      <4>2. x.caps[c] # NoLimit /\ x.caps[c] <= highest[c]
        BY <3>1, <4>1 DEF UnderLimit
      <4>3. x.caps[c] \in Nat /\ highest[c] \in Nat /\ highest'[c] \in Nat
        BY <3>2, <3>3, <4>1, <4>2
      <4> QED
        BY <4>1, <4>2, <4>3
    <3> QED
      BY <3>3 DEF UnderLimit
  <2>4. x.asOf <= hour'
    BY <2>1, <2>2
  <2> QED
    BY <2>1, <2>3, <2>4
<1>3. x.step = "upsert" => x.caps \in CapsRow
  BY DEF SpenderOK
<1>4. x.step = "append" /\ zone' > 0 => 2 * x.asOf + 4 <= x.text
  BY DEF SpenderOK
<1> QED
  BY <1>1, <1>2, <1>3, <1>4 DEF SpenderOK

LEMMA CoveredStep ==
    ASSUME BudgetInv, NEW s \in Spenders, NEW y \in SpenderRow,
           spender' = [spender EXCEPT ![s] = y], y.amount <= MaxCost, Raised,
           highest' \in [Caps -> Nat \cup {NoLimit}],
           NEW c \in Caps, NEW P \in SUBSET Spenders, NEW P2 \in SUBSET Spenders,
           P2 \ {s} = P \ {s}, NEW W,
           SpentAt(W) \in Nat, SpentAt(W)' \in Nat,
           SpentAt(W)' <= SpentAt(W)
             \/ (s \in P /\ s \notin P2 /\ SpentAt(W)' <= SpentAt(W) + spender[s].amount),
           s \in P2 /\ s \in P /\ highest'[c] # NoLimit => y.amount = spender[s].amount,
           s \in P2 /\ s \notin P /\ highest'[c] # NoLimit
                => SpentAt(W) + y.amount <= highest[c],
           Covered(W, P, c)
    PROVE  highest'[c] # NoLimit => Rooms(SpentAt(W)', P2, highest'[c], spender')
<1> HAVE highest'[c] # NoLimit
<1>1. highest[c] # NoLimit /\ highest[c] <= highest'[c]
  BY DEF Raised
<1>2. highest[c] \in Nat /\ highest'[c] \in Nat
  BY <1>1 DEF BudgetInv, BudgetTypeOK
<1>3. Rooms(SpentAt(W), P, highest[c], spender)
  BY <1>1 DEF Covered
<1>4. \A r \in Spenders : spender[r].amount \in 0 .. MaxCost
  BY AmountsFit
<1>5. spender'[s] = y /\ \A r \in Spenders \ {s} : spender'[r].amount = spender[r].amount
  BY DEF BudgetInv, BudgetTypeOK
<1>6. y.amount \in 0 .. MaxCost
  <2>1. y.amount \in Nat
    BY DEF SpenderRow
  <2> QED
    BY <2>1, BudgetNumbers
<1>7. spender[s].amount \in Nat /\ y.amount \in Nat /\ MaxCost \in Nat
  BY <1>4, <1>6, BudgetNumbers
<1>8. PICK sum, sum2, limit, limit2, sp, sp2 :
        /\ sum \in Nat /\ sum2 \in Nat /\ limit \in Nat /\ limit2 \in Nat
        /\ sum = SpentAt(W) /\ sum2 = SpentAt(W)' /\ limit = highest[c] /\ limit2 = highest'[c]
        /\ sp = spender /\ sp2 = spender'
  BY <1>2
<1>9. /\ s \in P /\ s \in P2 => sp2[s].amount = sp[s].amount
      /\ s \notin P2 /\ s \in P => sum2 <= sum + sp[s].amount
      /\ s \in P2 \/ s \notin P => sum2 <= sum
      /\ s \in P2 /\ s \notin P => sum2 + sp2[s].amount <= limit2
  <2>1. sp2[s] = y /\ sp[s].amount \in Nat
    BY <1>5, <1>7, <1>8
  <2>2. s \in P /\ s \in P2 => sp2[s].amount = sp[s].amount
    BY <1>8, <2>1
  <2>3. sum2 <= sum \/ (s \in P /\ s \notin P2 /\ sum2 <= sum + sp[s].amount)
    BY <1>8
  <2>4. s \in P2 /\ s \notin P => sum + y.amount <= limit
    BY <1>8
  <2>5. limit <= limit2
    BY <1>1, <1>8
  <2> QED
    BY <1>7, <1>8, <2>1, <2>2, <2>3, <2>4, <2>5
<1>10. Rooms(sum2, P2, limit2, sp2)
  <2>1. limit <= limit2 /\ Rooms(sum, P, limit, sp)
    BY <1>1, <1>3, <1>8
  <2>2. /\ \A r \in Spenders : sp[r].amount \in 0 .. MaxCost
        /\ \A r \in Spenders \ {s} : sp2[r].amount = sp[r].amount
        /\ sp2[s].amount \in 0 .. MaxCost
    BY <1>4, <1>5, <1>6, <1>8
  <2>3. sum \in Nat /\ sum2 \in Nat /\ limit \in Nat /\ limit2 \in Nat
    BY <1>8
  <2> QED
    BY <1>9, <2>1, <2>2, <2>3, RoomsStep
<1> QED
  BY <1>8, <1>10

LEMMA SpenderMoves ==
    ASSUME BudgetInv, NEW s \in Spenders, NEW y \in SpenderRow,
           spender' = [spender EXCEPT ![s] = y], SpenderOK(y)',
           hour' = hour, zone' = zone,
           capsRow' \in CapsRow \cup {NoLimit},
           highest' \in [Caps -> Nat \cup {NoLimit}], Raised,
           \A c \in Caps : UnderLimit(Effective(capsRow)[c], c)',
           orders' \in 0 .. MaxOrders, Admitted(spender[s], y),
           \/ spent' = spent
           \/ /\ spender[s].step = "append" /\ y.step = "idle"
              /\ spent' = [spent EXCEPT ![spender[s].text] = @ + spender[s].amount]
    PROVE  BudgetInv'
<1> DEFINE x == spender[s]
<1>0. /\ \A c \in Caps : y.step \in After(c) /\ x.step \in After(c) /\ highest'[c] # NoLimit
           => y.amount = x.amount /\ y.asOf = x.asOf
      /\ Passes(x, y, "cumulative") => SpentAt(Texts) + y.amount <= highest["cumulative"]
      /\ \A c \in {"daily", "monthly"}, t \in 0 .. (MaxTime + 2) :
           Passes(x, y, c) /\ FirstHour(y.asOf, c) <= FirstHour(t, c)
             => SpentAt(Within(c, t)) + y.amount <= highest[c]
  BY DEF Admitted
<1>1. x \in SpenderRow /\ x.amount \in 0 .. MaxCost /\ SpenderOK(x) /\ y.amount <= MaxCost
  BY AmountsFit DEF SpenderOK
<1>2. x.text \in Texts /\ x.amount \in Nat /\ x.asOf \in 0 .. MaxTime /\ y.asOf \in 0 .. MaxTime
      /\ y.amount \in Nat
  BY <1>1 DEF SpenderRow
<1>3. spent \in [Texts -> Nat] /\ IsFiniteSet(Units(Texts)) /\ hour \in 0 .. MaxTime /\ zone \in 0 .. 2
  BY DEF BudgetInv, BudgetTypeOK
<1>4. PICK mm \in Texts, aa \in Nat, more \in BOOLEAN :
        /\ mm = x.text /\ aa = x.amount /\ (more <=> spent' # spent)
  BY <1>2
<1>5. more => /\ x.step = "append" /\ y.step = "idle"
              /\ spent' = [spent EXCEPT ![mm] = @ + aa]
  BY <1>4
<1>6. ASSUME NEW W \in SUBSET Texts
      PROVE  /\ IsFiniteSet(Units(Texts))' /\ SpentAt(W) \in Nat /\ SpentAt(W)' \in Nat
             /\ SpentAt(W)' = SpentAt(W) + (IF more /\ mm \in W THEN aa ELSE 0)
  <2>1. CASE more
    BY <1>3, <1>5, <2>1, UnitsGrow
  <2>2. CASE ~more
    <3>1. spent' = spent
      BY <1>4, <2>2
    <3>2. SpentAt(W) \in Nat
      BY <1>3, SpentTypes
    <3>3. SpentAt(W)' = SpentAt(W) /\ Units(Texts)' = Units(Texts)
      BY <3>1 DEF SpentAt, Units
    <3> QED
      BY <1>3, <2>2, <3>2, <3>3
  <2> QED
    BY <2>1, <2>2
<1>7. spent' \in [Texts -> Nat]
  <2>1. CASE more
    BY <1>3, <1>5, <2>1
  <2>2. CASE ~more
    BY <1>3, <1>4, <2>2
  <2> QED
    BY <2>1, <2>2
<1>8. spender' \in [Spenders -> SpenderRow] /\ spender'[s] = y
      /\ \A r \in Spenders : r # s => spender'[r] = spender[r]
  BY DEF BudgetInv, BudgetTypeOK, SpenderRow
<1>9. BudgetTypeOK'
  BY <1>3, <1>7, <1>8 DEF BudgetTypeOK, SpenderRow
<1>10. ASSUME NEW r \in Spenders
       PROVE  SpenderOK(spender[r])'
  <2>1. CASE r = s
    BY <1>8, <2>1
  <2>2. CASE r # s
    <3>1. hour \in Nat /\ hour <= hour'
      BY <1>3
    <3>2. PICK z \in SpenderRow : z = spender[r] /\ SpenderOK(z)
      BY AmountsFit
    <3>3. SpenderOK(z)'
      BY <3>1, <3>2, StaysOK
    <3> QED
      BY <1>8, <2>2, <3>2, <3>3
  <2> QED
    BY <2>1, <2>2
<1>11. "idle" \notin After("daily") /\ "idle" \notin After("monthly") /\ "idle" \notin After("cumulative")
       /\ \A c \in Caps : "append" \in After(c) /\ "idle" \notin After(c)
  BY DEF After, Caps
<1>12. ASSUME NEW c \in Caps, NEW times \in SUBSET (0 .. MaxTime), NEW W \in SUBSET Texts,
              highest[c] # NoLimit =>
                Rooms(SpentAt(W), {r \in Past(c) : spender[r].asOf \in times}, highest[c], spender),
              more /\ mm \in W => x.asOf \in times,
              Passes(x, y, c) /\ y.asOf \in times => SpentAt(W) + y.amount <= highest[c]
       PROVE  highest'[c] # NoLimit =>
                Rooms(SpentAt(W)', {r \in Past(c)' : spender'[r].asOf \in times},
                      highest'[c], spender')
  <2> DEFINE P == {r \in Past(c) : spender[r].asOf \in times}
             P2 == {r \in Spenders : /\ spender'[r].step \in After(c)
                                     /\ spender'[r].asOf \in times}
  <2>1. {r \in Past(c)' : spender'[r].asOf \in times} = P2
    BY DEF Past
  <2>2. /\ P \in SUBSET Spenders /\ P2 \in SUBSET Spenders /\ P2 \ {s} = P \ {s}
        /\ s \in P <=> x.step \in After(c) /\ x.asOf \in times
        /\ s \in P2 <=> y.step \in After(c) /\ y.asOf \in times
    BY <1>8 DEF Past
  <2>3. Covered(W, P, c)
    BY <1>12 DEF Covered
  <2>4. SpentAt(W) \in Nat /\ SpentAt(W)' \in Nat
    BY <1>6
  <2> HIDE DEF P, P2
  <2>5. \/ SpentAt(W)' <= SpentAt(W)
        \/ s \in P /\ s \notin P2 /\ SpentAt(W)' <= SpentAt(W) + x.amount
    <3>1. CASE more /\ mm \in W
      <4>1. s \in P /\ s \notin P2
        BY <1>5, <1>11, <1>12, <2>2, <3>1
      <4>2. SpentAt(W)' = SpentAt(W) + x.amount
        BY <1>4, <1>6, <3>1
      <4> QED
        BY <1>2, <2>4, <4>1, <4>2
    <3>2. CASE ~(more /\ mm \in W)
      <4>1. SpentAt(W)' = SpentAt(W) + 0
        BY <1>6, <3>2
      <4> QED
        BY <2>4, <4>1
    <3> QED
      BY <3>1, <3>2
  <2>6. /\ s \in P2 /\ s \in P /\ highest'[c] # NoLimit => y.amount = x.amount
        /\ s \in P2 /\ s \notin P /\ highest'[c] # NoLimit
             => SpentAt(W) + y.amount <= highest[c]
    BY <1>0, <1>12, <2>2 DEF Passes
  <2>7. highest'[c] # NoLimit => Rooms(SpentAt(W)', P2, highest'[c], spender')
    BY <1>1, <2>2, <2>3, <2>4, <2>5, <2>6, CoveredStep
  <2> QED
    BY <2>1, <2>7
<1>13. Covered(Texts, Past("cumulative"), "cumulative")'
  <2>1. /\ {r \in Past("cumulative") : spender[r].asOf \in 0 .. MaxTime} = Past("cumulative")
        /\ {r \in Past("cumulative")' : spender'[r].asOf \in 0 .. MaxTime} = Past("cumulative")'
    <3>1. \A r \in Spenders : spender[r].asOf \in 0 .. MaxTime /\ spender'[r].asOf \in 0 .. MaxTime
      BY <1>8, AmountsFit DEF SpenderRow
    <3> QED
      BY <3>1 DEF Past
  <2>2. highest["cumulative"] # NoLimit =>
          Rooms(SpentAt(Texts), Past("cumulative"), highest["cumulative"], spender)
    BY DEF BudgetInv, Covered
  <2>3. PICK W \in SUBSET Texts, c \in Caps, times \in SUBSET (0 .. MaxTime) :
          W = Texts /\ c = "cumulative" /\ times = 0 .. MaxTime
    BY DEF Caps
  <2>4. highest[c] # NoLimit =>
          Rooms(SpentAt(W), {r \in Past(c) : spender[r].asOf \in times}, highest[c], spender)
    BY <2>1, <2>2, <2>3
  <2>5. Passes(x, y, c) /\ y.asOf \in times => SpentAt(W) + y.amount <= highest[c]
    BY <1>0, <2>3
  <2>6. x.asOf \in times
    BY <1>2, <2>3
  <2>7. highest'[c] # NoLimit =>
          Rooms(SpentAt(W)', {r \in Past(c)' : spender'[r].asOf \in times}, highest'[c], spender')
    BY <1>12, <2>5, <2>4, <2>6
  <2>8. highest'["cumulative"] # NoLimit =>
          Rooms(SpentAt(Texts)', Past("cumulative")', highest'["cumulative"], spender')
    BY <2>1, <2>3, <2>7, ZenonT(90)
  <2> QED
    BY <2>8 DEF Covered
<1>14. ASSUME zone > 0, NEW c \in {"daily", "monthly"}, NEW t \in 0 .. (MaxTime + 2)
       PROVE  Covered(Within(c, t), PastIn(c, t), c)'
  <2> DEFINE times == {h \in 0 .. MaxTime : FirstHour(h, c) <= FirstHour(t, c)}
  <2>1. PICK W \in SUBSET Texts : W = Within(c, t)
    BY DEF Within
  <2>2. /\ {r \in Past(c) : spender[r].asOf \in times} = PastIn(c, t)
        /\ {r \in Past(c)' : spender'[r].asOf \in times} = PastIn(c, t)'
    <3>1. \A r \in Spenders : spender[r].asOf \in 0 .. MaxTime /\ spender'[r].asOf \in 0 .. MaxTime
      BY <1>8, AmountsFit DEF SpenderRow
    <3> QED
      BY <3>1 DEF Past, PastIn
  <2>3. highest[c] # NoLimit =>
          Rooms(SpentAt(W), {r \in Past(c) : spender[r].asOf \in times}, highest[c], spender)
    BY <1>14, <2>1, <2>2 DEF BudgetInv, Covered
  <2>4. more /\ mm \in W => x.asOf \in times
    <3> HAVE more /\ mm \in W
    <3>1. 2 * x.asOf + 4 <= mm
      BY <1>1, <1>4, <1>5, <1>14 DEF SpenderOK
    <3>2. x.asOf \in Nat /\ t \in Nat /\ mm \in Within(c, t)
      BY <1>2, <2>1, BudgetNumbers
    <3>3. FirstHour(x.asOf, c) <= FirstHour(t, c)
      BY <3>1, <3>2, CountedInPeriod
    <3> QED
      BY <1>2, <3>3
  <2>5. Passes(x, y, c) /\ y.asOf \in times => SpentAt(W) + y.amount <= highest[c]
    BY <1>0, <2>1
  <2>6. times \in SUBSET (0 .. MaxTime) /\ c \in Caps
    BY DEF Caps
  <2> HIDE DEF times
  <2>7. highest'[c] # NoLimit =>
          Rooms(SpentAt(W)', {r \in Past(c)' : spender'[r].asOf \in times}, highest'[c], spender')
    BY <1>12, <2>3, <2>4, <2>5, <2>6
  <2>8. SpentAt(W)' = SpentAt(Within(c, t))'
    BY <2>1 DEF SpentAt, Units, Within, Midnight, FirstHour
  <2> QED
    BY <2>2, <2>7, <2>8 DEF Covered
<1> QED
  BY <1>6, <1>9, <1>10, <1>13, <1>14 DEF BudgetInv

(***************************************************************************)
(* The steps.                                                              *)
(***************************************************************************)
LEMMA RaisedSame ==
    ASSUME BudgetInv, highest' = highest, capsRow' = capsRow
    PROVE  /\ Raised /\ highest' \in [Caps -> Nat \cup {NoLimit}]
           /\ capsRow' \in CapsRow \cup {NoLimit}
           /\ \A c \in Caps : UnderLimit(Effective(capsRow)[c], c)'
<1>1. highest \in [Caps -> Nat \cup {NoLimit}] /\ capsRow \in CapsRow \cup {NoLimit}
  BY DEF BudgetInv, BudgetTypeOK
<1>2. \A c \in Caps : UnderLimit(Effective(capsRow)[c], c)'
  BY DEF BudgetInv, UnderLimit, Effective
<1>3. Raised
  <2>1. \A n \in Nat \cup {NoLimit} : n # NoLimit => n <= n
    OBVIOUS
  <2> QED
    BY <1>1, <2>1 DEF Raised
<1> QED
  BY <1>1, <1>2, <1>3

LEMMA QuietRow == Quiet \in SpenderRow /\ SpenderOK(Quiet) /\ SpenderOK(Quiet)'
                  /\ Quiet.step = "idle" /\ Quiet.amount = 0
<1>1. Quiet \in SpenderRow
  BY BudgetNumbers DEF Quiet, SpenderRow
<1>2. Quiet.step = "idle" /\ Quiet.amount = 0 /\ 0 <= MaxCost
  BY BudgetNumbers DEF Quiet
<1>3. Quiet.step \notin Checking /\ Quiet.step # "upsert" /\ Quiet.step # "append"
  BY <1>2 DEF Checking
<1> QED
  BY <1>1, <1>2, <1>3 DEF SpenderOK

LEMMA Leaving ==
    ASSUME NEW x, NEW y, y.step \in {"idle", "upsert"}
    PROVE  Admitted(x, y)
<1>1. \A c \in Caps : y.step \notin After(c)
  BY DEF Caps, After
<1> QED
  BY <1>1 DEF Admitted, Passes, Caps

(* A request ends, and has stored nothing.                                 *)
LEMMA EndsInv ==
    ASSUME BudgetInv, NEW s \in Spenders, spender' = [spender EXCEPT ![s] = Quiet],
           UNCHANGED <<capsRow, spent, hour, zone, highest, orders>>
    PROVE  BudgetInv'
<1>1. PICK y \in SpenderRow : y = Quiet
  BY QuietRow
<1>2. orders' \in 0 .. MaxOrders
  BY DEF BudgetInv, BudgetTypeOK
<1>3. Admitted(spender[s], y)
  BY <1>1, QuietRow, Leaving
<1>4. SpenderOK(y)'
  BY <1>1, QuietRow
<1> QED
  BY <1>1, <1>2, <1>3, <1>4, RaisedSame, SpenderMoves

(* What a request is to store is not before the day it has begun.          *)
LEMMA StoredIs ==
    ASSUME BudgetInv, NEW m \in Stored
    PROVE  m \in Texts /\ (zone > 0 => 2 * hour + 4 <= m)
<1>1. hour \in 0 .. MaxTime /\ zone \in 0 .. 2 /\ MaxTime \in Nat
  BY BudgetNumbers DEF BudgetInv, BudgetTypeOK
<1> DEFINE local == hour + zone + 1
<1>2. local \in Nat /\ local <= MaxTime + 3 /\ 1 <= local /\ (zone > 0 => hour + 2 <= local)
  BY <1>1
<1>3. m = 2 * local + 1 \/ m = 2 * local
  BY DEF Stored
<1> HIDE DEF local
<1>4. m \in Nat /\ 2 <= m /\ m <= 2 * MaxTime + 7 /\ (zone > 0 => 2 * hour + 4 <= m)
  BY <1>1, <1>2, <1>3
<1> QED
  BY <1>1, <1>4 DEF Texts

(* A request goes on to the next cap there is a limit for, or to store.    *)
LEMMA CallGoesOn ==
    ASSUME BudgetInv, NEW s \in Spenders, NEW sp \in SpenderRow, SpenderOK(sp),
           NEW c \in {"start", "daily", "monthly", "cumulative"},
           sp.caps \in [Caps -> Nat \cup {NoLimit}], sp.asOf <= hour, \A e \in Caps : UnderLimit(sp.caps[e], e),
           \/ c = "start" /\ spender[s].step = "idle"
           \/ c # "start" /\ sp = spender[s] /\ spender[s].step = c,
           c = "cumulative" /\ highest[c] # NoLimit => SpentAt(Texts) + sp.amount <= highest[c],
           \A t \in 0 .. (MaxTime + 2) :
              c \in {"daily", "monthly"} /\ highest[c] # NoLimit
              /\ FirstHour(sp.asOf, c) <= FirstHour(t, c)
                 => SpentAt(Within(c, t)) + sp.amount <= highest[c],
           GoOn(s, sp, c), orders' \in 0 .. MaxOrders,
           UNCHANGED <<capsRow, spent, hour, zone, highest>>
    PROVE  BudgetInv'
<1> DEFINE d == Following(sp.caps, c)
<1>1. PICK m \in IF d = "append" THEN Stored ELSE {2} :
        spender' = [spender EXCEPT ![s] = [sp EXCEPT !.step = d, !.text = m]]
  BY DEF GoOn
<1>2. d \in Caps \cup {"append"} /\ (d # "append" => sp.caps[d] # NoLimit)
  BY FollowingIs
<1>3. \A e \in Caps : /\ c \in After(e) => d \in After(e)
                      /\ c = e => d \in After(e)
                      /\ d \in After(e) => c = e \/ c \in After(e) \/ sp.caps[e] = NoLimit
  BY NoneSkipped
<1> HIDE DEF d
<1>4. m \in Texts /\ (d = "append" /\ zone > 0 => 2 * hour + 4 <= m)
  BY <1>1, StoredIs, BudgetNumbers
<1>5. PICK y : y = [sp EXCEPT !.step = d, !.text = m]
  OBVIOUS
<1>6. /\ y \in SpenderRow /\ y.step = d /\ y.text = m /\ y.amount = sp.amount
      /\ y.caps = sp.caps /\ y.asOf = sp.asOf
  BY <1>2, <1>4, <1>5 DEF SpenderRow, Steps, Caps
<1>7. SpenderOK(y)'
  <2>1. y.amount <= MaxCost
    BY <1>6 DEF SpenderOK
  <2>2. \A e \in Caps : UnderLimit(y.caps[e], e)'
    BY <1>6 DEF UnderLimit
  <2>3. y.step = "append" /\ zone' > 0 => 2 * y.asOf + 4 <= y.text
    <3>1. sp.asOf \in 0 .. MaxTime /\ hour \in 0 .. MaxTime
      BY DEF SpenderRow, BudgetInv, BudgetTypeOK
    <3>2. m \in Nat
      BY <1>4, BudgetNumbers
    <3>3. 2 * hour + 4 <= m => 2 * sp.asOf + 4 <= m
      BY <3>1, <3>2
    <3> QED
      BY <1>4, <1>6, <3>3
  <2>4. y.step # "upsert" /\ (y.step \in Caps => y.caps[y.step] # NoLimit)
    BY <1>2, <1>6 DEF Caps
  <2> QED
    BY <1>6, <2>1, <2>2, <2>3, <2>4 DEF SpenderOK
<1>8. \A e \in Caps : sp.caps[e] = NoLimit => highest[e] = NoLimit
  BY DEF UnderLimit
<1>9. Admitted(spender[s], y)
  <2>1. \A e \in Caps : "idle" \notin After(e)
    BY DEF After, Caps
  <2>2. ASSUME NEW e \in Caps, y.step \in After(e), spender[s].step \in After(e)
        PROVE  y.amount = spender[s].amount /\ y.asOf = spender[s].asOf
    BY <1>6, <2>1, <2>2
  <2>3. ASSUME NEW e \in Caps, Passes(spender[s], y, e)
        PROVE  c = e /\ highest[e] # NoLimit
    <3>1. highest[e] # NoLimit /\ d \in After(e) /\ spender[s].step \notin After(e)
      BY <1>6, <2>3 DEF Passes
    <3>2. c = e \/ c \in After(e)
      BY <1>3, <1>8, <3>1
    <3>3. "start" \notin After(e)
      BY DEF After, Caps
    <3> QED
      BY <3>1, <3>2, <3>3
  <2>4. Passes(spender[s], y, "cumulative")
          => SpentAt(Texts) + y.amount <= highest["cumulative"]
    BY <1>6, <2>3 DEF Caps
  <2>5. ASSUME NEW e \in {"daily", "monthly"}, NEW t \in 0 .. (MaxTime + 2),
               Passes(spender[s], y, e), FirstHour(y.asOf, e) <= FirstHour(t, e)
        PROVE  SpentAt(Within(e, t)) + y.amount <= highest[e]
    <3>1. c = e /\ highest[e] # NoLimit
      BY <2>3, <2>5 DEF Caps
    <3> QED
      BY <1>6, <2>5, <3>1
  <2> QED
    BY <2>2, <2>4, <2>5 DEF Admitted
<1>10. spender' = [spender EXCEPT ![s] = y]
  BY <1>1, <1>5
<1> QED
  BY <1>6, <1>7, <1>9, <1>10, RaisedSame, SpenderMoves

LEMMA EffectiveType ==
    ASSUME NEW old \in CapsRow \cup {NoLimit}
    PROVE  Effective(old) \in [Caps -> Nat \cup {NoLimit}]
<1>1. Limits \subseteq Nat /\ DefaultCap \in Nat
  BY BudgetAssumption
<1>2. CASE old = NoLimit
  BY <1>1, <1>2 DEF Effective
<1>3. CASE old # NoLimit
  <2>1. Effective(old) = old /\ old \in CapsRow
    BY <1>3 DEF Effective
  <2> QED
    BY <1>1, <2>1 DEF CapsRow
<1> QED
  BY <1>2, <1>3

LEMMA BudgetInitInv == BudgetInit => BudgetInv
<1> SUFFICES ASSUME BudgetInit
             PROVE  BudgetInv
  OBVIOUS
<1>1. capsRow \in CapsRow \cup {NoLimit}
  BY BudgetAssumption DEF BudgetInit, CapsRow
<1>2. highest = Effective(capsRow) /\ highest \in [Caps -> Nat \cup {NoLimit}]
  BY <1>1, EffectiveType DEF BudgetInit
<1>3. Quiet \in SpenderRow /\ SpenderOK(Quiet)
  BY QuietRow
<1>4. \A s \in Spenders : spender[s] = Quiet
  BY DEF BudgetInit
<1>5. BudgetTypeOK
  BY <1>1, <1>2, <1>3, BudgetNumbers, BudgetAssumption
  DEF BudgetInit, BudgetTypeOK, SpenderRow
<1>6. \A W \in SUBSET Texts : Units(W) = {}
  BY DEF BudgetInit, Units
<1>7. \A W \in SUBSET Texts : SpentAt(W) = 0
  BY <1>6, FS_EmptySet DEF SpentAt
<1>8. IsFiniteSet(Units(Texts))
  BY <1>6, FS_EmptySet
<1>9. \A c \in Caps : UnderLimit(Effective(capsRow)[c], c)
  BY <1>2 DEF UnderLimit
<1>10. \A c \in Caps : Past(c) = {}
  BY <1>4, QuietRow DEF Past, After, Caps
<1>11. ASSUME NEW W \in SUBSET Texts, NEW c \in Caps
       PROVE  Covered(W, {}, c)
  <2>1. ASSUME highest[c] # NoLimit
        PROVE  0 <= highest[c] + Overspend
    <3>1. highest[c] \in Nat /\ Overspend \in Nat
      BY <1>2, <2>1, BudgetNumbers
    <3> QED
      BY <3>1
  <2> QED
    BY <1>7, <2>1 DEF Covered, Rooms
<1>12. Covered(Texts, Past("cumulative"), "cumulative")
  BY <1>10, <1>11 DEF Caps
<1>13. ASSUME NEW c \in {"daily", "monthly"}, NEW t \in 0 .. (MaxTime + 2)
       PROVE  Covered(Within(c, t), PastIn(c, t), c)
  <2>1. Within(c, t) \subseteq Texts /\ c \in Caps
    BY DEF Within, Caps
  <2>2. PastIn(c, t) = {}
    BY <1>10, <2>1 DEF PastIn
  <2> QED
    BY <1>11, <2>1, <2>2
<1> QED
  BY <1>3, <1>4, <1>5, <1>8, <1>9, <1>12, <1>13 DEF BudgetInv

LEMMA GetCapsStep ==
    ASSUME BudgetInv, NEW s \in Spenders, GetCaps(s)
    PROVE  BudgetInv'
<1>1. spender[s].step = "idle" /\ orders' \in 0 .. MaxOrders
  BY BudgetAssumption DEF GetCaps, Order, Idles, BudgetInv, BudgetTypeOK
<1>2. PICK a \in Amounts :
        GoOn(s, [Quiet EXCEPT !.amount = a, !.caps = Effective(capsRow), !.asOf = hour], "start")
  BY DEF GetCaps
<1>3. PICK sp : sp = [Quiet EXCEPT !.amount = a, !.caps = Effective(capsRow), !.asOf = hour]
  OBVIOUS
<1>4. Effective(capsRow) \in [Caps -> Nat \cup {NoLimit}] /\ hour \in 0 .. MaxTime
  BY EffectiveType DEF BudgetInv, BudgetTypeOK
<1>5. a \in Nat /\ a <= MaxCost
  <2>1. a \in 0 .. MaxCost
    BY BudgetAssumption
  <2> QED
    BY <2>1, BudgetNumbers
<1>6. /\ sp.step = "idle" /\ sp.amount = a /\ sp.caps = Effective(capsRow)
      /\ sp.asOf = hour /\ sp \in SpenderRow
  BY <1>3, <1>4, <1>5, BudgetNumbers DEF Quiet, SpenderRow
<1>7. SpenderOK(sp)
  BY <1>5, <1>6 DEF SpenderOK, Checking, Caps
<1>8. hour <= hour /\ \A e \in Caps : UnderLimit(sp.caps[e], e)
  BY <1>4, <1>6 DEF BudgetInv
<1>9. GoOn(s, sp, "start")
  BY <1>2, <1>3
<1> QED
  BY <1>1, <1>4, <1>6, <1>7, <1>8, <1>9, CallGoesOn DEF GetCaps

LEMMA CheckStep ==
    ASSUME BudgetInv, NEW s \in Spenders, NEW c \in Caps, Check(s, c)
    PROVE  BudgetInv'
<1> DEFINE x == spender[s]
           sum == IF c = "cumulative" THEN SumByProduct ELSE SumByProductSince(c, x.asOf)
<1>1. /\ x.step = c /\ UNCHANGED <<capsRow, spent, hour, zone, highest, orders>>
      /\ \/ spender' = [spender EXCEPT ![s] = Quiet]
         \/ ~Exceeds(sum, x.amount, x.caps[c]) /\ GoOn(s, x, c)
  BY DEF Check
<1>2. CASE spender' = [spender EXCEPT ![s] = Quiet]
  BY <1>1, <1>2, EndsInv
<1>3. CASE ~Exceeds(sum, x.amount, x.caps[c]) /\ GoOn(s, x, c)
  <2>1. x \in SpenderRow /\ SpenderOK(x) /\ x.amount \in 0 .. MaxCost
    BY AmountsFit
  <2>2. /\ x.caps \in [Caps -> Nat \cup {NoLimit}] /\ x.asOf <= hour
        /\ \A e \in Caps : UnderLimit(x.caps[e], e) /\ x.caps[c] # NoLimit
    BY <1>1, <2>1 DEF SpenderOK, Checking, Caps
  <2>3. spent \in [Texts -> Nat] /\ IsFiniteSet(Units(Texts)) /\ orders' \in 0 .. MaxOrders
        /\ highest[c] \in Nat \cup {NoLimit}
    BY <1>1 DEF BudgetInv, BudgetTypeOK
  <2>4. x.amount \in Nat /\ x.caps[c] \in Nat /\ x.asOf \in Nat
    <3>1. x.asOf \in 0 .. MaxTime
      BY <2>1 DEF SpenderRow
    <3> QED
      BY <2>1, <2>2, <3>1, BudgetNumbers
  \* What has been summed up leaves room for this cost below the limit.
  <2>5. ASSUME NEW W \in SUBSET Texts, NEW V \in SUBSET W, sum = SpentAt(W),
               highest[c] # NoLimit
        PROVE  SpentAt(V) + x.amount <= highest[c]
    <3>1. SpentAt(W) \in Nat /\ SpentAt(V) \in Nat /\ SpentAt(V) <= SpentAt(W)
      BY <2>3, SpentTypes
    <3>2. ~(SpentAt(W) + x.amount > x.caps[c])
      BY <1>3, <2>5 DEF Exceeds
    <3>3. x.caps[c] <= highest[c] /\ highest[c] \in Nat
      BY <2>2, <2>3, <2>5 DEF UnderLimit
    <3> QED
      BY <2>4, <3>1, <3>2, <3>3
  <2>6. c = "cumulative" /\ highest[c] # NoLimit => SpentAt(Texts) + x.amount <= highest[c]
    BY <2>5 DEF SumByProduct
  <2>7. ASSUME NEW t \in 0 .. (MaxTime + 2), c \in {"daily", "monthly"}, highest[c] # NoLimit,
               FirstHour(x.asOf, c) <= FirstHour(t, c)
        PROVE  SpentAt(Within(c, t)) + x.amount <= highest[c]
    <3> DEFINE W == {m \in Texts : m > Midnight(x.asOf, c)}
    <3>1. t \in Nat
      BY BudgetNumbers
    <3>2. Within(c, t) \subseteq W
      BY <2>4, <2>7, <3>1, CountedInPeriod
    <3>3. sum = SpentAt(W) /\ W \in SUBSET Texts
      BY <2>7 DEF SumByProductSince
    <3> HIDE DEF W, sum
    <3> QED
      BY <2>5, <2>7, <3>2, <3>3
  <2>8. c \in {"start", "daily", "monthly", "cumulative"} /\ c # "start"
    BY DEF Caps
  <2> HIDE DEF sum
  <2> QED
    BY <1>1, <1>3, <2>1, <2>2, <2>3, <2>6, <2>7, <2>8, CallGoesOn
<1> QED
  BY <1>1, <1>2, <1>3

LEMMA AppendCostStep ==
    ASSUME BudgetInv, NEW s \in Spenders, AppendCost(s)
    PROVE  BudgetInv'
<1>1. PICK y \in SpenderRow : y = Quiet
  BY QuietRow
<1>2. /\ orders' \in 0 .. MaxOrders /\ spender' = [spender EXCEPT ![s] = y]
      /\ spender[s].step = "append" /\ hour' = hour /\ zone' = zone
      /\ highest' = highest /\ capsRow' = capsRow
      /\ spent' = [spent EXCEPT ![spender[s].text] = @ + spender[s].amount]
  BY <1>1 DEF AppendCost, BudgetInv, BudgetTypeOK
<1>3. Admitted(spender[s], y) /\ SpenderOK(y)' /\ y.step = "idle"
  BY <1>1, QuietRow, Leaving
<1> QED
  BY <1>2, <1>3, RaisedSame, SpenderMoves

LEMMA PatchCapsStep ==
    ASSUME BudgetInv, NEW s \in Spenders, PatchCaps(s)
    PROVE  BudgetInv'
<1>1. orders' \in 0 .. MaxOrders
  BY BudgetAssumption DEF PatchCaps, Order, BudgetInv, BudgetTypeOK
<1> DEFINE old == IF capsRow = NoLimit THEN [d \in Caps |-> NoLimit] ELSE capsRow
<1>2. PICK c \in Caps, n \in Limits \cup {NoLimit} :
        spender' = [spender EXCEPT ![s] =
           [Quiet EXCEPT !.step = "upsert", !.caps = [old EXCEPT ![c] = n]]]
  BY DEF PatchCaps
<1>3. old \in CapsRow
  BY DEF CapsRow, BudgetInv, BudgetTypeOK
<1> HIDE DEF old
<1>4. PICK y : y = [Quiet EXCEPT !.step = "upsert", !.caps = [old EXCEPT ![c] = n]]
  OBVIOUS
<1>5. [old EXCEPT ![c] = n] \in CapsRow
  BY <1>3 DEF CapsRow
<1>6. CapsRow \subseteq [Caps -> Nat \cup {NoLimit}]
  BY BudgetAssumption DEF CapsRow
<1>7. y \in SpenderRow /\ y.step = "upsert" /\ y.amount = 0 /\ y.caps \in CapsRow
  <2>1. PICK merged \in CapsRow : merged = [old EXCEPT ![c] = n]
    BY <1>5
  <2>2. y = [step |-> "upsert", amount |-> 0, caps |-> merged, asOf |-> 0, text |-> 2]
    BY <1>4, <2>1 DEF Quiet
  <2>3. merged \in [Caps -> Nat \cup {NoLimit}] /\ 0 \in 0 .. MaxTime /\ 2 \in Texts
    BY <1>6, BudgetNumbers
  <2> QED
    BY <2>2, <2>3 DEF SpenderRow, Steps
<1>8. SpenderOK(y)' /\ Admitted(spender[s], y)
  BY <1>7, Leaving, BudgetNumbers DEF SpenderOK, Checking
<1> QED
  BY <1>1, <1>2, <1>4, <1>7, <1>8, RaisedSame, SpenderMoves DEF PatchCaps

LEMMA UpsertCapsStep ==
    ASSUME BudgetInv, NEW s \in Spenders, UpsertCaps(s)
    PROVE  BudgetInv'
<1>1. PICK y \in SpenderRow : y = Quiet
  BY QuietRow
<1>2. /\ orders' \in 0 .. MaxOrders /\ spender' = [spender EXCEPT ![s] = y]
      /\ hour' = hour /\ zone' = zone /\ spent' = spent
      /\ capsRow' = spender[s].caps
      /\ highest' = [c \in Caps |-> Higher(highest[c], spender[s].caps[c])]
  BY <1>1 DEF UpsertCaps, BudgetInv, BudgetTypeOK
<1>3. capsRow' \in CapsRow
  BY <1>2, AmountsFit DEF UpsertCaps, SpenderOK
<1>4. Effective(capsRow)' = capsRow'
  BY <1>3, BudgetAssumption DEF Effective
<1>5. ASSUME NEW c \in Caps
      PROVE  /\ highest'[c] \in Nat \cup {NoLimit}
             /\ highest'[c] # NoLimit =>
                  /\ highest[c] # NoLimit /\ highest[c] <= highest'[c]
                  /\ capsRow'[c] # NoLimit /\ capsRow'[c] <= highest'[c]
  <2>1. highest'[c] = Higher(highest[c], capsRow'[c])
    BY <1>2
  <2>2. highest[c] \in Nat \cup {NoLimit} /\ capsRow'[c] \in Nat \cup {NoLimit}
    BY <1>3, BudgetAssumption DEF CapsRow, BudgetInv, BudgetTypeOK
  <2>3. PICK a \in Nat \cup {NoLimit}, b \in Nat \cup {NoLimit} : a = highest[c] /\ b = capsRow'[c]
    BY <2>2
  <2>4. /\ Higher(a, b) \in Nat \cup {NoLimit}
        /\ Higher(a, b) # NoLimit => a # NoLimit /\ a <= Higher(a, b) /\ b # NoLimit /\ b <= Higher(a, b)
    <3>1. CASE a = NoLimit \/ b = NoLimit
      BY <3>1 DEF Higher
    <3>2. CASE a # NoLimit /\ b # NoLimit
      <4>1. a \in Nat /\ b \in Nat /\ Higher(a, b) = IF a > b THEN a ELSE b
        BY <3>2 DEF Higher
      <4>2. Higher(a, b) \in Nat /\ a <= Higher(a, b) /\ b <= Higher(a, b)
        BY <4>1
      <4> QED
        BY <3>2, <4>2
    <3> QED
      BY <3>1, <3>2
  <2> QED
    BY <2>1, <2>3, <2>4
<1>6. Raised /\ highest' \in [Caps -> Nat \cup {NoLimit}]
  BY <1>2, <1>5 DEF Raised
<1>7. \A c \in Caps : UnderLimit(Effective(capsRow)[c], c)'
  BY <1>4, <1>5 DEF UnderLimit
<1>8. Admitted(spender[s], y) /\ SpenderOK(y)'
  BY <1>1, QuietRow, Leaving
<1> QED
  BY <1>2, <1>3, <1>6, <1>7, <1>8, SpenderMoves

LEMMA TimePassesStep ==
    ASSUME BudgetInv, TimePasses
    PROVE  BudgetInv'
<1>1. /\ hour \in 0 .. MaxTime /\ hour < MaxTime /\ hour' = hour + 1 /\ MaxTime \in Nat
      /\ UNCHANGED <<capsRow, spent, zone, spender, highest, orders>>
  BY BudgetNumbers DEF TimePasses, BudgetInv, BudgetTypeOK
<1>2. hour' \in 0 .. MaxTime /\ hour' \in Nat /\ hour <= hour'
  BY <1>1
<1>3. BudgetTypeOK'
  BY <1>1, <1>2 DEF BudgetInv, BudgetTypeOK
<1>4. ASSUME NEW s \in Spenders
      PROVE  SpenderOK(spender[s])'
  <2>1. PICK z \in SpenderRow : z = spender[s] /\ SpenderOK(z)
    BY AmountsFit
  <2>2. SpenderOK(z)'
    BY <1>1, <1>2, <2>1, RaisedSame, StaysOK
  <2> QED
    BY <1>1, <2>1, <2>2
<1>5. Units(Texts)' = Units(Texts) /\ SpentAt(Texts)' = SpentAt(Texts)
  BY <1>1 DEF Units, SpentAt
<1>6. \A c \in Caps : UnderLimit(Effective(capsRow)[c], c)'
  BY <1>1, RaisedSame
<1>7. Covered(Texts, Past("cumulative"), "cumulative")'
  BY <1>1 DEF BudgetInv, Covered, Past, SpentAt, Units
<1>8. ASSUME zone > 0, NEW c \in {"daily", "monthly"}, NEW t \in 0 .. (MaxTime + 2)
      PROVE  Covered(Within(c, t), PastIn(c, t), c)'
  <2>1. Covered(Within(c, t), PastIn(c, t), c)
    BY <1>8 DEF BudgetInv
  <2>2. PastIn(c, t)' = PastIn(c, t) /\ SpentAt(Within(c, t))' = SpentAt(Within(c, t))
    BY <1>1 DEF PastIn, Past, SpentAt, Units
  <2> QED
    BY <1>1, <2>1, <2>2 DEF Covered
<1> QED
  BY <1>1, <1>3, <1>4, <1>5, <1>6, <1>7, <1>8 DEF BudgetInv

LEMMA BudgetStep == BudgetInv /\ [BudgetNext]_budgetVars => BudgetInv'
<1> SUFFICES ASSUME BudgetInv, [BudgetNext]_budgetVars
             PROVE  BudgetInv'
  OBVIOUS
<1>1. CASE UNCHANGED budgetVars
  <2>1. /\ capsRow' = capsRow /\ spent' = spent /\ hour' = hour /\ zone' = zone
        /\ spender' = spender /\ highest' = highest /\ orders' = orders
    BY <1>1 DEF budgetVars
  <2>2. BudgetTypeOK'
    BY <2>1 DEF BudgetInv, BudgetTypeOK
  <2>3. \A s \in Spenders : SpenderOK(spender[s])'
    BY <2>1 DEF BudgetInv, SpenderOK, UnderLimit
  <2>4. Covered(Texts, Past("cumulative"), "cumulative")' /\ IsFiniteSet(Units(Texts))'
    BY <2>1 DEF BudgetInv, Covered, Past, SpentAt, Units
  <2>5. \A c \in Caps : UnderLimit(Effective(capsRow)[c], c)'
    BY <2>1, RaisedSame
  <2>6. ASSUME zone > 0, NEW c \in {"daily", "monthly"}, NEW t \in 0 .. (MaxTime + 2)
        PROVE  Covered(Within(c, t), PastIn(c, t), c)'
    <3>1. Covered(Within(c, t), PastIn(c, t), c)
      BY <2>6 DEF BudgetInv
    <3>2. PastIn(c, t)' = PastIn(c, t) /\ SpentAt(Within(c, t))' = SpentAt(Within(c, t))
      BY <2>1 DEF PastIn, Past, SpentAt, Units
    <3> QED
      BY <2>1, <3>1, <3>2 DEF Covered
  <2> QED
    BY <2>1, <2>2, <2>3, <2>4, <2>5, <2>6 DEF BudgetInv
<1>2. ASSUME NEW s \in Spenders, GetCaps(s)
      PROVE  BudgetInv'
  BY <1>2, GetCapsStep
<1>3. ASSUME NEW s \in Spenders, AppendCost(s)
      PROVE  BudgetInv'
  BY <1>3, AppendCostStep
<1>4. ASSUME NEW s \in Spenders, PatchCaps(s)
      PROVE  BudgetInv'
  BY <1>4, PatchCapsStep
<1>5. ASSUME NEW s \in Spenders, UpsertCaps(s)
      PROVE  BudgetInv'
  BY <1>5, UpsertCapsStep
<1>6. ASSUME NEW s \in Spenders, Gone(s)
      PROVE  BudgetInv'
  BY <1>6, EndsInv DEF Gone
<1>7. ASSUME NEW s \in Spenders, NEW c \in Caps, Check(s, c)
      PROVE  BudgetInv'
  BY <1>7, CheckStep
<1> QED
  BY <1>1, <1>2, <1>3, <1>4, <1>5, <1>6, <1>7, TimePassesStep DEF BudgetNext

LEMMA BudgetInductive == BudgetSpec => []BudgetInv
<1> QED
  BY BudgetInitInv, BudgetStep, PTL DEF BudgetSpec

(* A request has read a row of caps, or what there is without one, and is  *)
(* to store its cost under a time that there is a text for.                *)
THEOREM BudgetTypeCorrect == BudgetSpec => []BudgetTypeOK
<1>1. BudgetInv => BudgetTypeOK
  BY DEF BudgetInv
<1> QED
  BY <1>1, BudgetInductive, PTL

(* However many requests check at the same time, and whenever a cap is     *)
(* merged or a day turns, no cap there has been is exceeded by more than  *)
(* one cost of each other request.                                         *)
THEOREM OverspendStaysBounded == BudgetSpec => []OverspendBounded
<1>1. BudgetInv => OverspendBounded
  BY DEF BudgetInv, Covered, Rooms, OverspendBounded, SumByProduct
<1> QED
  BY <1>1, BudgetInductive, PTL

(***************************************************************************)
(* The components together: each moves as its own specification says, or   *)
(* not at all, and what holds of it alone holds of it here.                *)
(***************************************************************************)
LEMMA PartsStart ==
    Init => /\ GatewayInit /\ TableInit /\ AutopilotInit /\ TickInit /\ ScheduleInit /\ BudgetInit
            /\ PortsInit
BY Zenon DEF Init

LEMMA PartsStep ==
    ASSUME [Next]_vars
    PROVE  /\ [GatewayNext]_gwVars /\ [TableNext]_tableVars /\ [AutopilotNext]_autoVars
           /\ [TickNext]_tickVars /\ [ScheduleNext]_schedVars /\ [BudgetNext]_budgetVars
           /\ [PortsNext]_portVars
<1>. USE DEF GatewayRests, TableRests, AutopilotRests, TicksRest, SchedulesRest, BudgetRests,
             PortsRest
<1>1. CASE UNCHANGED vars
  BY <1>1, Zenon DEF vars
<1>2. CASE Next
  BY <1>2, Zenon DEF Next
<1>. QED
  BY <1>1, <1>2, Zenon

(* Every component of the Services run moves as it does alone.             *)
THEOREM PartsBehave ==
    Spec => /\ GatewayInit /\ [][GatewayNext]_gwVars
            /\ TickInit /\ [][TickNext]_tickVars
            /\ ScheduleInit /\ [][ScheduleNext]_schedVars
            /\ TableSpec /\ AutopilotSpec /\ BudgetSpec /\ PortsSpec
BY PartsStart, PartsStep, PTL DEF Spec, TableSpec, AutopilotSpec, BudgetSpec, PortsSpec

LEMMA FairPartsHold == Spec => [](GwInv /\ TickInv /\ ScheduleInv)
<1>1. GatewayInit /\ [][GatewayNext]_gwVars => []GwInv
  BY GwInvInit, GwInvStep, PTL
<1>2. TickInit /\ [][TickNext]_tickVars => []TickInv
  BY TickStarts, TickSteps, PTL
<1>3. ScheduleInit => ScheduleInv
  BY SchedulesStart
<1>4. ScheduleInv /\ [ScheduleNext]_schedVars => ScheduleInv'
  BY SchedulesStep
<1>5. ScheduleInit /\ [][ScheduleNext]_schedVars => []ScheduleInv
  BY <1>3, <1>4, PTL
<1>. QED
  BY <1>1, <1>2, <1>5, PartsBehave, PTL

(* Every component is well typed throughout, whatever the part a behaviour *)
(* is about.                                                               *)
THEOREM ServicesTypeCorrect == Spec => []ServicesTypeOK
<1>1. GwInv /\ TickInv /\ ScheduleInv => GatewayTypeOK /\ TickTypeOK /\ ScheduleTypeOK
  BY Zenon DEF GwInv, TickInv, ScheduleInv
<1>2. /\ GatewayTypeOK /\ TickTypeOK /\ ScheduleTypeOK /\ TableTypeOK /\ AutopilotTypeOK
      /\ BudgetTypeOK /\ PortsTypeOK
      => ServicesTypeOK
  BY Zenon DEF ServicesTypeOK
<1>. QED
  BY <1>1, <1>2, FairPartsHold, PartsBehave, TableTypeCorrect, AutopilotTypeCorrect,
     BudgetTypeCorrect, PortsTypeCorrect, PTL
=============================================================================

------------------------------- MODULE Budget -------------------------------
(***************************************************************************)
(* The spend of one product against its caps.  Composite reads the caps,   *)
(* then the clock, then a sum for each cap, and cost.Record inserts the    *)
(* cost afterwards: every read and the insert are statements of their own. *)
(* PatchCaps reads the row, merges and upserts it.                         *)
(*                                                                         *)
(* A cost is stored under the local time of the server, as text, and a     *)
(* period begins at midnight UTC, as text.  The two are compared as        *)
(* strings: the zone counts for nothing, and an instant in the first       *)
(* second of a day (a fraction, or an offset, follows its seconds where    *)
(* midnight has a Z) sorts before the day.  Time is in half days.          *)
(***************************************************************************)
EXTENDS Naturals, FiniteSets

CONSTANTS
    Spenders,    \* requests in progress, numbered
    Amounts,     \* what a cost may be
    MaxCost,     \* the most of it, or 0
    Limits,      \* what a cap may be
    DefaultCap,  \* cumulative cap of a product without a row, or 0
    MaxTime,     \* bound: half days in a behaviour
    MaxOrders,   \* bound: requests in a behaviour
    NoLimit

Caps == {"daily", "monthly", "cumulative"}
CapsRow == [Caps -> Limits \cup {NoLimit}]

ASSUME BudgetAssumption ==
    /\ Spenders # {} /\ Spenders \subseteq Nat /\ IsFiniteSet(Spenders)
    /\ Amounts \subseteq 0 .. MaxCost /\ MaxCost \in Amounts \cup {0}
    /\ Limits \subseteq Nat
    /\ DefaultCap \in Nat
    /\ MaxTime \in Nat \ {0} /\ MaxOrders \in Nat
    /\ NoLimit \notin Nat \cup CapsRow

Length == [daily |-> 2, monthly |-> 4]       \* of a period: a month of two days

(* Stored times in the order of their texts: two for each local half day,  *)
(* the first of them for its first second.  Local times are shifted by two *)
(* half days, so that there are none below zero.                           *)
Texts == 2 .. (2 * MaxTime + 7)

VARIABLES
    capsRow,     \* the row of cost_caps, or NoLimit when there is none
    spent,       \* the rows of cost_events: the sum for each stored time
    hour,        \* the clock, UTC
    zone,        \* local time: 0 behind UTC by a half day, 1 the same, 2 ahead
    spender,     \* requests: where they are and what they have read
    highest,     \* the highest effective limit there has been, for each cap
    orders

budgetVars == <<capsRow, spent, hour, zone, spender, highest, orders>>

Steps == {"daily", "monthly", "cumulative", "append", "upsert"}
Quiet == [step |-> "idle", amount |-> 0, caps |-> NoLimit, asOf |-> 0, text |-> 2]

BudgetTypeOK ==
    /\ capsRow \in CapsRow \cup {NoLimit}
    /\ spent \in [Texts -> Nat]
    /\ hour \in 0 .. MaxTime
    /\ zone \in 0 .. 2
    /\ spender \in [Spenders -> [step : Steps \cup {"idle"}, amount : Nat,
                                 caps : [Caps -> Nat \cup {NoLimit}] \cup {NoLimit},
                                 asOf : 0 .. MaxTime,
                                 text : Texts]]
    /\ highest \in [Caps -> Nat \cup {NoLimit}]
    /\ orders \in 0 .. MaxOrders

(* Composite with no row: the default ceiling, if one is configured. With  *)
(* a row, its null columns are no limits, and the ceiling does not apply.  *)
Effective(row) ==
    IF row # NoLimit THEN row
    ELSE [c \in Caps |-> IF c = "cumulative" /\ DefaultCap > 0 THEN DefaultCap
                                                                ELSE NoLimit]

BudgetInit ==
    /\ capsRow \in {NoLimit} \cup
          {[c \in Caps |-> IF c = d THEN n ELSE NoLimit] : d \in Caps, n \in Limits}
    /\ spent = [m \in Texts |-> 0]
    /\ hour = 1
    /\ zone \in 0 .. 2
    /\ spender = [s \in Spenders |-> Quiet]
    /\ highest = Effective(capsRow)
    /\ orders = 0

Idles(s) == spender[s].step = "idle"

(* A request begins; the first idle number is taken. *)
Order(s) == /\ Idles(s)
            /\ \A r \in Spenders : r < s => ~Idles(r)
            /\ orders < MaxOrders
            /\ orders' = orders + 1

(***************************************************************************)
(* AssertWithinBudget.                                                     *)
(***************************************************************************)
FirstHour(t, c) == t - (t % Length[c])
Midnight(t, c) == 2 * (FirstHour(t, c) + 2)

(* What is stored at these times, counted one unit of cost at a time.      *)
Units(texts) == UNION {{m} \X (1 .. spent[m]) : m \in texts}
SpentAt(texts) == Cardinality(Units(texts))

(* e.At.Format of the clock as it is now. *)
Stored == LET local == hour + zone + 1
          IN  {2 * local + 1} \cup (IF local % 2 = 0 THEN {2 * local} ELSE {})

(* at >= since, as texts. *)
SumByProductSince(c, t) == SpentAt({m \in Texts : m > Midnight(t, c)})
SumByProduct == SpentAt(Texts)

\* Mutant: what is asked for is not counted.
ExceedsAlready(sum, additional, limit) == sum > limit

Exceeds(sum, additional, limit) == sum + additional > limit

(* A limit that is not set costs no query.  The last query is followed by  *)
(* the reading of the clock under which the cost is stored.                *)
Rank == [start |-> 0, daily |-> 1, monthly |-> 2, cumulative |-> 3, append |-> 4]
Following(row, c) ==
    CHOOSE d \in Caps \cup {"append"} :
        LET asked(e) == Rank[e] > Rank[c] /\ (e = "append" \/ row[e] # NoLimit)
        IN  asked(d) /\ \A e \in Caps \cup {"append"} : asked(e) => Rank[d] <= Rank[e]

GoOn(s, sp, c) ==
    LET d == Following(sp.caps, c)
    IN  \E m \in IF d = "append" THEN Stored ELSE {2} :
          spender' = [spender EXCEPT ![s] = [sp EXCEPT !.step = d, !.text = m]]

GetCaps(s) ==
    /\ Order(s)
    /\ \E a \in Amounts :
         GoOn(s, [Quiet EXCEPT !.amount = a, !.caps = Effective(capsRow), !.asOf = hour],
              "start")
    /\ UNCHANGED <<capsRow, spent, hour, zone, highest>>

Check(s, c) ==
    LET sum == IF c = "cumulative" THEN SumByProduct ELSE SumByProductSince(c, spender[s].asOf)
        exceeds == Exceeds(sum, spender[s].amount, spender[s].caps[c])
    IN  /\ spender[s].step = c
        /\ \/ exceeds /\ spender' = [spender EXCEPT ![s] = Quiet]
           \/ ~exceeds /\ GoOn(s, spender[s], c)
        /\ UNCHANGED <<capsRow, spent, hour, zone, highest, orders>>

AppendCost(s) ==
    /\ spender[s].step = "append"
    /\ spent' = [spent EXCEPT ![spender[s].text] = @ + spender[s].amount]
    /\ spender' = [spender EXCEPT ![s] = Quiet]
    /\ UNCHANGED <<capsRow, hour, zone, highest, orders>>

(***************************************************************************)
(* PatchCaps: a negative value clears a limit.  The patch is merged into   *)
(* the row it read.                                                        *)
(***************************************************************************)
PatchCaps(s) ==
    /\ Order(s)
    /\ \E c \in Caps, n \in Limits \cup {NoLimit} :
         LET row == IF capsRow = NoLimit THEN [d \in Caps |-> NoLimit] ELSE capsRow
         IN  spender' = [spender EXCEPT ![s] =
                [Quiet EXCEPT !.step = "upsert", !.caps = [row EXCEPT ![c] = n]]]
    /\ UNCHANGED <<capsRow, spent, hour, zone, highest>>

Higher(m, n) == IF m = NoLimit \/ n = NoLimit THEN NoLimit ELSE IF m > n THEN m ELSE n

UpsertCaps(s) ==
    /\ spender[s].step = "upsert"
    /\ capsRow' = spender[s].caps
    /\ highest' = [c \in Caps |-> Higher(highest[c], spender[s].caps[c])]
    /\ spender' = [spender EXCEPT ![s] = Quiet]
    /\ UNCHANGED <<spent, hour, zone, orders>>

(* A database error, a cancelled request, a cost id that is taken.         *)
Gone(s) ==
    /\ ~Idles(s)
    /\ spender' = [spender EXCEPT ![s] = Quiet]
    /\ UNCHANGED <<capsRow, spent, hour, zone, highest, orders>>

TimePasses ==
    /\ hour < MaxTime
    /\ hour' = hour + 1
    /\ UNCHANGED <<capsRow, spent, zone, spender, highest, orders>>

BudgetNext ==
    \/ \E s \in Spenders :
          \/ GetCaps(s) \/ AppendCost(s) \/ PatchCaps(s) \/ UpsertCaps(s) \/ Gone(s)
          \/ \E c \in Caps : Check(s, c)
    \/ TimePasses

BudgetSpec == BudgetInit /\ [][BudgetNext]_budgetVars

(***************************************************************************)
(* Properties.                                                             *)
(***************************************************************************)
Overspend == (Cardinality(Spenders) - 1) * MaxCost

(* What is stored in a period and counted in it: all but its first second. *)
Within(c, t) == {m \in Texts : /\ m > Midnight(t, c)
                               /\ m < Midnight(t, c) + 2 * Length[c]}

(* Requests that check at the same time may all pass and overspend, and a  *)
(* day may turn under a check; still no cap there has been is exceeded by  *)
(* more than one cost of each other request.  For the periods this needs a *)
(* server whose zone is not behind UTC: behind it, what is stored between  *)
(* midnight UTC and midnight counts in no period at all.                   *)
OverspendBounded ==
    /\ highest["cumulative"] # NoLimit => SumByProduct <= highest["cumulative"] + Overspend
    /\ \A c \in {"daily", "monthly"} :
         (highest[c] # NoLimit /\ zone > 0) =>
             \A t \in 0 .. (MaxTime + 2) : SpentAt(Within(c, t)) <= highest[c] + Overspend
=============================================================================

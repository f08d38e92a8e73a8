-------------------------- MODULE KnowledgeProofs ---------------------------
(***************************************************************************)
(* Theorems about Knowledge for every set of requests and products and any *)
(* number of writes.                                                       *)
(*                                                                         *)
(* What is stored and what the writers were told differ only where an      *)
(* update is between its delete and its add, or an id is hurt.  The        *)
(* argument is about ids: one that is drawn is above all that are stored,  *)
(* and two requests at one id of chromem have hurt it.                     *)
(***************************************************************************)
EXTENDS Knowledge, FiniteSetTheorems, TLAPS

Drawing == {"insert", "number"}
Naming == {"add", "update", "check", "remove", "readd", "erase", "find", "drop"}
Texting == {"insert", "number", "add", "update", "check", "remove", "readd"}
Storing == {"add", "update", "check", "remove", "readd"}
InTable == {"idle", "insert", "update", "erase"}
InChromem == {"idle", "number", "add", "check", "remove", "readd", "find", "drop"}
AtStored == {"check", "remove", "readd", "drop"}
AtDocument == AtStored \cup {"find"}

\* The number the next entry comes after.
Last == IF backend = "sqlite" THEN issued ELSE seqFile

\* The texts that wait for a number, when the requests are at f.
Texts(f) == {f[w].text : w \in {v \in Writers : f[v].at \in Drawing}}

(* Bounds: what is still to be numbered fits under the writes there were.  *)
Counted ==
    /\ \A w \in Writers : writer[w].at \in Texting => writer[w].text \in 1 .. writes
    /\ \A w \in Writers : writer[w].at \in Naming => writer[w].id \in 1 .. MaxWrites
    /\ \A w \in Writers : writer[w].at \in Storing => writer[w].id <= writes
    /\ \A u, v \in Writers :
          (/\ writer[u].at \in Drawing /\ writer[v].at \in Drawing
           /\ writer[u].text = writer[v].text) => u = v
    /\ issued + Cardinality(Texts(writer)) <= writes
    /\ seqFile + Cardinality(Texts(writer)) <= writes
    /\ \A d \in docs : d.id <= writes

Backends ==
    /\ backend = "sqlite" => hurt = {} /\ \A w \in Writers : writer[w].at \in InTable
    /\ backend = "chromem" => \A w \in Writers : writer[w].at \in InChromem

(* Two requests at one document have hurt it.                              *)
Apart ==
    \A u, v \in Writers :
        (/\ writer[u].at \in AtDocument /\ writer[v].at \in AtDocument
         /\ writer[u].id = writer[v].id /\ u # v) => writer[u].id \in hurt

OneEach == \A d, e \in docs : d.id = e.id => d = e

(* What a request knows of its id.                                         *)
IdGiven == \A w \in Writers : writer[w].at \in AtStored \cup {"add"} => writer[w].id <= Last
Fresh ==
    \A w \in Writers : writer[w].at = "add" =>
        /\ \A d \in docs : d.id # writer[w].id
        /\ \A k \in kept : k.id = writer[w].id => k.id \in hurt
        /\ \A v \in Writers \ {w} :
              writer[v].at \in AtStored \cup {"add"} => writer[v].id # writer[w].id
Found ==
    \A w \in Writers :
        writer[w].at \in {"remove", "drop"} /\ writer[w].id \notin hurt =>
            \E d \in docs : d.id = writer[w].id /\ d.owner = writer[w].owner
Removed ==
    \A w \in Writers : writer[w].at = "readd" /\ writer[w].id \notin hurt =>
        /\ \A d \in docs : d.id # writer[w].id
        /\ \E k \in kept : k.id = writer[w].id /\ k.owner = writer[w].owner

StoredIsTold ==
    \A d \in Doc : d.id \notin hurt =>
        (d \in docs <=> (d \in kept /\ ~Changing(d.id)))
DocsGiven == \A d \in docs : d.id <= Last
OneKept == \A k, l \in kept : k.id = l.id /\ k.id \notin hurt => k = l

KeptInv ==
    /\ IdGiven /\ Fresh /\ Found /\ Removed
    /\ StoredIsTold /\ DocsGiven /\ OneKept

GivenInv ==
    /\ \A g, h \in given : g[1] = h[1] => g = h
    /\ \A g \in given : g[1] <= Last
    /\ \A g \in given, w \in Writers : writer[w].at = "add" => g[1] # writer[w].id

KnowInv ==
    /\ KnowledgeTypeOK /\ Counted /\ Backends /\ Apart /\ OneEach
    /\ renumbered # "running" => KeptInv
    /\ renumbered = "no" => GivenInv

-----------------------------------------------------------------------------
(* How many texts wait for a number.                                       *)

LEMMA TextsCounted ==
    ASSUME NEW f, NEW n \in Nat,
           \A w \in Writers : f[w].at \in Drawing => f[w].text \in 1 .. n
    PROVE  IsFiniteSet(Texts(f)) /\ Cardinality(Texts(f)) \in Nat
<1>1. IsFiniteSet(1 .. n)
  BY FS_Interval
<1>2. Texts(f) \subseteq 1 .. n
  BY DEF Texts
<1> QED
  BY <1>1, <1>2, FS_Subset, FS_CardinalityType

LEMMA TextsSame ==
    ASSUME NEW f, NEW g,
           \A w \in Writers : f[w].at \in Drawing <=> g[w].at \in Drawing,
           \A w \in Writers : f[w].at \in Drawing => f[w].text = g[w].text
    PROVE  Texts(g) = Texts(f)
  BY DEF Texts

LEMMA TextsLeave ==
    ASSUME NEW f, NEW g, NEW n \in Nat, NEW w \in Writers,
           \A v \in Writers : f[v].at \in Drawing => f[v].text \in 1 .. n,
           \A u, v \in Writers :
              (/\ f[u].at \in Drawing /\ f[v].at \in Drawing
               /\ f[u].text = f[v].text) => u = v,
           f[w].at \in Drawing, g[w].at \notin Drawing,
           \A v \in Writers : v # w => g[v] = f[v]
    PROVE  /\ Cardinality(Texts(g)) \in Nat
           /\ Cardinality(Texts(g)) + 1 = Cardinality(Texts(f))
<1>1. Texts(g) = Texts(f) \ {f[w].text}
  BY DEF Texts
<1>2. f[w].text \in Texts(f)
  BY DEF Texts
<1>3. IsFiniteSet(Texts(f)) /\ Cardinality(Texts(f)) \in Nat
  BY TextsCounted
<1>4. /\ IsFiniteSet(Texts(f) \ {f[w].text})
      /\ Cardinality(Texts(f) \ {f[w].text}) = Cardinality(Texts(f)) - 1
  BY <1>2, <1>3, FS_RemoveElement
<1> QED
  BY <1>1, <1>3, <1>4, FS_CardinalityType

LEMMA TextsEnter ==
    ASSUME NEW f, NEW g, NEW n \in Nat, NEW w \in Writers,
           \A v \in Writers : f[v].at \in Drawing => f[v].text \in 1 .. n,
           f[w].at \notin Drawing, g[w].at \in Drawing, g[w].text = n + 1,
           \A v \in Writers : v # w => g[v] = f[v]
    PROVE  Cardinality(Texts(g)) = Cardinality(Texts(f)) + 1
<1>1. Texts(g) = Texts(f) \cup {n + 1}
  BY DEF Texts
<1>2. n + 1 \notin Texts(f)
  BY DEF Texts
<1>3. IsFiniteSet(Texts(f)) /\ Cardinality(Texts(f)) \in Nat
  BY TextsCounted
<1> QED
  BY <1>1, <1>2, <1>3, FS_AddElement, ZenonT(90)

LEMMA TextsNone ==
    ASSUME NEW f, \A w \in Writers : f[w].at \notin Drawing
    PROVE  Cardinality(Texts(f)) = 0
<1>1. Texts(f) = {}
  BY DEF Texts
<1> QED
  BY <1>1, FS_EmptySet

(* The largest of a finite set of ids.                                     *)
LEMMA LargestBounds ==
    ASSUME NEW S \in SUBSET Nat, NEW n \in Nat, \A i \in S : i <= n
    PROVE  /\ Largest(S) \in 0 .. n
           /\ \A i \in S : i <= Largest(S)
<1>1. CASE S = {}
  BY <1>1 DEF Largest
<1>2. CASE S # {}
  <2>1. \E m \in S : \A i \in S : i <= m
    <3> DEFINE Gaps == {n - i : i \in S}
               Less == {p \in Nat \X Nat : p[1] < p[2]}
    <3>1. Gaps \subseteq Nat
      BY Z3
    <3>2. Gaps # {}
      BY <1>2
    <3>3. Less = OpToRel(<, Nat)
      BY DEF OpToRel
    <3>4. IsWellFoundedOn(Less, Nat)
      BY <3>3, NatLessThanWellFounded, Zenon
    <3> HIDE DEF Gaps, Less
    <3>5. \E g \in Gaps : \A h \in Gaps : <<h, g>> \notin Less
      BY <3>1, <3>2, <3>4, WFMin, Zenon
    <3>6. PICK g \in Gaps : \A h \in Gaps : g <= h
      <4>1. PICK g \in Gaps : \A h \in Gaps : <<h, g>> \notin Less
        BY <3>5
      <4>2. \A h \in Gaps : ~(h < g)
        BY <3>1, <4>1 DEF Less
      <4>3. \A h \in Gaps : g <= h
        BY <3>1, <4>2
      <4> QED
        BY <4>3
    <3>7. PICK m \in S : g = n - m
      BY DEF Gaps
    <3>8. \A i \in S : n - m <= n - i
      BY <3>6, <3>7 DEF Gaps
    <3>9. \A i \in S : i <= m
      BY <3>8
    <3> QED
      BY <3>9
  <2>2. PICK m \in S : m = Largest(S) /\ \A i \in S : i <= m
    BY <1>2, <2>1, Zenon DEF Largest
  <2> QED
    BY <2>2
<1> QED
  BY <1>1, <1>2

-----------------------------------------------------------------------------
(* The steps.                                                              *)

LEMMA NoWriterIdle ==
    /\ NoWriter \in Writer
    /\ NoWriter.at = "idle" /\ NoWriter.id = 0 /\ NoWriter.text = 0
<1>1. AnyOwner \in Owners /\ 0 \in 0 .. MaxWrites
  BY KnowledgeAssumption DEF AnyOwner
<1> QED
  BY <1>1 DEF NoWriter, Writer

(* Who waits for a number finds one under the writes there were.           *)
LEMMA RoomToNumber ==
    ASSUME KnowledgeTypeOK, Counted, NEW w \in Writers, writer[w].at \in Drawing
    PROVE  issued + 1 <= writes /\ seqFile + 1 <= writes
<1>1. IsFiniteSet(Texts(writer)) /\ Cardinality(Texts(writer)) \in Nat
  BY KnowledgeAssumption, TextsCounted DEF Counted, Drawing, Texting, KnowledgeTypeOK
<1>2. Texts(writer) # {}
  BY DEF Texts
<1>3. Cardinality(Texts(writer)) # 0
  BY <1>1, <1>2, FS_EmptySet
<1> QED
  BY <1>1, <1>3, KnowledgeAssumption DEF Counted, KnowledgeTypeOK

(* What an update makes of the entries S as they were told.               *)
Rewrote(S, T, i, o, r) ==
    /\ \A k \in T : \/ k \in S /\ (k.id # i \/ k.owner # o)
                    \/ k = r /\ \E l \in S : l.id = i /\ l.owner = o
    /\ \A k \in S : k.id # i \/ k.owner # o => k \in T
    /\ (\E l \in S : l.id = i /\ l.owner = o) => r \in T

LEMMA UpdateRewrites ==
    ASSUME NEW S, NEW i, NEW o, NEW r, NEW T,
           T = {IF k.id = i /\ k.owner = o THEN r ELSE k : k \in S}
    PROVE  Rewrote(S, T, i, o, r)
  BY DEF Rewrote

LEMMA RemoveToChangeKeeps ==
    ASSUME KnowInv, NEW w \in Writers, RemoveToChange(w)
    PROVE  KnowInv'
<1> USE KnowledgeAssumption
<1>1. KnowledgeTypeOK /\ Counted /\ Backends /\ Apart /\ OneEach
  BY DEF KnowInv
<1>2. /\ writer[w].at = "remove"
      /\ writer'[w].at = "readd"
      /\ writer'[w].id = writer[w].id
      /\ writer'[w].text = writer[w].text /\ writer'[w].owner = writer[w].owner
      /\ \A v \in Writers : v # w => writer'[v] = writer[v]
      /\ writer' \in [Writers -> Writer]
  BY <1>1, NoWriterIdle DEF RemoveToChange, Without, Places, Finishes, Moves,
           KnowledgeTypeOK, Writer
<1>3. /\ backend' = backend /\ issued' = issued /\ seqFile' = seqFile /\ writes' = writes
      /\ kept' = kept /\ given' = given /\ hurt' = hurt /\ renumbered' = renumbered
      /\ docs' = {d \in docs : d.id # writer[w].id}
  BY <1>1, <1>2 DEF RemoveToChange, Without, Places, KnowledgeTypeOK
<1>4. Counted'
  <2>1. Cardinality(Texts(writer)) \in Nat
    BY <1>1, TextsCounted DEF Counted, Drawing, Texting, KnowledgeTypeOK
  <2>2. Cardinality(Texts(writer')) = Cardinality(Texts(writer))
    <3>1. /\ \A v \in Writers : writer[v].at \in Drawing <=> writer'[v].at \in Drawing
          /\ \A v \in Writers : writer[v].at \in Drawing => writer[v].text = writer'[v].text
      BY <1>2 DEF Drawing
    <3> QED
      BY <3>1, TextsSame
  <2>3. /\ issued' + Cardinality(Texts(writer')) <= writes'
        /\ seqFile' + Cardinality(Texts(writer')) <= writes'
    BY <1>1, <1>3, <2>1, <2>2 DEF Counted, KnowledgeTypeOK
  <2> QED
    BY <1>1, <1>2, <1>3, <2>3 DEF Counted, Texting, Naming, Storing, Drawing,
             KnowledgeTypeOK, IDs
<1>5. KnowledgeTypeOK'
  BY <1>1, <1>2, <1>3, <1>4 DEF KnowledgeTypeOK, IDs, Writer, Doc, Counted
<1>6. Backends' /\ Apart'
  BY <1>1, <1>2, <1>3 DEF Backends, Apart, InTable, InChromem, AtDocument, AtStored
<1>7. OneEach'
  BY <1>1, <1>3 DEF OneEach
<1>8. ASSUME renumbered' # "running"
      PROVE  KeptInv'
  <2>1. KeptInv
    BY <1>3, <1>8 DEF KnowInv
  <2>2. IdGiven'
    BY <1>1, <1>2, <1>3, <2>1 DEF KeptInv, IdGiven, Last, AtStored
  <2>3. Fresh'
    BY <1>1, <1>2, <1>3, <2>1 DEF KeptInv, Fresh, AtStored
  <2>4. Found'
    BY <1>1, <1>2, <1>3, <2>1 DEF KeptInv, Found, Apart, AtDocument, AtStored
  <2>5. Removed'
    BY <1>1, <1>2, <1>3, <2>1 DEF KeptInv, Removed, Found, StoredIsTold, KnowledgeTypeOK,
             Apart, AtDocument, AtStored
  <2>6. StoredIsTold'
    BY <1>1, <1>2, <1>3, <2>1 DEF KeptInv, StoredIsTold, Changing
  <2>7. DocsGiven' /\ OneKept'
    BY <1>1, <1>2, <1>3, <2>1 DEF KeptInv, DocsGiven, OneKept, Last
  <2> QED
    BY <2>2, <2>3, <2>4, <2>5, <2>6, <2>7 DEF KeptInv
<1>9. ASSUME renumbered' = "no"
      PROVE  GivenInv'
  <2>1. GivenInv
    BY <1>3, <1>9 DEF KnowInv
  <2> QED
    BY <1>1, <1>2, <1>3, <2>1 DEF GivenInv, Last
<1> QED
  BY <1>4, <1>5, <1>6, <1>7, <1>8, <1>9 DEF KnowInv

LEMMA CheckDocumentKeeps ==
    ASSUME KnowInv, NEW w \in Writers, CheckDocument(w)
    PROVE  KnowInv'
<1> USE KnowledgeAssumption
<1>1. KnowledgeTypeOK /\ Counted /\ Backends /\ Apart /\ OneEach
  BY DEF KnowInv
<1>2. /\ writer[w].at = "check"
      /\ writer'[w].at \in {"idle", "remove"}
      /\ writer'[w].at = "remove" => \E d \in docs : d.id = writer[w].id /\ d.owner = writer[w].owner
      /\ writer'[w].at = "remove" => writer'[w].id = writer[w].id /\ writer'[w].text = writer[w].text
      /\ writer'[w].at = "remove" => writer'[w].owner = writer[w].owner
      /\ \A v \in Writers : v # w => writer'[v] = writer[v]
      /\ writer' \in [Writers -> Writer]
  BY <1>1, NoWriterIdle DEF CheckDocument, Find, Places, Finishes, Moves, KnowledgeTypeOK,
           Writer
<1>3. /\ backend' = backend /\ issued' = issued /\ seqFile' = seqFile /\ writes' = writes
      /\ kept' = kept /\ given' = given /\ hurt' = hurt /\ renumbered' = renumbered
      /\ docs' = docs
  BY <1>1, <1>2 DEF CheckDocument, Find, Places, KnowledgeTypeOK
<1>4. Counted'
  <2>1. Cardinality(Texts(writer)) \in Nat
    BY <1>1, TextsCounted DEF Counted, Drawing, Texting, KnowledgeTypeOK
  <2>2. Cardinality(Texts(writer')) = Cardinality(Texts(writer))
    <3>1. /\ \A v \in Writers : writer[v].at \in Drawing <=> writer'[v].at \in Drawing
          /\ \A v \in Writers : writer[v].at \in Drawing => writer[v].text = writer'[v].text
      BY <1>2 DEF Drawing
    <3> QED
      BY <3>1, TextsSame
  <2>3. /\ issued' + Cardinality(Texts(writer')) <= writes'
        /\ seqFile' + Cardinality(Texts(writer')) <= writes'
    BY <1>1, <1>3, <2>1, <2>2 DEF Counted, KnowledgeTypeOK
  <2> QED
    BY <1>1, <1>2, <1>3, <2>3 DEF Counted, Texting, Naming, Storing, Drawing,
             KnowledgeTypeOK, IDs
<1>5. KnowledgeTypeOK'
  BY <1>1, <1>2, <1>3, <1>4 DEF KnowledgeTypeOK, IDs, Writer, Doc, Counted
<1>6. Backends' /\ Apart'
  BY <1>1, <1>2, <1>3 DEF Backends, Apart, InTable, InChromem, AtDocument, AtStored
<1>7. OneEach'
  BY <1>1, <1>3 DEF OneEach
<1>8. ASSUME renumbered' # "running"
      PROVE  KeptInv'
  <2>1. KeptInv
    BY <1>3, <1>8 DEF KnowInv
  <2>2. IdGiven'
    BY <1>1, <1>2, <1>3, <2>1 DEF KeptInv, IdGiven, Last, AtStored
  <2>3. Fresh'
    BY <1>1, <1>2, <1>3, <2>1 DEF KeptInv, Fresh, AtStored
  <2>4. Found'
    BY <1>1, <1>2, <1>3, <2>1 DEF KeptInv, Found
  <2>5. Removed'
    BY <1>1, <1>2, <1>3, <2>1 DEF KeptInv, Removed
  <2>6. StoredIsTold'
    BY <1>1, <1>2, <1>3, <2>1 DEF KeptInv, StoredIsTold, Changing
  <2>7. DocsGiven' /\ OneKept'
    BY <1>1, <1>2, <1>3, <2>1 DEF KeptInv, DocsGiven, OneKept, Last
  <2> QED
    BY <2>2, <2>3, <2>4, <2>5, <2>6, <2>7 DEF KeptInv
<1>9. ASSUME renumbered' = "no"
      PROVE  GivenInv'
  <2>1. GivenInv
    BY <1>3, <1>9 DEF KnowInv
  <2> QED
    BY <1>1, <1>2, <1>3, <2>1 DEF GivenInv, Last
<1> QED
  BY <1>4, <1>5, <1>6, <1>7, <1>8, <1>9 DEF KnowInv

LEMMA FindToDeleteKeeps ==
    ASSUME KnowInv, NEW w \in Writers, FindToDelete(w)
    PROVE  KnowInv'
<1> USE KnowledgeAssumption
<1>1. KnowledgeTypeOK /\ Counted /\ Backends /\ Apart /\ OneEach
  BY DEF KnowInv
<1>2. /\ writer[w].at = "find"
      /\ writer'[w].at \in {"idle", "drop"}
      /\ writer'[w].at = "drop" => \E d \in docs : d.id = writer[w].id /\ d.owner = writer[w].owner
      /\ writer'[w].at = "drop" => writer'[w].id = writer[w].id /\ writer'[w].text = writer[w].text
      /\ writer'[w].at = "drop" => writer'[w].owner = writer[w].owner
      /\ \A v \in Writers : v # w => writer'[v] = writer[v]
      /\ writer' \in [Writers -> Writer]
  BY <1>1, NoWriterIdle DEF FindToDelete, Find, Places, Finishes, Moves, KnowledgeTypeOK,
           Writer
<1>3. /\ backend' = backend /\ issued' = issued /\ seqFile' = seqFile /\ writes' = writes
      /\ kept' = kept /\ given' = given /\ hurt' = hurt /\ renumbered' = renumbered
      /\ docs' = docs
  BY <1>1, <1>2 DEF FindToDelete, Find, Places, KnowledgeTypeOK
<1>4. Counted'
  <2>1. Cardinality(Texts(writer)) \in Nat
    BY <1>1, TextsCounted DEF Counted, Drawing, Texting, KnowledgeTypeOK
  <2>2. Cardinality(Texts(writer')) = Cardinality(Texts(writer))
    <3>1. /\ \A v \in Writers : writer[v].at \in Drawing <=> writer'[v].at \in Drawing
          /\ \A v \in Writers : writer[v].at \in Drawing => writer[v].text = writer'[v].text
      BY <1>2 DEF Drawing
    <3> QED
      BY <3>1, TextsSame
  <2>3. /\ issued' + Cardinality(Texts(writer')) <= writes'
        /\ seqFile' + Cardinality(Texts(writer')) <= writes'
    BY <1>1, <1>3, <2>1, <2>2 DEF Counted, KnowledgeTypeOK
  <2> QED
    BY <1>1, <1>2, <1>3, <2>3 DEF Counted, Texting, Naming, Storing, Drawing,
             KnowledgeTypeOK, IDs
<1>5. KnowledgeTypeOK'
  BY <1>1, <1>2, <1>3, <1>4 DEF KnowledgeTypeOK, IDs, Writer, Doc, Counted
<1>6. Backends' /\ Apart'
  BY <1>1, <1>2, <1>3 DEF Backends, Apart, InTable, InChromem, AtDocument, AtStored
<1>7. OneEach'
  BY <1>1, <1>3 DEF OneEach
<1>8. ASSUME renumbered' # "running"
      PROVE  KeptInv'
  <2>1. KeptInv
    BY <1>3, <1>8 DEF KnowInv
  <2>2. IdGiven'
    BY <1>1, <1>2, <1>3, <2>1 DEF KeptInv, IdGiven, Last, AtStored, DocsGiven
  <2>3. Fresh'
    BY <1>1, <1>2, <1>3, <2>1 DEF KeptInv, Fresh, AtStored
  <2>4. Found'
    BY <1>1, <1>2, <1>3, <2>1 DEF KeptInv, Found
  <2>5. Removed'
    BY <1>1, <1>2, <1>3, <2>1 DEF KeptInv, Removed
  <2>6. StoredIsTold'
    BY <1>1, <1>2, <1>3, <2>1 DEF KeptInv, StoredIsTold, Changing
  <2>7. DocsGiven' /\ OneKept'
    BY <1>1, <1>2, <1>3, <2>1 DEF KeptInv, DocsGiven, OneKept, Last
  <2> QED
    BY <2>2, <2>3, <2>4, <2>5, <2>6, <2>7 DEF KeptInv
<1>9. ASSUME renumbered' = "no"
      PROVE  GivenInv'
  <2>1. GivenInv
    BY <1>3, <1>9 DEF KnowInv
  <2> QED
    BY <1>1, <1>2, <1>3, <2>1 DEF GivenInv, Last
<1> QED
  BY <1>4, <1>5, <1>6, <1>7, <1>8, <1>9 DEF KnowInv

LEMMA DeleteDocumentKeeps ==
    ASSUME KnowInv, NEW w \in Writers, DeleteDocument(w)
    PROVE  KnowInv'
<1> USE KnowledgeAssumption
<1>1. KnowledgeTypeOK /\ Counted /\ Backends /\ Apart /\ OneEach
  BY DEF KnowInv
<1>2. /\ writer[w].at = "drop"
      /\ writer'[w].at = "idle" /\ writer'[w].id = 0 /\ writer'[w].text = 0
      /\ \A v \in Writers : v # w => writer'[v] = writer[v]
      /\ writer' \in [Writers -> Writer]
  BY <1>1, NoWriterIdle DEF DeleteDocument, Without, Forgotten, Places, Finishes, Moves,
           KnowledgeTypeOK, Writer
<1>3. /\ backend' = backend /\ issued' = issued /\ seqFile' = seqFile /\ writes' = writes
      /\ given' = given /\ hurt' = hurt /\ renumbered' = renumbered
      /\ docs' = {d \in docs : d.id # writer[w].id}
      /\ kept' = {k \in kept : k.id # writer[w].id \/ k.owner # writer[w].owner}
  BY <1>1, <1>2 DEF DeleteDocument, Without, Forgotten, Places, KnowledgeTypeOK
<1>4. Counted'
  <2>1. Cardinality(Texts(writer)) \in Nat
    BY <1>1, TextsCounted DEF Counted, Drawing, Texting, KnowledgeTypeOK
  <2>2. Cardinality(Texts(writer')) = Cardinality(Texts(writer))
    <3>1. /\ \A v \in Writers : writer[v].at \in Drawing <=> writer'[v].at \in Drawing
          /\ \A v \in Writers : writer[v].at \in Drawing => writer[v].text = writer'[v].text
      BY <1>2 DEF Drawing
    <3> QED
      BY <3>1, TextsSame
  <2>3. /\ issued' + Cardinality(Texts(writer')) <= writes'
        /\ seqFile' + Cardinality(Texts(writer')) <= writes'
    BY <1>1, <1>3, <2>1, <2>2 DEF Counted, KnowledgeTypeOK
  <2> QED
    BY <1>1, <1>2, <1>3, <2>3 DEF Counted, Texting, Naming, Storing, Drawing,
             KnowledgeTypeOK, IDs
<1>5. KnowledgeTypeOK'
  BY <1>1, <1>2, <1>3, <1>4 DEF KnowledgeTypeOK, IDs, Writer, Doc, Counted
<1>6. Backends' /\ Apart'
  BY <1>1, <1>2, <1>3 DEF Backends, Apart, InTable, InChromem, AtDocument, AtStored
<1>7. OneEach'
  BY <1>1, <1>3 DEF OneEach
<1>8. ASSUME renumbered' # "running"
      PROVE  KeptInv'
  <2>1. KeptInv
    BY <1>3, <1>8 DEF KnowInv
  <2>2. IdGiven'
    BY <1>1, <1>2, <1>3, <2>1 DEF KeptInv, IdGiven, Last, AtStored
  <2>3. Fresh'
    BY <1>1, <1>2, <1>3, <2>1 DEF KeptInv, Fresh, AtStored
  <2>4. Found'
    BY <1>1, <1>2, <1>3, <2>1 DEF KeptInv, Found, Apart, AtDocument, AtStored
  <2>5. Removed'
    BY <1>1, <1>2, <1>3, <2>1 DEF KeptInv, Removed, Apart, AtDocument, AtStored
  <2>6. StoredIsTold'
    BY <1>1, <1>2, <1>3, <2>1 DEF KeptInv, StoredIsTold, Changing, Found, OneKept,
             KnowledgeTypeOK, Apart, AtDocument, AtStored
  <2>7. DocsGiven' /\ OneKept'
    BY <1>1, <1>2, <1>3, <2>1 DEF KeptInv, DocsGiven, OneKept, Last
  <2> QED
    BY <2>2, <2>3, <2>4, <2>5, <2>6, <2>7 DEF KeptInv
<1>9. ASSUME renumbered' = "no"
      PROVE  GivenInv'
  <2>1. GivenInv
    BY <1>3, <1>9 DEF KnowInv
  <2> QED
    BY <1>1, <1>2, <1>3, <2>1 DEF GivenInv, Last
<1> QED
  BY <1>4, <1>5, <1>6, <1>7, <1>8, <1>9 DEF KnowInv

LEMMA AddChangedKeeps ==
    ASSUME KnowInv, NEW w \in Writers, AddChanged(w)
    PROVE  KnowInv'
<1> USE KnowledgeAssumption
<1> DEFINE new == Rewritten(w)
<1>1. KnowledgeTypeOK /\ Counted /\ Backends /\ Apart /\ OneEach
  BY DEF KnowInv
<1>2. /\ writer[w].at = "readd"
      /\ writer'[w].at = "idle" /\ writer'[w].id = 0 /\ writer'[w].text = 0
      /\ \A v \in Writers : v # w => writer'[v] = writer[v]
      /\ writer' \in [Writers -> Writer]
  BY <1>1, NoWriterIdle DEF AddChanged, Changed, Without, Counted, Texting, Naming, Writer,
           IDs, Doc, Rewritten, Places, Finishes, Moves, KnowledgeTypeOK
<1>3. /\ writer[w].id \in IDs /\ writer[w].text \in 1 .. writes
      /\ backend' = backend /\ issued' = issued /\ seqFile' = seqFile /\ writes' = writes
      /\ given' = given /\ hurt' = hurt /\ renumbered' = renumbered
      /\ new \in Doc /\ new.id = writer[w].id /\ new.owner = writer[w].owner
      /\ docs' = {d \in docs : d.id # writer[w].id} \cup {new}
      /\ Rewrote(kept, kept', writer[w].id, writer[w].owner, new)
  <2>1. kept' = {IF k.id = writer[w].id /\ k.owner = writer[w].owner THEN new ELSE k : k \in kept}
    BY DEF AddChanged, Changed
  <2>2. /\ Rewrote(kept, kept', writer[w].id, writer[w].owner, new)
    BY <2>1, UpdateRewrites
  <2>3. new \in Doc /\ new.id = writer[w].id /\ new.owner = writer[w].owner
    BY <1>1, <1>2 DEF Counted, Texting, Naming, Writer, IDs, Doc, Rewritten, KnowledgeTypeOK
  <2> QED
    BY <1>1, <1>2, <2>2, <2>3 DEF AddChanged, Changed, Without, Counted, Texting, Naming,
             Writer, IDs, Doc, Rewritten, Places, KnowledgeTypeOK
<1> HIDE DEF new
<1>4. Counted'
  <2>1. Cardinality(Texts(writer)) \in Nat
    BY <1>1, TextsCounted DEF Counted, Drawing, Texting, KnowledgeTypeOK
  <2>2. Cardinality(Texts(writer')) = Cardinality(Texts(writer))
    <3>1. /\ \A v \in Writers : writer[v].at \in Drawing <=> writer'[v].at \in Drawing
          /\ \A v \in Writers : writer[v].at \in Drawing => writer[v].text = writer'[v].text
      BY <1>2 DEF Drawing
    <3> QED
      BY <3>1, TextsSame
  <2>3. /\ issued' + Cardinality(Texts(writer')) <= writes'
        /\ seqFile' + Cardinality(Texts(writer')) <= writes'
    BY <1>1, <1>3, <2>1, <2>2 DEF Counted, KnowledgeTypeOK
  <2> QED
    BY <1>1, <1>2, <1>3, <2>3 DEF Counted, Texting, Naming, Storing, Drawing,
             KnowledgeTypeOK, IDs
<1>5. KnowledgeTypeOK'
  BY <1>1, <1>2, <1>3, <1>4 DEF KnowledgeTypeOK, IDs, Writer, Doc, Counted, Rewrote
<1>6. Backends' /\ Apart'
  BY <1>1, <1>2, <1>3 DEF Backends, Apart, InTable, InChromem, AtDocument, AtStored
<1>7. OneEach'
  BY <1>1, <1>3 DEF OneEach
<1>8. ASSUME renumbered' # "running"
      PROVE  KeptInv'
  <2>1. KeptInv
    BY <1>3, <1>8 DEF KnowInv
  <2>2. IdGiven'
    BY <1>1, <1>2, <1>3, <2>1 DEF KeptInv, IdGiven, Last, AtStored
  <2>3. Fresh'
    BY <1>1, <1>2, <1>3, <2>1 DEF KeptInv, Fresh, AtStored, Rewrote
  <2>4. Found'
    BY <1>1, <1>2, <1>3, <2>1 DEF KeptInv, Found, Apart, AtDocument, AtStored
  <2>5. Removed'
    BY <1>1, <1>2, <1>3, <2>1 DEF KeptInv, Removed, Rewrote, Apart, AtDocument, AtStored
  <2>6. StoredIsTold'
    BY <1>1, <1>2, <1>3, <2>1 DEF KeptInv, StoredIsTold, Removed, OneKept, Changing,
             Rewrote, Apart, AtDocument, AtStored
  <2>7. DocsGiven' /\ OneKept'
    BY <1>1, <1>2, <1>3, <2>1 DEF KeptInv, DocsGiven, OneKept, IdGiven, Last, Rewrote,
             Apart, AtDocument, AtStored
  <2> QED
    BY <2>2, <2>3, <2>4, <2>5, <2>6, <2>7 DEF KeptInv
<1>9. ASSUME renumbered' = "no"
      PROVE  GivenInv'
  <2>1. GivenInv
    BY <1>3, <1>9 DEF KnowInv
  <2> QED
    BY <1>1, <1>2, <1>3, <2>1 DEF GivenInv, Last
<1> QED
  BY <1>4, <1>5, <1>6, <1>7, <1>8, <1>9 DEF KnowInv

LEMMA UpdateEntryKeeps ==
    ASSUME KnowInv, NEW w \in Writers, UpdateEntry(w)
    PROVE  KnowInv'
<1> USE KnowledgeAssumption
<1> DEFINE new == Rewritten(w)
<1>1. KnowledgeTypeOK /\ Counted /\ Backends /\ Apart /\ OneEach
  BY DEF KnowInv
<1>2. /\ writer[w].at = "update"
      /\ writer'[w].at = "idle" /\ writer'[w].id = 0 /\ writer'[w].text = 0
      /\ \A v \in Writers : v # w => writer'[v] = writer[v]
      /\ writer' \in [Writers -> Writer]
  BY <1>1, NoWriterIdle DEF UpdateEntry, Changed, Find, Without, Backends, InTable,
           InChromem, Counted, Texting, Naming, Writer, IDs, Doc, Rewritten, Places,
           Finishes, Moves, KnowledgeTypeOK
<1>3. /\ writer[w].id \in IDs /\ writer[w].text \in 1 .. writes
      /\ backend' = backend /\ issued' = issued /\ seqFile' = seqFile /\ writes' = writes
      /\ given' = given /\ hurt' = hurt /\ renumbered' = renumbered
      /\ backend = "sqlite" /\ hurt = {} /\ \A v \in Writers : writer[v].at \in InTable
      /\ new \in Doc /\ new.id = writer[w].id /\ new.owner = writer[w].owner
      /\ \/ docs' = docs /\ kept' = kept
         \/ /\ \E d \in docs : d.id = writer[w].id /\ d.owner = writer[w].owner
            /\ docs' = {d \in docs : d.id # writer[w].id} \cup {new}
            /\ Rewrote(kept, kept', writer[w].id, writer[w].owner, new)
  <2>1. CASE Find(writer[w].id, writer[w].owner) = {}
    BY <1>1, <1>2, <2>1 DEF UpdateEntry, Backends, InTable, InChromem, Counted, Texting,
             Naming, Writer, IDs, Doc, Rewritten, Places, KnowledgeTypeOK
  <2>2. CASE Find(writer[w].id, writer[w].owner) # {}
    <3>1. kept' = {IF k.id = writer[w].id /\ k.owner = writer[w].owner THEN new ELSE k : k \in kept}
      BY <2>2 DEF UpdateEntry, Changed
    <3>2. /\ Rewrote(kept, kept', writer[w].id, writer[w].owner, new)
      BY <3>1, UpdateRewrites
    <3> QED
      BY <1>1, <1>2, <2>2, <3>2 DEF UpdateEntry, Changed, Find, Without, Backends, InTable,
               InChromem, Counted, Texting, Naming, Writer, IDs, Doc, Rewritten, Places,
               KnowledgeTypeOK
  <2> QED
    BY <2>1, <2>2
<1> HIDE DEF new
<1>4. Counted'
  <2>1. Cardinality(Texts(writer)) \in Nat
    BY <1>1, TextsCounted DEF Counted, Drawing, Texting, KnowledgeTypeOK
  <2>2. Cardinality(Texts(writer')) = Cardinality(Texts(writer))
    <3>1. /\ \A v \in Writers : writer[v].at \in Drawing <=> writer'[v].at \in Drawing
          /\ \A v \in Writers : writer[v].at \in Drawing => writer[v].text = writer'[v].text
      BY <1>2 DEF Drawing
    <3> QED
      BY <3>1, TextsSame
  <2>3. /\ issued' + Cardinality(Texts(writer')) <= writes'
        /\ seqFile' + Cardinality(Texts(writer')) <= writes'
    BY <1>1, <1>3, <2>1, <2>2 DEF Counted, KnowledgeTypeOK
  <2> QED
    BY <1>1, <1>2, <1>3, <2>3 DEF Counted, Texting, Naming, Storing, Drawing,
             KnowledgeTypeOK, IDs
<1>5. KnowledgeTypeOK'
  BY <1>1, <1>2, <1>3, <1>4 DEF KnowledgeTypeOK, IDs, Writer, Doc, Counted, Rewrote
<1>6. Backends' /\ Apart'
  BY <1>1, <1>2, <1>3 DEF Backends, Apart, InTable, InChromem, AtDocument, AtStored
<1>7. OneEach'
  BY <1>1, <1>3 DEF OneEach
<1>8. ASSUME renumbered' # "running"
      PROVE  KeptInv'
  <2>1. KeptInv
    BY <1>3, <1>8 DEF KnowInv
  <2>2. IdGiven' /\ Fresh' /\ Found' /\ Removed'
    BY <1>3, <1>6 DEF Backends, InTable, AtStored, IdGiven, Fresh, Found, Removed
  <2>6. StoredIsTold'
    BY <1>1, <1>2, <1>3, <2>1 DEF KeptInv, StoredIsTold, OneKept, Changing, InTable,
             KnowledgeTypeOK, Rewrote
  <2>7. DocsGiven' /\ OneKept'
    BY <1>1, <1>2, <1>3, <2>1 DEF KeptInv, DocsGiven, OneKept, Last, Rewrote
  <2> QED
    BY <2>2, <2>6, <2>7 DEF KeptInv
<1>9. ASSUME renumbered' = "no"
      PROVE  GivenInv'
  <2>1. GivenInv
    BY <1>3, <1>9 DEF KnowInv
  <2> QED
    BY <1>1, <1>2, <1>3, <2>1 DEF GivenInv, Last
<1> QED
  BY <1>4, <1>5, <1>6, <1>7, <1>8, <1>9 DEF KnowInv

LEMMA DeleteEntryKeeps ==
    ASSUME KnowInv, NEW w \in Writers, DeleteEntry(w)
    PROVE  KnowInv'
<1> USE KnowledgeAssumption
<1>1. KnowledgeTypeOK /\ Counted /\ Backends /\ Apart /\ OneEach
  BY DEF KnowInv
<1>2. /\ writer[w].at = "erase"
      /\ writer'[w].at = "idle" /\ writer'[w].id = 0 /\ writer'[w].text = 0
      /\ \A v \in Writers : v # w => writer'[v] = writer[v]
      /\ writer' \in [Writers -> Writer]
  BY <1>1, NoWriterIdle DEF DeleteEntry, Find, Forgotten, Backends, InTable, InChromem,
           Places, Finishes, Moves, KnowledgeTypeOK, Writer
<1>3. /\ backend' = backend /\ issued' = issued /\ seqFile' = seqFile /\ writes' = writes
      /\ given' = given /\ hurt' = hurt /\ renumbered' = renumbered
      /\ backend = "sqlite" /\ hurt = {} /\ \A v \in Writers : writer[v].at \in InTable
      /\ docs' = {d \in docs : d.id # writer[w].id \/ d.owner # writer[w].owner}
      /\ kept' = {k \in kept : k.id # writer[w].id \/ k.owner # writer[w].owner}
  BY <1>1, <1>2 DEF DeleteEntry, Find, Forgotten, Backends, InTable, InChromem, Places,
           KnowledgeTypeOK
<1>4. Counted'
  <2>1. Cardinality(Texts(writer)) \in Nat
    BY <1>1, TextsCounted DEF Counted, Drawing, Texting, KnowledgeTypeOK
  <2>2. Cardinality(Texts(writer')) = Cardinality(Texts(writer))
    <3>1. /\ \A v \in Writers : writer[v].at \in Drawing <=> writer'[v].at \in Drawing
          /\ \A v \in Writers : writer[v].at \in Drawing => writer[v].text = writer'[v].text
      BY <1>2 DEF Drawing
    <3> QED
      BY <3>1, TextsSame
  <2>3. /\ issued' + Cardinality(Texts(writer')) <= writes'
        /\ seqFile' + Cardinality(Texts(writer')) <= writes'
    BY <1>1, <1>3, <2>1, <2>2 DEF Counted, KnowledgeTypeOK
  <2> QED
    BY <1>1, <1>2, <1>3, <2>3 DEF Counted, Texting, Naming, Storing, Drawing,
             KnowledgeTypeOK, IDs
<1>5. KnowledgeTypeOK'
  BY <1>1, <1>2, <1>3, <1>4 DEF KnowledgeTypeOK, IDs, Writer, Doc, Counted
<1>6. Backends' /\ Apart'
  BY <1>1, <1>2, <1>3 DEF Backends, Apart, InTable, InChromem, AtDocument, AtStored
<1>7. OneEach'
  BY <1>1, <1>3 DEF OneEach
<1>8. ASSUME renumbered' # "running"
      PROVE  KeptInv'
  <2>1. KeptInv
    BY <1>3, <1>8 DEF KnowInv
  <2>2. IdGiven' /\ Fresh' /\ Found' /\ Removed'
    BY <1>3, <1>6 DEF Backends, InTable, AtStored, IdGiven, Fresh, Found, Removed
  <2>6. StoredIsTold'
    BY <1>1, <1>2, <1>3, <2>1 DEF KeptInv, StoredIsTold, Changing, InTable
  <2>7. DocsGiven' /\ OneKept'
    BY <1>1, <1>2, <1>3, <2>1 DEF KeptInv, DocsGiven, OneKept, Last
  <2> QED
    BY <2>2, <2>6, <2>7 DEF KeptInv
<1>9. ASSUME renumbered' = "no"
      PROVE  GivenInv'
  <2>1. GivenInv
    BY <1>3, <1>9 DEF KnowInv
  <2> QED
    BY <1>1, <1>2, <1>3, <2>1 DEF GivenInv, Last
<1> QED
  BY <1>4, <1>5, <1>6, <1>7, <1>8, <1>9 DEF KnowInv

LEMMA NextIDKeeps ==
    ASSUME KnowInv, NEW w \in Writers, NextID(w)
    PROVE  KnowInv'
<1> USE KnowledgeAssumption
<1>1. KnowledgeTypeOK /\ Counted /\ Backends /\ Apart /\ OneEach
  BY DEF KnowInv
<1>r. seqFile + 1 <= writes /\ seqFile + 1 \in IDs
  BY <1>1, RoomToNumber DEF NextID, Places, Drawing, KnowledgeTypeOK, IDs
<1>2. /\ writer[w].at = "number"
      /\ writer'[w].at = "add" /\ writer'[w].id = seqFile + 1 /\ seqFile + 1 <= writes
      /\ writer'[w].text = writer[w].text /\ writer'[w].owner = writer[w].owner
      /\ \A v \in Writers : v # w => writer'[v] = writer[v]
      /\ writer' \in [Writers -> Writer]
  <2> DEFINE r == [at |-> "add", owner |-> writer[w].owner,
                   id |-> seqFile + 1, text |-> writer[w].text]
  <2>1. writer[w].owner \in Owners /\ writer[w].text \in 0 .. MaxWrites
    BY <1>1 DEF KnowledgeTypeOK, Writer
  <2>2. /\ r \in Writer /\ r.at = "add" /\ r.id = seqFile + 1
        /\ r.text = writer[w].text /\ r.owner = writer[w].owner
    BY <1>r, <2>1 DEF Writer, IDs
  <2>3. writer' = [writer EXCEPT ![w] = r] /\ writer[w].at = "number"
    BY DEF NextID, Places
  <2> HIDE DEF r
  <2> QED
    BY <1>1, <1>r, <2>2, <2>3 DEF KnowledgeTypeOK
<1>3. /\ backend = "chromem"
      /\ seqFile' = seqFile + 1
      /\ backend' = backend /\ issued' = issued /\ writes' = writes /\ kept' = kept
      /\ docs' = docs /\ given' = given /\ hurt' = hurt /\ renumbered' = renumbered
  BY <1>1, <1>2, <1>r DEF NextID, Backends, InTable, Drawing, Places, KnowledgeTypeOK
<1>4. Counted'
  <2>1. Cardinality(Texts(writer)) \in Nat
    BY <1>1, TextsCounted DEF Counted, Drawing, Texting, KnowledgeTypeOK
  <2>2. /\ Cardinality(Texts(writer')) \in Nat
        /\ Cardinality(Texts(writer')) + 1 = Cardinality(Texts(writer))
    <3>1. writer[w].at \in Drawing /\ writer'[w].at \notin Drawing
      BY <1>2 DEF Drawing
    <3>2. /\ \A v \in Writers : writer[v].at \in Drawing => writer[v].text \in 1 .. writes
          /\ \A u, v \in Writers :
                (/\ writer[u].at \in Drawing /\ writer[v].at \in Drawing
                 /\ writer[u].text = writer[v].text) => u = v
      BY <1>1 DEF Counted, Drawing, Texting
    <3> QED
      BY <1>1, <1>2, <3>1, <3>2, TextsLeave DEF KnowledgeTypeOK
  <2>3. /\ issued' + Cardinality(Texts(writer')) <= writes'
        /\ seqFile' + Cardinality(Texts(writer')) <= writes'
    BY <1>1, <1>3, <2>1, <2>2 DEF Counted, KnowledgeTypeOK
  <2>4. \A v \in Writers : writer'[v].at \in Texting => writer'[v].text \in 1 .. writes'
    BY <1>1, <1>2, <1>3 DEF Counted, Texting, KnowledgeTypeOK
  <2>5. \A v \in Writers : writer'[v].at \in Naming => writer'[v].id \in 1 .. MaxWrites
    BY <1>1, <1>2, <1>3 DEF Counted, Naming, KnowledgeTypeOK, IDs
  <2>6. \A v \in Writers : writer'[v].at \in Storing => writer'[v].id <= writes'
    BY <1>1, <1>2, <1>3 DEF Counted, Storing, Writer, KnowledgeTypeOK, IDs
  <2>7. \A u, v \in Writers :
           (/\ writer'[u].at \in Drawing /\ writer'[v].at \in Drawing
            /\ writer'[u].text = writer'[v].text) => u = v
    BY <1>1, <1>2, <1>3 DEF Counted, Drawing, Texting, KnowledgeTypeOK
  <2>8. \A d \in docs' : d.id <= writes'
    BY <1>1, <1>3 DEF Counted, KnowledgeTypeOK, Doc, IDs
  <2> QED
    BY <2>3, <2>4, <2>5, <2>6, <2>7, <2>8 DEF Counted
<1>5. KnowledgeTypeOK'
  BY <1>1, <1>2, <1>3, <1>4 DEF KnowledgeTypeOK, IDs, Writer, Doc, Counted
<1>6. Backends' /\ Apart'
  BY <1>1, <1>2, <1>3 DEF Backends, Apart, InTable, InChromem, AtDocument, AtStored
<1>7. OneEach'
  BY <1>1, <1>3 DEF OneEach
<1>8. ASSUME renumbered' # "running"
      PROVE  KeptInv'
  <2>1. KeptInv
    BY <1>3, <1>8 DEF KnowInv
  <2>2. IdGiven'
    BY <1>1, <1>2, <1>3, <2>1 DEF KeptInv, IdGiven, Last, AtStored, KnowledgeTypeOK, IDs,
             Writer
  <2>3. Fresh'
    BY <1>1, <1>2, <1>3, <2>1 DEF KeptInv, Fresh, StoredIsTold, Changing, DocsGiven,
             IdGiven, Last, AtStored, KnowledgeTypeOK, IDs, Doc
  <2>4. Found'
    BY <1>1, <1>2, <1>3, <2>1 DEF KeptInv, Found
  <2>5. Removed'
    BY <1>1, <1>2, <1>3, <2>1 DEF KeptInv, Removed
  <2>6. StoredIsTold'
    BY <1>1, <1>2, <1>3, <2>1 DEF KeptInv, StoredIsTold, Changing
  <2>7. DocsGiven' /\ OneKept'
    BY <1>1, <1>2, <1>3, <2>1 DEF KeptInv, OneKept, DocsGiven, Last, KnowledgeTypeOK, IDs,
             Doc
  <2> QED
    BY <2>2, <2>3, <2>4, <2>5, <2>6, <2>7 DEF KeptInv
<1>9. ASSUME renumbered' = "no"
      PROVE  GivenInv'
  <2>1. GivenInv /\ KeptInv
    BY <1>3, <1>9 DEF KnowInv
  <2> QED
    BY <1>1, <1>2, <1>3, <2>1 DEF GivenInv, KeptInv, Last, KnowledgeTypeOK, IDs
<1> QED
  BY <1>4, <1>5, <1>6, <1>7, <1>8, <1>9 DEF KnowInv

LEMMA AddDocumentKeeps ==
    ASSUME KnowInv, NEW w \in Writers, AddDocument(w)
    PROVE  KnowInv'
<1> USE KnowledgeAssumption
<1> DEFINE new == [id |-> writer[w].id, owner |-> writer[w].owner, text |-> writer[w].text]
<1>1. KnowledgeTypeOK /\ Counted /\ Backends /\ Apart /\ OneEach
  BY DEF KnowInv
<1>2. /\ writer[w].at = "add"
      /\ writer'[w].at = "idle" /\ writer'[w].id = 0 /\ writer'[w].text = 0
      /\ \A v \in Writers : v # w => writer'[v] = writer[v]
      /\ writer' \in [Writers -> Writer]
  BY <1>1, NoWriterIdle DEF AddDocument, Created, Without, Backends, InTable, Counted,
           Texting, Naming, Writer, IDs, Doc, Places, Finishes, Moves, KnowledgeTypeOK
<1>3. /\ backend = "chromem"
      /\ writer[w].id \in IDs /\ writer[w].text \in 1 .. writes
      /\ backend' = backend /\ issued' = issued /\ writes' = writes /\ seqFile' = seqFile
      /\ hurt' = hurt /\ renumbered' = renumbered
      /\ new \in Doc /\ new.id = writer[w].id /\ new.text = writer[w].text
      /\ docs' = {d \in docs : d.id # new.id} \cup {new}
      /\ kept' = kept \cup {new}
      /\ given' = given \cup {<<new.id, new.text>>}
  BY <1>1, <1>2 DEF AddDocument, Created, Without, Backends, InTable, Counted, Texting,
           Naming, Writer, IDs, Doc, Places, KnowledgeTypeOK
<1> HIDE DEF new
<1>4. Counted'
  <2>1. Cardinality(Texts(writer)) \in Nat
    BY <1>1, TextsCounted DEF Counted, Drawing, Texting, KnowledgeTypeOK
  <2>2. Cardinality(Texts(writer')) = Cardinality(Texts(writer))
    <3>1. /\ \A v \in Writers : writer[v].at \in Drawing <=> writer'[v].at \in Drawing
          /\ \A v \in Writers : writer[v].at \in Drawing => writer[v].text = writer'[v].text
      BY <1>2 DEF Drawing
    <3> QED
      BY <3>1, TextsSame
  <2>3. /\ issued' + Cardinality(Texts(writer')) <= writes'
        /\ seqFile' + Cardinality(Texts(writer')) <= writes'
    BY <1>1, <1>3, <2>1, <2>2 DEF Counted, KnowledgeTypeOK
  <2> QED
    BY <1>1, <1>2, <1>3, <2>3 DEF Counted, Texting, Naming, Storing, Drawing,
             KnowledgeTypeOK, IDs
<1>5. KnowledgeTypeOK'
  BY <1>1, <1>2, <1>3, <1>4 DEF KnowledgeTypeOK, IDs, Writer, Doc, Counted
<1>6. Backends' /\ Apart'
  BY <1>1, <1>2, <1>3 DEF Backends, Apart, InTable, InChromem, AtDocument, AtStored
<1>7. OneEach'
  BY <1>1, <1>3 DEF OneEach
<1>8. ASSUME renumbered' # "running"
      PROVE  KeptInv'
  <2>1. KeptInv
    BY <1>3, <1>8 DEF KnowInv
  <2>2. IdGiven'
    BY <1>1, <1>2, <1>3, <2>1 DEF KeptInv, IdGiven, Last, AtStored
  <2>3. Fresh'
    BY <1>1, <1>2, <1>3, <2>1 DEF KeptInv, Fresh, AtStored
  <2>4. Found'
    BY <1>1, <1>2, <1>3, <2>1 DEF KeptInv, Found, Fresh, AtStored
  <2>5. Removed'
    BY <1>1, <1>2, <1>3, <2>1 DEF KeptInv, Removed, Fresh, AtStored
  <2>6. StoredIsTold'
    BY <1>1, <1>2, <1>3, <2>1 DEF KeptInv, StoredIsTold, Fresh, Changing, AtStored
  <2>7. DocsGiven' /\ OneKept'
    BY <1>1, <1>2, <1>3, <2>1 DEF KeptInv, OneKept, DocsGiven, IdGiven, Fresh, Last,
             AtStored
  <2> QED
    BY <2>2, <2>3, <2>4, <2>5, <2>6, <2>7 DEF KeptInv
<1>9. ASSUME renumbered' = "no"
      PROVE  GivenInv'
  <2>1. GivenInv /\ KeptInv
    BY <1>3, <1>9 DEF KnowInv
  <2> QED
    BY <1>1, <1>2, <1>3, <2>1 DEF GivenInv, KeptInv, Last, KnowledgeTypeOK, IDs, AtStored,
             Fresh, IdGiven
<1> QED
  BY <1>4, <1>5, <1>6, <1>7, <1>8, <1>9 DEF KnowInv

LEMMA InsertEntryKeeps ==
    ASSUME KnowInv, NEW w \in Writers, InsertEntry(w)
    PROVE  KnowInv'
<1> USE KnowledgeAssumption
<1> DEFINE new == [id |-> issued + 1, owner |-> writer[w].owner, text |-> writer[w].text]
<1>1. KnowledgeTypeOK /\ Counted /\ Backends /\ Apart /\ OneEach
  BY DEF KnowInv
<1>2. /\ writer[w].at = "insert"
      /\ writer'[w].at = "idle" /\ writer'[w].id = 0 /\ writer'[w].text = 0
      /\ \A v \in Writers : v # w => writer'[v] = writer[v]
      /\ writer' \in [Writers -> Writer]
  BY <1>1, NoWriterIdle DEF InsertEntry, Created, Without, Backends, InChromem, InTable,
           Counted, Texting, Naming, Writer, IDs, Doc, Places, Finishes, Moves,
           KnowledgeTypeOK
<1>3. /\ backend = "sqlite" /\ hurt = {} /\ \A v \in Writers : writer[v].at \in InTable
      /\ writer[w].text \in 1 .. writes
      /\ backend' = backend /\ writes' = writes /\ seqFile' = seqFile /\ hurt' = hurt
      /\ renumbered' = renumbered
      /\ issued' = issued + 1
      /\ new \in Doc /\ new.id = issued + 1 /\ issued + 1 <= writes /\ new.text = writer[w].text /\ new.owner = writer[w].owner
      /\ docs' = {d \in docs : d.id # new.id} \cup {new}
      /\ kept' = kept \cup {new}
      /\ given' = given \cup {<<new.id, new.text>>}
  BY <1>1, <1>2, RoomToNumber DEF InsertEntry, Created, Without, Backends, InChromem,
           InTable, Counted, Texting, Drawing, Writer, IDs, Doc, Places, KnowledgeTypeOK
<1> HIDE DEF new
<1>4. Counted'
  <2>1. Cardinality(Texts(writer)) \in Nat
    BY <1>1, TextsCounted DEF Counted, Drawing, Texting, KnowledgeTypeOK
  <2>2. /\ Cardinality(Texts(writer')) \in Nat
        /\ Cardinality(Texts(writer')) + 1 = Cardinality(Texts(writer))
    <3>1. writer[w].at \in Drawing /\ writer'[w].at \notin Drawing
      BY <1>2 DEF Drawing
    <3>2. /\ \A v \in Writers : writer[v].at \in Drawing => writer[v].text \in 1 .. writes
          /\ \A u, v \in Writers :
                (/\ writer[u].at \in Drawing /\ writer[v].at \in Drawing
                 /\ writer[u].text = writer[v].text) => u = v
      BY <1>1 DEF Counted, Drawing, Texting
    <3> QED
      BY <1>1, <1>2, <3>1, <3>2, TextsLeave DEF KnowledgeTypeOK
  <2>3. /\ issued' + Cardinality(Texts(writer')) <= writes'
        /\ seqFile' + Cardinality(Texts(writer')) <= writes'
    BY <1>1, <1>3, <2>1, <2>2 DEF Counted, KnowledgeTypeOK
  <2> QED
    BY <1>1, <1>2, <1>3, <2>3 DEF Counted, Texting, Naming, Storing, Drawing,
             KnowledgeTypeOK, IDs
<1>5. KnowledgeTypeOK'
  BY <1>1, <1>2, <1>3, <1>4 DEF KnowledgeTypeOK, IDs, Writer, Doc, Counted
<1>6. Backends' /\ Apart'
  BY <1>1, <1>2, <1>3 DEF Backends, Apart, InTable, InChromem, AtDocument, AtStored
<1>7. OneEach'
  BY <1>1, <1>3 DEF OneEach
<1>8. ASSUME renumbered' # "running"
      PROVE  KeptInv'
  <2>1. KeptInv
    BY <1>3, <1>8 DEF KnowInv
  <2>2. IdGiven' /\ Fresh' /\ Found' /\ Removed'
    BY <1>3, <1>6 DEF Backends, InTable, AtStored, IdGiven, Fresh, Found, Removed
  <2>6. StoredIsTold'
    BY <1>1, <1>2, <1>3, <2>1 DEF KeptInv, StoredIsTold, Changing, DocsGiven, Last,
             InTable, KnowledgeTypeOK, IDs, Doc
  <2>7. DocsGiven' /\ OneKept'
    BY <1>1, <1>2, <1>3, <2>1 DEF KeptInv, OneKept, DocsGiven, StoredIsTold, Changing,
             Last, InTable, KnowledgeTypeOK, IDs, Doc
  <2> QED
    BY <2>2, <2>6, <2>7 DEF KeptInv
<1>9. ASSUME renumbered' = "no"
      PROVE  GivenInv'
  <2>1. GivenInv /\ KeptInv
    BY <1>3, <1>9 DEF KnowInv
  <2> QED
    BY <1>1, <1>2, <1>3, <2>1 DEF GivenInv, KeptInv, Last, KnowledgeTypeOK, IDs, InTable
<1> QED
  BY <1>4, <1>5, <1>6, <1>7, <1>8, <1>9 DEF KnowInv

LEMMA CreateKeeps ==
    ASSUME KnowInv, NEW w \in Writers, NEW p \in Owners, Create(w, p)
    PROVE  KnowInv'
<1> USE KnowledgeAssumption
<1>1. KnowledgeTypeOK /\ Counted /\ Backends /\ Apart /\ OneEach
  BY DEF KnowInv
<1>2. /\ writer[w].at = "idle"
      /\ writer'[w].at = IF backend = "sqlite" THEN "insert" ELSE "number"
      /\ writer'[w].text = writes + 1
      /\ \A v \in Writers : v # w => writer'[v] = writer[v]
      /\ writer' \in [Writers -> Writer]
  BY <1>1, NoWriterIdle DEF Create, StartWrite, IDs, Places, Finishes, Moves,
           KnowledgeTypeOK, Writer
<1>3. /\ backend' = backend /\ issued' = issued /\ seqFile' = seqFile /\ docs' = docs
      /\ kept' = kept /\ given' = given /\ hurt' = hurt /\ renumbered' = renumbered
      /\ writes' = writes + 1 /\ writes < MaxWrites
  BY <1>1, <1>2 DEF Create, StartWrite, IDs, Places, KnowledgeTypeOK
<1>4. Counted'
  <2>1. Cardinality(Texts(writer)) \in Nat
    BY <1>1, TextsCounted DEF Counted, Drawing, Texting, KnowledgeTypeOK
  <2>2. Cardinality(Texts(writer')) = Cardinality(Texts(writer)) + 1
    <3>1. /\ writer[w].at \notin Drawing /\ writer'[w].at \in Drawing
          /\ writer'[w].text = writes + 1
      BY <1>2 DEF Drawing
    <3>2. \A v \in Writers : writer[v].at \in Drawing => writer[v].text \in 1 .. writes
      BY <1>1 DEF Counted, Drawing, Texting
    <3> QED
      BY <1>1, <1>2, <3>1, <3>2, TextsEnter DEF KnowledgeTypeOK
  <2>3. /\ issued' + Cardinality(Texts(writer')) <= writes'
        /\ seqFile' + Cardinality(Texts(writer')) <= writes'
    BY <1>1, <1>3, <2>1, <2>2 DEF Counted, KnowledgeTypeOK
  <2>4. \A v \in Writers : writer'[v].at \in Texting => writer'[v].text \in 1 .. writes'
    BY <1>1, <1>2, <1>3 DEF Counted, Texting, KnowledgeTypeOK
  <2>5. \A v \in Writers : writer'[v].at \in Naming => writer'[v].id \in 1 .. MaxWrites
    BY <1>1, <1>2, <1>3 DEF Counted, Naming, KnowledgeTypeOK, IDs
  <2>6. \A v \in Writers : writer'[v].at \in Storing => writer'[v].id <= writes'
    BY <1>1, <1>2, <1>3 DEF Counted, Storing, Writer, KnowledgeTypeOK, IDs
  <2>7. \A u, v \in Writers :
           (/\ writer'[u].at \in Drawing /\ writer'[v].at \in Drawing
            /\ writer'[u].text = writer'[v].text) => u = v
    BY <1>1, <1>2, <1>3 DEF Counted, Drawing, Texting, KnowledgeTypeOK
  <2>8. \A d \in docs' : d.id <= writes'
    BY <1>1, <1>3 DEF Counted, KnowledgeTypeOK, Doc, IDs
  <2> QED
    BY <2>3, <2>4, <2>5, <2>6, <2>7, <2>8 DEF Counted
<1>5. KnowledgeTypeOK'
  BY <1>1, <1>2, <1>3, <1>4 DEF KnowledgeTypeOK, IDs, Writer, Doc, Counted
<1>6. Backends' /\ Apart'
  BY <1>1, <1>2, <1>3 DEF Backends, Apart, InTable, InChromem, AtDocument, AtStored
<1>7. OneEach'
  BY <1>1, <1>3 DEF OneEach
<1>8. ASSUME renumbered' # "running"
      PROVE  KeptInv'
  <2>1. KeptInv
    BY <1>3, <1>8 DEF KnowInv
  <2>2. IdGiven'
    BY <1>1, <1>2, <1>3, <2>1 DEF KeptInv, IdGiven, Last, AtStored
  <2>3. Fresh'
    BY <1>1, <1>2, <1>3, <2>1 DEF KeptInv, Fresh, AtStored
  <2>4. Found'
    BY <1>1, <1>2, <1>3, <2>1 DEF KeptInv, Found
  <2>5. Removed'
    BY <1>1, <1>2, <1>3, <2>1 DEF KeptInv, Removed
  <2>6. StoredIsTold'
    BY <1>1, <1>2, <1>3, <2>1 DEF KeptInv, StoredIsTold, Changing
  <2>7. DocsGiven' /\ OneKept'
    BY <1>1, <1>2, <1>3, <2>1 DEF KeptInv, DocsGiven, OneKept, Last
  <2> QED
    BY <2>2, <2>3, <2>4, <2>5, <2>6, <2>7 DEF KeptInv
<1>9. ASSUME renumbered' = "no"
      PROVE  GivenInv'
  <2>1. GivenInv
    BY <1>3, <1>9 DEF KnowInv
  <2> QED
    BY <1>1, <1>2, <1>3, <2>1 DEF GivenInv, Last
<1> QED
  BY <1>4, <1>5, <1>6, <1>7, <1>8, <1>9 DEF KnowInv

LEMMA BeginUpdateKeeps ==
    ASSUME KnowInv, NEW w \in Writers, NEW p \in Owners, NEW i \in IDs, BeginUpdate(w, i, p)
    PROVE  KnowInv'
<1> USE KnowledgeAssumption
<1>1. KnowledgeTypeOK /\ Counted /\ Backends /\ Apart /\ OneEach
  BY DEF KnowInv
<1>2. /\ writer[w].at = "idle"
      /\ writer'[w].at = IF backend = "sqlite" THEN "update" ELSE "check"
      /\ writer'[w].id = i /\ writer'[w].owner = p /\ writer'[w].text = writes + 1
      /\ \A v \in Writers : v # w => writer'[v] = writer[v]
      /\ writer' \in [Writers -> Writer]
  BY <1>1, NoWriterIdle DEF BeginUpdate, StartWrite, IDs, Find, Meets, Places, Finishes,
           Moves, KnowledgeTypeOK, Writer
<1>3. /\ backend' = backend /\ issued' = issued /\ seqFile' = seqFile /\ docs' = docs
      /\ kept' = kept /\ given' = given /\ renumbered' = renumbered
      /\ writes' = writes + 1 /\ writes < MaxWrites
      /\ \E d \in docs : d.id = i
      /\ hurt \subseteq hurt' /\ hurt' \subseteq hurt \cup {i}
      /\ backend = "sqlite" => hurt' = hurt
      /\ backend = "chromem" => \A v \in Writers : writer[v].id = i => i \in hurt'
  BY <1>1, <1>2 DEF BeginUpdate, StartWrite, IDs, Find, Meets, Places, KnowledgeTypeOK
<1>4. Counted'
  <2>1. Cardinality(Texts(writer)) \in Nat
    BY <1>1, TextsCounted DEF Counted, Drawing, Texting, KnowledgeTypeOK
  <2>2. Cardinality(Texts(writer')) = Cardinality(Texts(writer))
    <3>1. /\ \A v \in Writers : writer[v].at \in Drawing <=> writer'[v].at \in Drawing
          /\ \A v \in Writers : writer[v].at \in Drawing => writer[v].text = writer'[v].text
      BY <1>2 DEF Drawing
    <3> QED
      BY <3>1, TextsSame
  <2>3. /\ issued' + Cardinality(Texts(writer')) <= writes'
        /\ seqFile' + Cardinality(Texts(writer')) <= writes'
    BY <1>1, <1>3, <2>1, <2>2 DEF Counted, KnowledgeTypeOK
  <2>4. \A v \in Writers : writer'[v].at \in Texting => writer'[v].text \in 1 .. writes'
    BY <1>1, <1>2, <1>3 DEF Counted, Texting, KnowledgeTypeOK
  <2>5. \A v \in Writers : writer'[v].at \in Naming => writer'[v].id \in 1 .. MaxWrites
    BY <1>1, <1>2, <1>3 DEF Counted, Naming, KnowledgeTypeOK, IDs
  <2>6. \A v \in Writers : writer'[v].at \in Storing => writer'[v].id <= writes'
    BY <1>1, <1>2, <1>3 DEF Counted, Storing, Writer, KnowledgeTypeOK, IDs
  <2>7. \A u, v \in Writers :
           (/\ writer'[u].at \in Drawing /\ writer'[v].at \in Drawing
            /\ writer'[u].text = writer'[v].text) => u = v
    BY <1>1, <1>2, <1>3 DEF Counted, Drawing, Texting, KnowledgeTypeOK
  <2>8. \A d \in docs' : d.id <= writes'
    BY <1>1, <1>3 DEF Counted, KnowledgeTypeOK, Doc, IDs
  <2> QED
    BY <2>3, <2>4, <2>5, <2>6, <2>7, <2>8 DEF Counted
<1>5. KnowledgeTypeOK'
  BY <1>1, <1>2, <1>3, <1>4 DEF KnowledgeTypeOK, IDs, Writer, Doc, Counted
<1>6. Backends' /\ Apart'
  <2>1. Backends'
    BY <1>1, <1>2, <1>3 DEF Backends, InTable, InChromem, KnowledgeTypeOK
  <2>2. Apart'
    BY <1>1, <1>2, <1>3 DEF Backends, InTable, Apart, AtDocument, AtStored, KnowledgeTypeOK
  <2> QED
    BY <2>1, <2>2
<1>7. OneEach'
  BY <1>1, <1>3 DEF OneEach
<1>8. ASSUME renumbered' # "running"
      PROVE  KeptInv'
  <2>1. KeptInv
    BY <1>3, <1>8 DEF KnowInv
  <2>2. IdGiven'
    BY <1>1, <1>2, <1>3, <2>1 DEF KeptInv, IdGiven, DocsGiven, Last, AtStored
  <2>3. Fresh'
    BY <1>1, <1>2, <1>3, <2>1 DEF KeptInv, Fresh, AtStored
  <2>4. Found'
    BY <1>1, <1>2, <1>3, <2>1 DEF KeptInv, Found
  <2>5. Removed'
    BY <1>1, <1>2, <1>3, <2>1 DEF KeptInv, Removed
  <2>6. StoredIsTold'
    BY <1>1, <1>2, <1>3, <2>1 DEF KeptInv, StoredIsTold, Changing
  <2>7. DocsGiven' /\ OneKept'
    BY <1>1, <1>2, <1>3, <2>1 DEF KeptInv, DocsGiven, OneKept, Last
  <2> QED
    BY <2>2, <2>3, <2>4, <2>5, <2>6, <2>7 DEF KeptInv
<1>9. ASSUME renumbered' = "no"
      PROVE  GivenInv'
  <2>1. GivenInv
    BY <1>3, <1>9 DEF KnowInv
  <2> QED
    BY <1>1, <1>2, <1>3, <2>1 DEF GivenInv, Last
<1> QED
  BY <1>4, <1>5, <1>6, <1>7, <1>8, <1>9 DEF KnowInv

LEMMA BeginDeleteKeeps ==
    ASSUME KnowInv, NEW w \in Writers, NEW p \in Owners, NEW i \in IDs, BeginDelete(w, i, p)
    PROVE  KnowInv'
<1> USE KnowledgeAssumption
<1>1. KnowledgeTypeOK /\ Counted /\ Backends /\ Apart /\ OneEach
  BY DEF KnowInv
<1>2. /\ writer[w].at = "idle"
      /\ writer'[w].at = IF backend = "sqlite" THEN "erase" ELSE "find"
      /\ writer'[w].id = i /\ writer'[w].owner = p
      /\ \A v \in Writers : v # w => writer'[v] = writer[v]
      /\ writer' \in [Writers -> Writer]
  BY <1>1, NoWriterIdle DEF BeginDelete, StartWrite, IDs, Meets, Places, Finishes, Moves,
           KnowledgeTypeOK, Writer
<1>3. /\ backend' = backend /\ issued' = issued /\ seqFile' = seqFile /\ docs' = docs
      /\ kept' = kept /\ given' = given /\ renumbered' = renumbered
      /\ writes' = writes + 1 /\ writes < MaxWrites
      /\ hurt \subseteq hurt' /\ hurt' \subseteq hurt \cup {i}
      /\ backend = "sqlite" => hurt' = hurt
      /\ backend = "chromem" => \A v \in Writers : writer[v].id = i => i \in hurt'
  BY <1>1, <1>2 DEF BeginDelete, StartWrite, IDs, Meets, Places, KnowledgeTypeOK
<1>4. Counted'
  <2>1. Cardinality(Texts(writer)) \in Nat
    BY <1>1, TextsCounted DEF Counted, Drawing, Texting, KnowledgeTypeOK
  <2>2. Cardinality(Texts(writer')) = Cardinality(Texts(writer))
    <3>1. /\ \A v \in Writers : writer[v].at \in Drawing <=> writer'[v].at \in Drawing
          /\ \A v \in Writers : writer[v].at \in Drawing => writer[v].text = writer'[v].text
      BY <1>2 DEF Drawing
    <3> QED
      BY <3>1, TextsSame
  <2>3. /\ issued' + Cardinality(Texts(writer')) <= writes'
        /\ seqFile' + Cardinality(Texts(writer')) <= writes'
    BY <1>1, <1>3, <2>1, <2>2 DEF Counted, KnowledgeTypeOK
  <2>4. \A v \in Writers : writer'[v].at \in Texting => writer'[v].text \in 1 .. writes'
    BY <1>1, <1>2, <1>3 DEF Counted, Texting, KnowledgeTypeOK
  <2>5. \A v \in Writers : writer'[v].at \in Naming => writer'[v].id \in 1 .. MaxWrites
    BY <1>1, <1>2, <1>3 DEF Counted, Naming, KnowledgeTypeOK, IDs
  <2>6. \A v \in Writers : writer'[v].at \in Storing => writer'[v].id <= writes'
    BY <1>1, <1>2, <1>3 DEF Counted, Storing, Writer, KnowledgeTypeOK, IDs
  <2>7. \A u, v \in Writers :
           (/\ writer'[u].at \in Drawing /\ writer'[v].at \in Drawing
            /\ writer'[u].text = writer'[v].text) => u = v
    BY <1>1, <1>2, <1>3 DEF Counted, Drawing, Texting, KnowledgeTypeOK
  <2>8. \A d \in docs' : d.id <= writes'
    BY <1>1, <1>3 DEF Counted, KnowledgeTypeOK, Doc, IDs
  <2> QED
    BY <2>3, <2>4, <2>5, <2>6, <2>7, <2>8 DEF Counted
<1>5. KnowledgeTypeOK'
  BY <1>1, <1>2, <1>3, <1>4 DEF KnowledgeTypeOK, IDs, Writer, Doc, Counted
<1>6. Backends' /\ Apart'
  <2>1. Backends'
    BY <1>1, <1>2, <1>3 DEF Backends, InTable, InChromem, KnowledgeTypeOK
  <2>2. Apart'
    BY <1>1, <1>2, <1>3 DEF Backends, InTable, Apart, AtDocument, AtStored, KnowledgeTypeOK
  <2> QED
    BY <2>1, <2>2
<1>7. OneEach'
  BY <1>1, <1>3 DEF OneEach
<1>8. ASSUME renumbered' # "running"
      PROVE  KeptInv'
  <2>1. KeptInv
    BY <1>3, <1>8 DEF KnowInv
  <2>2. IdGiven'
    BY <1>1, <1>2, <1>3, <2>1 DEF KeptInv, IdGiven, Last, AtStored
  <2>3. Fresh'
    BY <1>1, <1>2, <1>3, <2>1 DEF KeptInv, Fresh, AtStored
  <2>4. Found'
    BY <1>1, <1>2, <1>3, <2>1 DEF KeptInv, Found
  <2>5. Removed'
    BY <1>1, <1>2, <1>3, <2>1 DEF KeptInv, Removed
  <2>6. StoredIsTold'
    BY <1>1, <1>2, <1>3, <2>1 DEF KeptInv, StoredIsTold, Changing
  <2>7. DocsGiven' /\ OneKept'
    BY <1>1, <1>2, <1>3, <2>1 DEF KeptInv, DocsGiven, OneKept, Last
  <2> QED
    BY <2>2, <2>3, <2>4, <2>5, <2>6, <2>7 DEF KeptInv
<1>9. ASSUME renumbered' = "no"
      PROVE  GivenInv'
  <2>1. GivenInv
    BY <1>3, <1>9 DEF KnowInv
  <2> QED
    BY <1>1, <1>2, <1>3, <2>1 DEF GivenInv, Last
<1> QED
  BY <1>4, <1>5, <1>6, <1>7, <1>8, <1>9 DEF KnowInv

LEMMA SeqFileCutKeeps ==
    ASSUME KnowInv, NEW w \in Writers, SeqFileCut(w)
    PROVE  KnowInv'
<1> USE KnowledgeAssumption
<1>1. KnowledgeTypeOK /\ Counted /\ Backends /\ Apart /\ OneEach
  BY DEF KnowInv
<1>2. /\ writer[w].at = "number"
      /\ writer'[w].at = "idle" /\ writer'[w].id = 0 /\ writer'[w].text = 0
      /\ \A v \in Writers : v # w => writer'[v] = writer[v]
      /\ writer' \in [Writers -> Writer]
  BY <1>1, NoWriterIdle DEF SeqFileCut, Places, Finishes, Moves, KnowledgeTypeOK, Writer
<1>3. /\ backend' = backend /\ issued' = issued /\ writes' = writes /\ docs' = docs
      /\ kept' = kept /\ given' = given /\ hurt' = hurt
      /\ seqFile' = 0 /\ renumbered' = "running"
  BY <1>1, <1>2 DEF SeqFileCut, Places, KnowledgeTypeOK
<1>4. Counted'
  <2>1. Cardinality(Texts(writer)) \in Nat
    BY <1>1, TextsCounted DEF Counted, Drawing, Texting, KnowledgeTypeOK
  <2>2. /\ Cardinality(Texts(writer')) \in Nat
        /\ Cardinality(Texts(writer')) + 1 = Cardinality(Texts(writer))
    <3>1. writer[w].at \in Drawing /\ writer'[w].at \notin Drawing
      BY <1>2 DEF Drawing
    <3>2. /\ \A v \in Writers : writer[v].at \in Drawing => writer[v].text \in 1 .. writes
          /\ \A u, v \in Writers :
                (/\ writer[u].at \in Drawing /\ writer[v].at \in Drawing
                 /\ writer[u].text = writer[v].text) => u = v
      BY <1>1 DEF Counted, Drawing, Texting
    <3> QED
      BY <1>1, <1>2, <3>1, <3>2, TextsLeave DEF KnowledgeTypeOK
  <2>3. /\ issued' + Cardinality(Texts(writer')) <= writes'
        /\ seqFile' + Cardinality(Texts(writer')) <= writes'
    BY <1>1, <1>3, <2>1, <2>2 DEF Counted, KnowledgeTypeOK
  <2> QED
    BY <1>1, <1>2, <1>3, <2>3 DEF Counted, Texting, Naming, Storing, Drawing,
             KnowledgeTypeOK, IDs
<1>5. KnowledgeTypeOK'
  BY <1>1, <1>2, <1>3, <1>4 DEF KnowledgeTypeOK, IDs, Writer, Doc, Counted
<1>6. Backends' /\ Apart'
  BY <1>1, <1>2, <1>3 DEF Backends, Apart, InTable, InChromem, AtDocument, AtStored
<1>7. OneEach'
  BY <1>1, <1>3 DEF OneEach
<1>8. ASSUME renumbered' # "running"
      PROVE  KeptInv'
  <2>1. KeptInv
    BY <1>3, <1>8 DEF KnowInv
  <2>2. IdGiven'
    BY <1>3, <1>8
  <2>3. Fresh'
    BY <1>1, <1>2, <1>3, <2>1 DEF KeptInv, Fresh, AtStored
  <2>4. Found'
    BY <1>1, <1>2, <1>3, <2>1 DEF KeptInv, Found
  <2>5. Removed'
    BY <1>1, <1>2, <1>3, <2>1 DEF KeptInv, Removed
  <2>6. StoredIsTold'
    BY <1>1, <1>2, <1>3, <2>1 DEF KeptInv, StoredIsTold, Changing
  <2>7. DocsGiven' /\ OneKept'
    BY <1>3, <1>8
  <2> QED
    BY <2>2, <2>3, <2>4, <2>5, <2>6, <2>7 DEF KeptInv
<1>9. ASSUME renumbered' = "no"
      PROVE  GivenInv'
  BY <1>3, <1>9
<1> QED
  BY <1>4, <1>5, <1>6, <1>7, <1>8, <1>9 DEF KnowInv

LEMMA WriteFailsKeeps ==
    ASSUME KnowInv, NEW w \in Writers, WriteFails(w)
    PROVE  KnowInv'
<1> USE KnowledgeAssumption
<1>1. KnowledgeTypeOK /\ Counted /\ Backends /\ Apart /\ OneEach
  BY DEF KnowInv
<1>2. /\ writer[w].at # "idle"
      /\ writer'[w].at = "idle" /\ writer'[w].id = 0 /\ writer'[w].text = 0
      /\ \A v \in Writers : v # w => writer'[v] = writer[v]
      /\ writer' \in [Writers -> Writer]
  BY <1>1, NoWriterIdle DEF WriteFails, Places, Finishes, Moves, KnowledgeTypeOK, Writer
<1>3. /\ backend' = backend /\ issued' = issued /\ writes' = writes /\ seqFile' = seqFile
      /\ docs' = docs /\ kept' = kept /\ given' = given /\ renumbered' = renumbered
      /\ hurt' = IF writer[w].at = "readd" THEN hurt \cup {writer[w].id} ELSE hurt
  BY <1>1, <1>2 DEF WriteFails, Places, KnowledgeTypeOK
<1>4. Counted'
  <2>1. Cardinality(Texts(writer)) \in Nat
    BY <1>1, TextsCounted DEF Counted, Drawing, Texting, KnowledgeTypeOK
  <2>2. /\ Cardinality(Texts(writer')) \in Nat
        /\ Cardinality(Texts(writer')) <= Cardinality(Texts(writer))
    <3>1. IsFiniteSet(Texts(writer))
      BY <1>1, TextsCounted DEF Counted, Drawing, Texting, KnowledgeTypeOK
    <3>2. Texts(writer') \subseteq Texts(writer)
      BY <1>2 DEF Texts, Drawing
    <3> QED
      BY <3>1, <3>2, FS_Subset, FS_CardinalityType
  <2>3. /\ issued' + Cardinality(Texts(writer')) <= writes'
        /\ seqFile' + Cardinality(Texts(writer')) <= writes'
    BY <1>1, <1>3, <2>1, <2>2 DEF Counted, KnowledgeTypeOK
  <2> QED
    BY <1>1, <1>2, <1>3, <2>3 DEF Counted, Texting, Naming, Storing, Drawing,
             KnowledgeTypeOK, IDs
<1>5. KnowledgeTypeOK'
  BY <1>1, <1>2, <1>3, <1>4 DEF KnowledgeTypeOK, IDs, Writer, Doc, Counted, Naming
<1>6. Backends' /\ Apart'
  BY <1>1, <1>2, <1>3 DEF Backends, Apart, InTable, InChromem, AtDocument, AtStored
<1>7. OneEach'
  BY <1>1, <1>3 DEF OneEach
<1>8. ASSUME renumbered' # "running"
      PROVE  KeptInv'
  <2>1. KeptInv
    BY <1>3, <1>8 DEF KnowInv
  <2>2. IdGiven'
    BY <1>1, <1>2, <1>3, <2>1 DEF KeptInv, IdGiven, Last, AtStored
  <2>3. Fresh'
    BY <1>1, <1>2, <1>3, <2>1 DEF KeptInv, Fresh, AtStored
  <2>4. Found'
    BY <1>1, <1>2, <1>3, <2>1 DEF KeptInv, Found
  <2>5. Removed'
    BY <1>1, <1>2, <1>3, <2>1 DEF KeptInv, Removed
  <2>6. StoredIsTold'
    BY <1>1, <1>2, <1>3, <2>1 DEF KeptInv, StoredIsTold, Changing
  <2>7. DocsGiven' /\ OneKept'
    BY <1>1, <1>2, <1>3, <2>1 DEF KeptInv, DocsGiven, OneKept, Last
  <2> QED
    BY <2>2, <2>3, <2>4, <2>5, <2>6, <2>7 DEF KeptInv
<1>9. ASSUME renumbered' = "no"
      PROVE  GivenInv'
  <2>1. GivenInv
    BY <1>3, <1>9 DEF KnowInv
  <2> QED
    BY <1>1, <1>2, <1>3, <2>1 DEF GivenInv, Last
<1> QED
  BY <1>4, <1>5, <1>6, <1>7, <1>8, <1>9 DEF KnowInv

LEMMA RestartKeeps ==
    ASSUME KnowInv, BootstrapSeq
    PROVE  KnowInv'
<1> USE KnowledgeAssumption
<1> DEFINE top == Largest({d.id : d \in docs})
<1>1. KnowledgeTypeOK /\ Counted /\ Backends /\ Apart /\ OneEach
  BY DEF KnowInv
<1>2. /\ backend = "chromem"
      /\ \A v \in Writers : writer'[v].at = "idle"
      /\ writer' \in [Writers -> Writer]
  BY NoWriterIdle DEF BootstrapSeq
<1>3. top \in 0 .. writes /\ \A d \in docs : d.id <= top
  <2> DEFINE ids == {d.id : d \in docs}
  <2>1. ids \in SUBSET Nat /\ \A i \in ids : i <= writes
    BY <1>1 DEF KnowledgeTypeOK, Counted, Doc, IDs
  <2>2. writes \in Nat
    BY <1>1 DEF KnowledgeTypeOK
  <2> HIDE DEF ids
  <2>3. Largest(ids) \in 0 .. writes /\ \A i \in ids : i <= Largest(ids)
    BY <2>1, <2>2, LargestBounds
  <2> QED
    BY <2>3 DEF ids
<1> HIDE DEF top
<1>4. /\ seqFile' = top \/ (seqFile' = seqFile /\ seqFile > 0)
      /\ renumbered' = "no" => renumbered = "no" /\ (seqFile > 0 => seqFile' = seqFile)
      /\ renumbered' # "running" => renumbered # "running"
      /\ renumbered' \in {"no", "restart", "running"}
      /\ hurt \subseteq hurt' /\ hurt' \subseteq hurt \cup {writer[v].id : v \in Writers}
      /\ \A v \in Writers : writer[v].at = "readd" => writer[v].id \in hurt'
      /\ \A i \in hurt' : i \in hurt \/ \E v \in Writers : writer[v].at = "readd" /\ i = writer[v].id
      /\ backend' = backend /\ docs' = docs /\ issued' = issued /\ writes' = writes
      /\ kept' = kept /\ given' = given
  BY <1>1 DEF BootstrapSeq, Places, KnowledgeTypeOK, top
<1>5. Counted'
  <2>1. Cardinality(Texts(writer)) \in Nat
    BY <1>1, TextsCounted DEF Counted, Drawing, Texting, KnowledgeTypeOK
  <2>2. Cardinality(Texts(writer')) = 0
    BY <1>2, TextsNone DEF Drawing
  <2>3. /\ issued' + Cardinality(Texts(writer')) <= writes'
        /\ seqFile' + Cardinality(Texts(writer')) <= writes'
    BY <1>1, <1>3, <1>4, <2>1, <2>2 DEF Counted, KnowledgeTypeOK
  <2> QED
    BY <1>1, <1>2, <1>4, <2>3 DEF Counted, Texting, Naming, Storing, Drawing
<1>6. KnowledgeTypeOK'
  <2>1. hurt' \subseteq IDs
    BY <1>1, <1>4 DEF KnowledgeTypeOK, Counted, Naming, IDs
  <2>2. seqFile' \in 0 .. MaxWrites
    BY <1>1, <1>3, <1>4 DEF KnowledgeTypeOK
  <2> QED
    BY <1>1, <1>2, <1>4, <2>1, <2>2 DEF KnowledgeTypeOK
<1>7. Backends' /\ Apart' /\ OneEach'
  BY <1>1, <1>2, <1>4 DEF Backends, InChromem, Apart, AtDocument, AtStored, OneEach
<1>8. ASSUME renumbered' # "running"
      PROVE  KeptInv'
  <2>1. KeptInv
    BY <1>4, <1>8 DEF KnowInv
  <2>2. IdGiven' /\ Fresh' /\ Found' /\ Removed'
    BY <1>2 DEF IdGiven, Fresh, Found, Removed, AtStored
  <2>3. StoredIsTold'
    BY <1>1, <1>2, <1>4, <2>1 DEF KeptInv, StoredIsTold, Changing
  <2>4. DocsGiven' /\ OneKept'
    BY <1>2, <1>3, <1>4, <2>1 DEF KeptInv, DocsGiven, OneKept, Last
  <2> QED
    BY <2>2, <2>3, <2>4 DEF KeptInv
<1>9. ASSUME renumbered' = "no"
      PROVE  GivenInv'
  <2>1. GivenInv
    BY <1>4, <1>9 DEF KnowInv
  <2>2. seqFile <= seqFile'
    BY <1>1, <1>3, <1>4, <1>9 DEF KnowledgeTypeOK
  <2>3. \A g \in given : g[1] \in Nat /\ g[1] <= seqFile
    BY <1>1, <1>2, <2>1 DEF GivenInv, Last, KnowledgeTypeOK, IDs
  <2>4. \A g \in given : g[1] <= seqFile'
    BY <1>1, <1>3, <1>4, <2>2, <2>3 DEF KnowledgeTypeOK
  <2> QED
    BY <1>2, <1>4, <2>1, <2>4 DEF GivenInv, Last
<1> QED
  BY <1>5, <1>6, <1>7, <1>8, <1>9 DEF KnowInv

-----------------------------------------------------------------------------
(* The theorems.                                                           *)

LEMMA KnowInitially == KnowledgeInit => KnowInv
<1> SUFFICES ASSUME KnowledgeInit
             PROVE  KnowInv
  OBVIOUS
<1>1. /\ \A v \in Writers : writer[v].at = "idle"
      /\ writer \in [Writers -> Writer]
  BY NoWriterIdle DEF KnowledgeInit
<1>2. KnowledgeTypeOK
  BY <1>1, KnowledgeAssumption DEF KnowledgeInit, KnowledgeTypeOK
<1>3. Counted
  <2>1. Cardinality(Texts(writer)) = 0
    BY <1>1, TextsNone DEF Drawing
  <2> QED
    BY <1>1, <2>1 DEF KnowledgeInit, Counted, Texting, Naming, Storing, Drawing
<1>4. Backends /\ Apart /\ OneEach
  BY <1>1 DEF KnowledgeInit, Backends, InTable, InChromem, Apart, AtDocument, AtStored, OneEach
<1>5. KeptInv /\ GivenInv
  BY <1>1 DEF KnowledgeInit, KeptInv, GivenInv, IdGiven, Fresh, Found, Removed, StoredIsTold,
              DocsGiven, OneKept, AtStored
<1> QED
  BY <1>2, <1>3, <1>4, <1>5 DEF KnowInv

LEMMA KnowUnchanged == KnowInv /\ UNCHANGED knowVars => KnowInv'
  BY DEF knowVars, KnowInv, KnowledgeTypeOK, Counted, Backends, Apart, OneEach,
         KeptInv, GivenInv, IdGiven, Fresh, Found, Removed, StoredIsTold, Changing,
         DocsGiven, OneKept, Last

LEMMA KnowSteps == KnowInv /\ [KnowledgeNext]_knowVars => KnowInv'
<1> SUFFICES ASSUME KnowInv, [KnowledgeNext]_knowVars
             PROVE  KnowInv'
  OBVIOUS
<1>1. CASE UNCHANGED knowVars
  BY <1>1, KnowUnchanged
<1>2. CASE BootstrapSeq
  BY <1>2, RestartKeeps
<1>3. ASSUME NEW w \in Writers, NEW p \in Owners, NEW i \in IDs,
             BeginUpdate(w, i, p) \/ BeginDelete(w, i, p)
      PROVE  KnowInv'
  BY <1>3, BeginUpdateKeeps, BeginDeleteKeeps
<1>4. ASSUME NEW w \in Writers, NEW p \in Owners, Create(w, p)
      PROVE  KnowInv'
  BY <1>4, CreateKeeps
<1>5. ASSUME NEW w \in Writers, InsertEntry(w) \/ NextID(w) \/ AddDocument(w)
      PROVE  KnowInv'
  BY <1>5, InsertEntryKeeps, NextIDKeeps, AddDocumentKeeps
<1>6. ASSUME NEW w \in Writers,
             UpdateEntry(w) \/ CheckDocument(w) \/ RemoveToChange(w) \/ AddChanged(w)
      PROVE  KnowInv'
  BY <1>6, UpdateEntryKeeps, CheckDocumentKeeps, RemoveToChangeKeeps, AddChangedKeeps
<1>7. ASSUME NEW w \in Writers, DeleteEntry(w) \/ FindToDelete(w) \/ DeleteDocument(w)
      PROVE  KnowInv'
  BY <1>7, DeleteEntryKeeps, FindToDeleteKeeps, DeleteDocumentKeeps
<1>8. ASSUME NEW w \in Writers, WriteFails(w) \/ SeqFileCut(w)
      PROVE  KnowInv'
  BY <1>8, WriteFailsKeeps, SeqFileCutKeeps
<1> QED
  BY <1>1, <1>2, <1>3, <1>4, <1>5, <1>6, <1>7, <1>8 DEF KnowledgeNext

LEMMA KnowAlways == KnowledgeSpec => []KnowInv
  BY KnowInitially, KnowSteps, PTL DEF KnowledgeSpec

(***************************************************************************)
(* Every request, entry, number and ground truth of the knowledge keeps    *)
(* its type; above all, no number drawn from the file passes the writes.   *)
(***************************************************************************)
THEOREM KnowledgeTypeCorrect == KnowledgeSpec => []KnowledgeTypeOK
<1>1. KnowInv => KnowledgeTypeOK
  BY DEF KnowInv
<1> QED
  BY <1>1, KnowAlways, PTL

(***************************************************************************)
(* With any number of requests, products and writes, over failed           *)
(* embeddings, lost clients and deaths of the server, an entry of the      *)
(* knowledge reads as its last writer was told, but for the ids that are   *)
(* hurt and the numbers of a file that was cut off (KnowledgeKept).        *)
(***************************************************************************)
THEOREM EntriesAreKept == KnowledgeSpec => []KnowledgeKept
<1>1. KnowInv => KnowledgeKept
  <2> SUFFICES ASSUME KnowInv
               PROVE  KnowledgeKept
    OBVIOUS
  <2>1. ASSUME renumbered # "running"
        PROVE  {d \in docs : d.id \notin hurt} =
               {k \in kept : k.id \notin hurt /\ ~Changing(k.id)}
    <3>1. StoredIsTold /\ docs \subseteq Doc /\ kept \subseteq Doc
      BY <2>1 DEF KnowInv, KeptInv, KnowledgeTypeOK
    <3> QED
      BY <3>1 DEF StoredIsTold
  <2>2. ASSUME renumbered = "no"
        PROVE  \A g, h \in given : g[1] = h[1] => g = h
    BY <2>2 DEF KnowInv, GivenInv
  <2> QED
    BY <2>1, <2>2 DEF KnowledgeKept
<1> QED
  BY <1>1, KnowAlways, PTL
=============================================================================

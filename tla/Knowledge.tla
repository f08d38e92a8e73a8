------------------------------ MODULE Knowledge ------------------------------
(***************************************************************************)
(* The knowledge of the products, in a table of SQLite or in a chromem     *)
(* collection.  The table is written by single statements; chromem numbers *)
(* documents from a file, embeds their text by a call of a model that may  *)
(* fail, and can change a document only by deleting and adding it.  Server *)
(* requests and the ingestion of swipes, feedback and completions write at *)
(* once; the server may die between any two steps.                         *)
(***************************************************************************)
EXTENDS Integers, FiniteSets

CONSTANTS
    Writers,         \* requests in progress
    Owners,          \* products
    MaxWrites        \* bound: writes of a behaviour; numbers the texts too

ASSUME KnowledgeAssumption ==
    Owners # {} /\ MaxWrites \in Nat

VARIABLES
    backend,
    docs,            \* the entries stored
    issued,          \* the last AUTOINCREMENT of the table
    seqFile,         \* the number in arms_knowledge.seq, 0 if there is none
    writer,          \* the requests: where they are and what they know
    writes,
    kept,            \* entries as their last writer was told (ground truth)
    given,           \* ids answered by creates, with the text (ground truth)
    hurt,            \* ids whose update was cut off, or met another write
    renumbered       \* was the sequence file cut off, in a running server?

knowVars == <<backend, docs, issued, seqFile, writer, writes, kept, given, hurt, renumbered>>

IDs == 1 .. MaxWrites
Doc == [id : IDs, owner : Owners, text : IDs]
AnyOwner == CHOOSE p \in Owners : TRUE

Writer == [at : {"idle", "insert", "number", "add", "update", "check", "remove",
                 "readd", "erase", "find", "drop"},
           owner : Owners, id : 0 .. MaxWrites, text : 0 .. MaxWrites]
NoWriter == [at |-> "idle", owner |-> AnyOwner, id |-> 0, text |-> 0]

KnowledgeTypeOK ==
    /\ backend \in {"sqlite", "chromem"}
    /\ docs \subseteq Doc /\ kept \subseteq Doc
    /\ {issued, seqFile, writes} \subseteq 0 .. MaxWrites
    /\ writer \in [Writers -> Writer]
    /\ given \subseteq IDs \X IDs /\ hurt \subseteq IDs
    /\ renumbered \in {"no", "restart", "running"}

KnowledgeInit ==
    /\ backend \in {"sqlite", "chromem"}
    /\ docs = {} /\ kept = {}
    /\ issued = 0 /\ seqFile = 0 /\ writes = 0
    /\ writer = [w \in Writers |-> NoWriter]
    /\ given = {} /\ hurt = {}
    /\ renumbered = "no"

Places(w, place) == writer[w].at = place
Moves(w, place) == writer' = [writer EXCEPT ![w].at = place]
Finishes(w) == writer' = [writer EXCEPT ![w] = NoWriter]

Largest(S) == IF S = {} THEN 0 ELSE CHOOSE n \in S : \A m \in S : m <= n
Without(S, i) == {d \in S : d.id # i}

\* Mutant: the product in the path is not compared with the entry's.
FindAny(i, p) == {d \in docs : d.id = i}

(* ByID of either store: the entry, if it is of this product.              *)
Find(i, p) == {d \in docs : d.id = i /\ d.owner = p}

(***************************************************************************)
(* Create, by request or by ingestion.                                     *)
(***************************************************************************)
StartWrite(w, rec) ==
    /\ Places(w, "idle")
    /\ writes < MaxWrites
    /\ writes' = writes + 1
    /\ writer' = [writer EXCEPT ![w] = rec]
    /\ UNCHANGED <<backend, docs, issued, seqFile, kept, given, renumbered>>

Create(w, p) ==
    /\ StartWrite(w, [at |-> IF backend = "sqlite" THEN "insert" ELSE "number",
                      owner |-> p, id |-> 0, text |-> writes + 1])
    /\ UNCHANGED hurt

Created(d) == /\ docs' = Without(docs, d.id) \cup {d}
              /\ kept' = kept \cup {d}
              /\ given' = given \cup {<<d.id, d.text>>}

InsertEntry(w) ==
    /\ Places(w, "insert")
    /\ issued' = issued + 1
    /\ Created([id |-> issued + 1, owner |-> writer[w].owner, text |-> writer[w].text])
    /\ Finishes(w)
    /\ UNCHANGED <<backend, seqFile, writes, hurt, renumbered>>

(* Under seqMu.                                                            *)
NextID(w) ==
    /\ Places(w, "number")
    /\ seqFile' = seqFile + 1
    /\ writer' = [writer EXCEPT ![w] = [at |-> "add", owner |-> @.owner,
                                        id |-> seqFile + 1, text |-> @.text]]
    /\ UNCHANGED <<backend, docs, issued, writes, kept, given, hurt, renumbered>>

AddDocument(w) ==
    /\ Places(w, "add")
    /\ Created([id |-> writer[w].id, owner |-> writer[w].owner, text |-> writer[w].text])
    /\ Finishes(w)
    /\ UNCHANGED <<backend, issued, seqFile, writes, hurt, renumbered>>

(***************************************************************************)
(* Update and delete.                                                      *)
(***************************************************************************)
(* Two requests at one document are not kept apart.                        *)
Meets(i) == IF backend = "chromem" THEN {i} \cap {writer[w].id : w \in Writers} ELSE {}

BeginUpdate(w, i, p) ==
    /\ Find(i, p) # {}
    /\ StartWrite(w, [at |-> IF backend = "sqlite" THEN "update" ELSE "check",
                      owner |-> p, id |-> i, text |-> writes + 1])
    /\ hurt' = hurt \cup Meets(i)

BeginDelete(w, i, p) ==
    /\ StartWrite(w, [at |-> IF backend = "sqlite" THEN "erase" ELSE "find",
                      owner |-> p, id |-> i, text |-> 0])
    /\ hurt' = hurt \cup Meets(i)

Rewritten(w) == [id |-> writer[w].id, owner |-> writer[w].owner, text |-> writer[w].text]
Changed(w) == /\ docs' = Without(docs, writer[w].id) \cup {Rewritten(w)}
              /\ kept' = {IF k.id = writer[w].id /\ k.owner = writer[w].owner
                            THEN Rewritten(w) ELSE k : k \in kept}
Forgotten(w) == {k \in kept : k.id # writer[w].id \/ k.owner # writer[w].owner}

UpdateEntry(w) ==
    /\ Places(w, "update")
    /\ IF Find(writer[w].id, writer[w].owner) = {}
         THEN UNCHANGED <<docs, kept>>
         ELSE Changed(w)
    /\ Finishes(w)
    /\ UNCHANGED <<backend, issued, seqFile, writes, given, hurt, renumbered>>

DeleteEntry(w) ==
    /\ Places(w, "erase")
    /\ docs' = docs \ Find(writer[w].id, writer[w].owner)
    /\ kept' = Forgotten(w)
    /\ Finishes(w)
    /\ UNCHANGED <<backend, issued, seqFile, writes, given, hurt, renumbered>>

CheckDocument(w) ==
    /\ Places(w, "check")
    /\ IF Find(writer[w].id, writer[w].owner) = {} THEN Finishes(w) ELSE Moves(w, "remove")
    /\ UNCHANGED <<backend, docs, issued, seqFile, writes, kept, given, hurt, renumbered>>

RemoveToChange(w) ==
    /\ Places(w, "remove")
    /\ docs' = Without(docs, writer[w].id)
    /\ Moves(w, "readd")
    /\ UNCHANGED <<backend, issued, seqFile, writes, kept, given, hurt, renumbered>>

AddChanged(w) ==
    /\ Places(w, "readd")
    /\ Changed(w)
    /\ Finishes(w)
    /\ UNCHANGED <<backend, issued, seqFile, writes, given, hurt, renumbered>>

FindToDelete(w) ==
    /\ Places(w, "find")
    /\ IF Find(writer[w].id, writer[w].owner) = {} THEN Finishes(w) ELSE Moves(w, "drop")
    /\ UNCHANGED <<backend, docs, issued, seqFile, writes, kept, given, hurt, renumbered>>

DeleteDocument(w) ==
    /\ Places(w, "drop")
    /\ docs' = Without(docs, writer[w].id)
    /\ kept' = Forgotten(w)
    /\ Finishes(w)
    /\ UNCHANGED <<backend, issued, seqFile, writes, given, hurt, renumbered>>

(***************************************************************************)
(* Faults.                                                                 *)
(***************************************************************************)
(* The embedding fails, the client is gone, the product or the database is *)
(* not there: the request ends where it is, and an update may have deleted *)
(* its document already.                                                   *)
WriteFails(w) ==
    /\ ~Places(w, "idle")
    /\ hurt' = IF Places(w, "readd") THEN hurt \cup {writer[w].id} ELSE hurt
    /\ Finishes(w)
    /\ UNCHANGED <<backend, docs, issued, seqFile, writes, kept, given, renumbered>>

(* WriteFile empties the file before it writes.                            *)
SeqFileCut(w) ==
    /\ Places(w, "number")
    /\ seqFile' = 0
    /\ renumbered' = "running"
    /\ Finishes(w)
    /\ UNCHANGED <<backend, docs, issued, writes, kept, given, hurt>>

(* The server dies, and numbers from the largest document if the file says *)
(* nothing.                                                                *)
BootstrapSeq ==
    /\ backend = "chromem"
    /\ \E w \in Writers : ~Places(w, "idle")
    /\ \/ /\ seqFile' = IF seqFile > 0 THEN seqFile ELSE Largest({d.id : d \in docs})
          /\ UNCHANGED renumbered
       \/ /\ \E w \in Writers : Places(w, "number")
          /\ seqFile' = Largest({d.id : d \in docs})
          /\ renumbered' = IF renumbered = "no" THEN "restart" ELSE renumbered
    /\ hurt' = hurt \cup {writer[w].id : w \in {v \in Writers : Places(v, "readd")}}
    /\ writer' = [w \in Writers |-> NoWriter]
    /\ UNCHANGED <<backend, docs, issued, writes, kept, given>>

KnowledgeNext ==
    \/ \E w \in Writers :
         \/ \E p \in Owners :
              \/ Create(w, p)
              \/ \E i \in IDs : BeginUpdate(w, i, p) \/ BeginDelete(w, i, p)
         \/ InsertEntry(w) \/ NextID(w) \/ AddDocument(w)
         \/ UpdateEntry(w) \/ DeleteEntry(w)
         \/ CheckDocument(w) \/ RemoveToChange(w) \/ AddChanged(w)
         \/ FindToDelete(w) \/ DeleteDocument(w)
         \/ WriteFails(w) \/ SeqFileCut(w)
    \/ BootstrapSeq

KnowledgeSpec == KnowledgeInit /\ [][KnowledgeNext]_knowVars

Changing(i) == \E w \in Writers : writer[w].id = i /\ writer[w].at = "readd"

(***************************************************************************)
(* An entry reads as its last writer was told, under the product it was    *)
(* written for, until somebody deletes it; what was deleted stays so, and  *)
(* no id is given out twice.  That holds over failed embeddings, lost      *)
(* clients and a dead server, but for an entry of chromem whose update was *)
(* cut off between delete and add or met another write, and for chromem's  *)
(* numbers once their file was cut off: after a restart the ids of deleted *)
(* entries come back, in a running server those of stored ones.            *)
(***************************************************************************)
KnowledgeKept ==
    /\ \/ renumbered = "running"
       \/ {d \in docs : d.id \notin hurt} =
          {k \in kept : k.id \notin hurt /\ ~Changing(k.id)}
    /\ renumbered = "no" => \A g, h \in given : g[1] = h[1] => g = h
=============================================================================

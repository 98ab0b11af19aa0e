---------------------------- MODULE MemoryIndex ----------------------------
(* The vector index of the memory records (crates/mivi-memory/src/index.rs). *)
(* An embedding is its dimension, its norm and its direction; the packed     *)
(* bytes are what the quantizer makes of it.                                 *)
EXTENDS Integers, Sequences, SequencesExt, FiniteSets, Functions, Ranking

CONSTANTS
    IndexDimension, \* dim
    RecordIds,      \* ids of records
    Vectors,        \* [dimension, norm, direction]
    Likeness,       \* the cosine of a direction and the query
    MaxIndexed      \* bound: operations that change the index

ASSUME IndexAssumption == \A vector \in Vectors : Likeness[vector.direction] \in Int

VARIABLES
    entries,    \* the entries, the oldest first
    current,    \* the vector of every record that is in the index
    result,     \* what the last call returned
    changesMade

indexVars == <<entries, current, result, changesMade>>

Unsearched == [kind |-> "none"]

OtherEntries(id) == Retained(entries, {i \in DOMAIN entries : entries[i].id # id})

\* The entry of a record that is there already stays.
AddRecordTwice(id, vector) ==
    /\ changesMade < MaxIndexed /\ changesMade' = changesMade + 1
    /\ IF vector.dimension = IndexDimension
       THEN /\ entries' = Append(entries, [id |-> id, vector |-> vector])
            /\ current' = [record \in DOMAIN current \cup {id} |->
                         IF record = id THEN vector ELSE current[record]]
       ELSE UNCHANGED <<entries, current>>
    /\ result' = Unsearched

\* add_record; a vector of another dimension is an error.
AddRecord(id, vector) ==
    /\ changesMade < MaxIndexed /\ changesMade' = changesMade + 1
    /\ IF vector.dimension = IndexDimension
       THEN /\ entries' = Append(OtherEntries(id), [id |-> id, vector |-> vector])
            /\ current' = [record \in DOMAIN current \cup {id} |->
                         IF record = id THEN vector ELSE current[record]]
       ELSE UNCHANGED <<entries, current>>
    /\ result' = Unsearched

\* remove_record
RemoveRecord(id) ==
    /\ changesMade < MaxIndexed /\ changesMade' = changesMade + 1
    /\ entries' = OtherEntries(id)
    /\ current' = Restrict(current, DOMAIN current \ {id})
    /\ result' = Unsearched

\* A zero vector is like nothing and is still a result.
Score(entry) == IF entry.vector.norm > 0 THEN Likeness[entry.vector.direction] ELSE 0

\* search
SearchIndex(dimension, count) ==
    /\ result = Unsearched
    /\ result' = IF dimension # IndexDimension THEN [kind |-> "error"]
                 ELSE [kind |-> "found", count |-> count,
                       best |-> Best(entries, [i \in DOMAIN entries |-> Score(entries[i])], count)]
    /\ UNCHANGED <<entries, current, changesMade>>

\* load_from_file after save_to_file keeps the entries and makes the quantizer anew.

----------------------------------------------------------------------------
IndexInit ==
    /\ entries = <<>>
    /\ current = [id \in {} |-> <<>>]
    /\ result = Unsearched
    /\ changesMade = 0

IndexNext ==
    \/ \E id \in RecordIds, vector \in Vectors : AddRecord(id, vector)
    \/ \E id \in RecordIds : RemoveRecord(id)
    \/ \E dimension \in {IndexDimension, IndexDimension + 1}, count \in 0..2 :
          SearchIndex(dimension, count)

IndexSpec == IndexInit /\ [][IndexNext]_indexVars

----------------------------------------------------------------------------
(* Properties.                                                             *)

\* A search gives each record at most once, with the vector it was last given and
\* never after it was removed, and no record that is less like the query than one
\* it leaves out.
SearchesCurrent ==
    result.kind = "found" =>
        LET records == [i \in DOMAIN entries |->
                           [id |-> entries[i].id, vector |-> current[entries[i].id]]]
        IN /\ {entries[i].id : i \in DOMAIN entries} = DOMAIN current
           /\ IsBest(result.best, records, Score, result.count)

=============================================================================

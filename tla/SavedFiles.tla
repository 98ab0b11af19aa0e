----------------------------- MODULE SavedFiles -----------------------------
(***************************************************************************)
(* What is written to files and read again after a restart: KV cache files *)
(* (crates/mivi-kv/src/disk.rs), memory records (crates/mivi-memory/src/   *)
(* store.rs) and the JSON of the vector index and of the expert heat       *)
(* (crates/mivi-memory/src/index.rs, crates/mivi-model/src/expert_cache.rs).*)
(*                                                                         *)
(* Every save creates the file anew, empty, and writes it in order, so     *)
(* that a process that dies, or an error, leaves the beginning of what was *)
(* to be written and nothing of what was there.  A file is a sequence of   *)
(* units: a number of the header or of the payload in a cache file; a      *)
(* field, a piece of text, a line end or part of a fence in a record.      *)
(***************************************************************************)
EXTENDS Integers, Sequences, SequencesExt, FiniteSetsExt, Functions

CONSTANTS
    CacheDocs,      \* [path, modelHash, tokens, state]
    RecordDocs,     \* [path, fields, content]
    JsonDocs,       \* [path, entries]
    ExpectedHashes,         \* model hashes a load may expect
    MaxSaves        \* bound: saves

VARIABLES
    disk,       \* the files that exist: [path -> units]
    saving,     \* what the save in progress has left to write, or NotSaving
    latest,     \* the document last written to a path
    loaded,     \* what the last call returned, or NotLoaded
    saves

filesOnDiskVars == <<disk, saving, latest, loaded, saves>>

NotSaving == [path |-> "", rest |-> <<>>]
NotLoaded == [kind |-> "nothing"]
LoadError == [kind |-> "error"]

CachePaths == {doc.path : doc \in CacheDocs}
RecordPaths == {doc.path : doc \in RecordDocs}
JsonPaths == {doc.path : doc \in JsonDocs}
Present == DOMAIN disk

----------------------------------------------------------------------------
(* Cache files.                                                            *)

KvcMagic == 77
HeaderUnits == 8

\* The lengths of the keys and of the values change places in the header.
CacheUnitsSwapped(doc) ==
    <<KvcMagic, doc.modelHash, Len(doc.tokens), doc.state.pos, Len(doc.state.v), Len(doc.state.k),
      Len(doc.state.conv), Len(doc.state.hidden)>>
    \o doc.tokens \o doc.state.k \o doc.state.v \o doc.state.conv \o doc.state.hidden

CacheUnits(doc) ==
    <<KvcMagic, doc.modelHash, Len(doc.tokens), doc.state.pos, Len(doc.state.k), Len(doc.state.v),
      Len(doc.state.conv), Len(doc.state.hidden)>>
    \o doc.tokens \o doc.state.k \o doc.state.v \o doc.state.conv \o doc.state.hidden

PayloadUnits(units) == units[3] + units[5] + units[6] + units[7] + units[8]

\* load_from_disk; a hash of 0 stands for no expectation.  The standalone hash
\* of the state is not stored and is 0 afterwards.
CacheLoaded(units, expected) ==
    IF \/ Len(units) < HeaderUnits
       \/ units[1] # KvcMagic
       \/ expected # 0 /\ units[2] # expected
       \/ HeaderUnits + PayloadUnits(units) > Len(units)
    THEN LoadError
    ELSE LET After(n) == SubSeq(units, HeaderUnits + n + 1, Len(units))
             Part(from, field) == SubSeq(After(from), 1, units[field])
             tokens == units[3]
             keys == tokens + units[5]
             both == keys + units[6]
             convolved == both + units[7]
         IN [kind |-> "cache", tokens |-> Part(0, 3),
             state |-> [pos |-> units[4], standalone |-> 0,
                        k |-> Part(tokens, 5), v |-> Part(keys, 6),
                        conv |-> Part(both, 7), hidden |-> Part(convolved, 8)]]

\* list_cached_files: a header that is cut reads as zero.
Listed(path) ==
    [path |-> path, size |-> Len(disk[path]),
     modelHash |-> IF Len(disk[path]) >= 2 THEN disk[path][2] ELSE 0,
     tokens |-> IF Len(disk[path]) >= 3 THEN disk[path][3] ELSE 0]

----------------------------------------------------------------------------
(* Memory records.                                                         *)

LineEnd == <<"lf">>
CarriageReturn == <<"cr">>
Fence == <<<<"--">>, <<"-">>>>

FieldNames == <<"id", "type", "title", "importance", "fraction">>

\* serde_yaml writes the fields in their order, and the content is no field.
FrontMatter(fields) ==
    FoldLeft(LAMBDA units, name :
                 units \o <<<<name, fields[name]>>>>
                 \o (IF name = "importance" THEN <<>> ELSE <<LineEnd>>),
             <<>>, FieldNames)

\* save_record
RecordUnits(doc) ==
    Fence \o <<LineEnd>> \o FrontMatter(doc.fields) \o <<LineEnd>>
    \o Fence \o <<LineEnd, LineEnd>> \o doc.content

\* replace("\r\n", "\n")
Normalized(units) ==
    FoldLeft(LAMBDA seen, unit :
                 IF unit = LineEnd /\ seen # <<>> /\ Last(seen) = CarriageReturn
                 THEN Append(Front(seen), unit) ELSE Append(seen, unit),
             <<>>, units)

\* serde_yaml::from_str: the mapping, after the mark of a document if there is one.
\* A number whose end is missing is another number.
Parsed(units) ==
    LET body == SelectSeq(IF IsPrefix(Fence, units) THEN SubSeq(units, 3, Len(units)) ELSE units,
                          LAMBDA unit : unit # LineEnd)
        Value(name) == IF \E i \in DOMAIN body : body[i][1] = name
                       THEN body[SelectInSeq(body, LAMBDA unit : unit[1] = name)][2] ELSE "none"
    IN IF \/ \E i \in DOMAIN body : Len(body[i]) # 2
          \/ \E name \in {"id", "type", "title", "importance"} : Value(name) = "none"
       THEN LoadError
       ELSE [kind |-> "record", fields |-> [name \in Range(FieldNames) |-> Value(name)],
             content |-> <<>>]

\* load_record
RecordLoaded(units) ==
    LET normalized == Normalized(units)
        begin == IF IsPrefix(Append(Fence, LineEnd), normalized) THEN 4 ELSE 3
        rest == SubSeq(normalized, begin, Len(normalized))
        closes == {i \in 1..Len(rest) - 2 : SubSeq(rest, i, i + 2) = <<LineEnd>> \o Fence}
        body == SubSeq(rest, Min(closes) + 3, Len(rest))
        front == Parsed(SubSeq(rest, 1, Min(closes) - 1))
    IN IF ~IsPrefix(Fence, normalized) \/ closes = {} THEN Parsed(units)
       ELSE IF front = LoadError THEN LoadError
       ELSE [front EXCEPT !.content =
                IF IsPrefix(<<LineEnd, LineEnd>>, body) THEN SubSeq(body, 3, Len(body))
                ELSE IF IsPrefix(<<LineEnd>>, body) THEN Tail(body) ELSE body]

----------------------------------------------------------------------------
(* JSON files: the object is closed by its last unit.                      *)

JsonUnits(doc) == <<<<"{">>>> \o doc.entries \o <<<<"}">>>>

\* serde_json::from_slice
JsonLoaded(units) ==
    IF Len(units) < 2 \/ Last(units) # <<"}">> THEN LoadError
    ELSE [kind |-> "json", entries |-> SubSeq(units, 2, Len(units) - 1)]

----------------------------------------------------------------------------
(* Operations.                                                             *)

\* save_to_disk, save_record, save_to_file: File::create or fs::write
Save(doc, units) ==
    /\ saving = NotSaving /\ saves < MaxSaves
    /\ disk' = (doc.path :> <<>>) @@ disk
    /\ saving' = [path |-> doc.path, rest |-> units]
    /\ latest' = (doc.path :> doc) @@ latest
    /\ saves' = saves + 1
    /\ loaded' = NotLoaded

SaveCache(doc) == Save(doc, CacheUnits(doc))
SaveRecord(doc) == Save(doc, RecordUnits(doc))
SaveJson(doc) == Save(doc, JsonUnits(doc))

WriteOn ==
    /\ saving.rest # <<>>
    /\ disk' = [disk EXCEPT ![saving.path] = Append(@, Head(saving.rest))]
    /\ saving' = IF Len(saving.rest) = 1 THEN NotSaving ELSE [saving EXCEPT !.rest = Tail(@)]
    /\ UNCHANGED <<latest, loaded, saves>>

\* The process dies, or a write fails.
Interrupt ==
    /\ saving # NotSaving
    /\ saving' = NotSaving
    /\ UNCHANGED <<disk, latest, loaded, saves>>

Answer(result) ==
    /\ saving = NotSaving
    /\ loaded' = result
    /\ UNCHANGED <<disk, saving, latest, saves>>

LoadCache(path, expected) ==
    /\ path \in Present \cap CachePaths
    /\ Answer([path |-> path, expected |-> expected] @@ CacheLoaded(disk[path], expected))

LoadRecord(path) ==
    /\ path \in Present \cap RecordPaths
    /\ Answer([path |-> path] @@ RecordLoaded(disk[path]))

LoadJson(path) ==
    /\ path \in Present \cap JsonPaths
    /\ Answer([path |-> path] @@ JsonLoaded(disk[path]))

\* A file without the magic, such as an empty one, is not listed.
ListCaches ==
    Answer([kind |-> "list",
             files |-> {Listed(path) : path \in {p \in Present \cap CachePaths : disk[p] # <<>>}}])

\* clear_cache_dir: the files go one by one, and an error keeps the rest.
ClearCaches ==
    /\ saving = NotSaving
    /\ \E removed \in SUBSET (Present \cap CachePaths) :
          /\ removed # {}
          /\ disk' = RestrictDomain(disk, LAMBDA path : path \notin removed)
    /\ loaded' = NotLoaded
    /\ UNCHANGED <<saving, latest, saves>>

----------------------------------------------------------------------------
FilesOnDiskInit ==
    /\ disk = [path \in {} |-> <<>>]
    /\ saving = NotSaving
    /\ latest = [path \in {} |-> NotLoaded]
    /\ loaded = NotLoaded
    /\ saves = 0

FilesOnDiskNext ==
    \/ \E doc \in CacheDocs : SaveCache(doc)
    \/ \E doc \in RecordDocs : SaveRecord(doc)
    \/ \E doc \in JsonDocs : SaveJson(doc)
    \/ WriteOn
    \/ Interrupt
    \/ \E path \in CachePaths, expected \in ExpectedHashes : LoadCache(path, expected)
    \/ \E path \in RecordPaths : LoadRecord(path)
    \/ \E path \in JsonPaths : LoadJson(path)
    \/ ListCaches
    \/ ClearCaches

----------------------------------------------------------------------------
(* Properties.                                                             *)

\* A state that a load returns is the whole of one that was saved, from a model
\* with the hash that was asked for: nothing of a file that was cut by a crash or
\* an error, and nothing of what an earlier save left there.
CachesWhole ==
    loaded.kind = "cache" =>
        LET doc == latest[loaded.path]
        IN /\ loaded.tokens = doc.tokens
           /\ loaded.state = [doc.state EXCEPT !.standalone = 0]
           /\ loaded.expected \in {0, doc.modelHash}

\* A list shows the number of tokens of every cache file, or that it has none.
ListsHonest ==
    loaded.kind = "list" =>
        \A file \in loaded.files :
            /\ file.tokens \in {0, Len(latest[file.path].tokens)}
            /\ file.modelHash \in {0, latest[file.path].modelHash}

\* A record that was cut keeps its fields and the beginning of its content, except
\* that a cut within the last field leaves another number and no content.
RecordsHonest ==
    loaded.kind = "record" =>
        LET doc == latest[loaded.path]
        IN /\ \/ loaded.fields = doc.fields
              \/ loaded.content = <<>> /\ loaded.fields = [doc.fields EXCEPT !.fraction = "none"]
           /\ \E n \in 0..Len(doc.content) : loaded.content = Normalized(SubSeq(doc.content, 1, n))

JsonWhole == loaded.kind = "json" => loaded.entries = latest[loaded.path].entries

\* What a call returns was saved, whole where the format can tell.
SavedFilesRight == CachesWhole /\ ListsHonest /\ RecordsHonest /\ JsonWhole

=============================================================================

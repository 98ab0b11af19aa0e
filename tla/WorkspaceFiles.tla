--------------------------- MODULE WorkspaceFiles ---------------------------
(***************************************************************************)
(* The tools read_file, write_file and list_dir                            *)
(* (crates/mivi-tools/src/builtins/fs.rs and security.rs) on Unix: several *)
(* calls at a time, each of which may be cancelled between two system      *)
(* calls, beside another program that changes the same workspace.          *)
(*                                                                         *)
(* A path is a sequence of names; the names of temporary files are the     *)
(* calls that create them.  A file is a sequence of the chunks in which it *)
(* is written, and a chunk names the call that wrote it.                   *)
(***************************************************************************)
EXTENDS Naturals, Sequences, SequencesExt, FiniteSets

CONSTANTS
    Calls,          \* the calls of the tools
    Trees,          \* what a workspace may look like before
    Paths,          \* the paths that the calls name
    Lengths,        \* the lengths of contents
    MaxFileRead,    \* MAX_FILE_READ_BYTES, in chunks
    MaxFileWrite,   \* MAX_FILE_WRITE_BYTES, in chunks
    MaxEntries,     \* MAX_DIR_ENTRIES
    MaxChanges      \* bound: what the other program does

ASSUME FilesAssumption == {MaxFileRead, MaxFileWrite, MaxEntries} \subseteq Nat \ {0}

VARIABLES
    nodes,      \* directories, files and links; the first is the workspace
    toolCalls,  \* how far each call is
    changes,    \* of the other program
    crashed     \* the process has ended in the middle

filesVars == <<nodes, toolCalls, changes, crashed>>

Directory(entries) == [kind |-> "dir", entries |-> entries, content |-> <<>>, to |-> 0]

File(content) == [kind |-> "file", entries |-> <<>>, content |-> content, to |-> 0]

Link(node) == [kind |-> "link", entries |-> <<>>, content |-> <<>>, to |-> node]

Workspace == 1

Empty == [name \in {} |-> 0]

Idle == [op |-> "none", path |-> <<>>, length |-> 0, at |-> "idle", left |-> <<>>, dir |-> 0,
         file |-> 0, data |-> <<>>, listed |-> {}, cancelled |-> FALSE, kept |-> FALSE,
         result |-> "none"]

----------------------------------------------------------------------------
(* The file system (external).                                             *)

Child(node, name) ==
    IF node # 0 /\ nodes[node].kind = "dir" /\ name \in DOMAIN nodes[node].entries
    THEN nodes[node].entries[name] ELSE 0

KindOf(node) == IF node = 0 THEN "absent" ELSE nodes[node].kind

Followed(node) == IF KindOf(node) = "link" THEN nodes[node].to ELSE node

FollowedAt(node, name) == Followed(Child(node, name))

\* What openat with O_NOFOLLOW opens: never what a link leads to.
OpenedAt(node, name) == Child(node, name)

Resolved(path) == FoldLeft(FollowedAt, Workspace, path)

ChildrenOf(node) == {nodes[node].entries[name] : name \in DOMAIN nodes[node].entries}

\* What is in the workspace, however deep the trees are.
Beneath == {Workspace} \cup ChildrenOf(Workspace)
          \cup UNION {ChildrenOf(node) : node \in {n \in ChildrenOf(Workspace) : KindOf(n) = "dir"}}

Entered(node, name, child) ==
    [nodes EXCEPT ![node].entries =
        [n \in DOMAIN @ \cup {name} |-> IF n = name THEN child ELSE @[n]]]

Lacking(of, node, name) ==
    [of EXCEPT ![node].entries = [n \in DOMAIN @ \ {name} |-> @[n]]]

\* A directory that has lost its name
Gone(of, node) == [n \in DOMAIN of |-> IF n = node /\ of[n].kind = "dir"
                                         THEN [of[n] EXCEPT !.kind = "gone"] ELSE of[n]]

----------------------------------------------------------------------------
(* The steps all tools share.                                              *)

Goes(c, to) == toolCalls' = [toolCalls EXCEPT ![c].at = to]

\* The descriptors are closed; nothing but its message comes with an error.
Closed(call, result) ==
    IF result = "error" THEN [Idle EXCEPT !.at = "over", !.result = "error"]
    ELSE [Idle EXCEPT !.at = "over", !.result = result, !.op = call.op, !.length = call.length,
                      !.data = call.data]

Returns(c, result) == toolCalls' = [toolCalls EXCEPT ![c] = Closed(@, result)]

Rest == UNCHANGED <<changes, crashed>>

CallTool(c, op, path, length) ==
    /\ toolCalls[c] = Idle /\ ~crashed
    /\ toolCalls' = [toolCalls EXCEPT ![c].op = op, ![c].path = path, ![c].length = length,
                                      ![c].at = "called"]
    /\ UNCHANGED nodes /\ Rest

Cancel(c) ==
    /\ toolCalls[c].at \notin {"idle", "over"}
    /\ ~toolCalls[c].cancelled
    /\ toolCalls' = [toolCalls EXCEPT ![c].cancelled = TRUE]
    /\ UNCHANGED nodes /\ Rest

\* safe_join: what is there of the path must be in the workspace.
SafePath(path) ==
    LET there == {n \in 0..Len(path) : Resolved(SubSeq(path, 1, n)) # 0}
        longest == CHOOSE n \in there : \A m \in there : m <= n
    IN  Resolved(SubSeq(path, 1, longest)) \in Beneath

\* The checks before the first file is opened; a listing opens the last name too.
Validate(c) ==
    LET call == toolCalls[c]
        refused == \/ call.cancelled
                   \/ call.op = "write" /\ call.length > MaxFileWrite
                   \/ ~SafePath(call.path)
                   \/ call.op # "list" /\ call.path = <<>>
    IN  /\ call.at = "called"
        /\ IF refused THEN Returns(c, "error")
           ELSE toolCalls' = [toolCalls EXCEPT ![c].at = "walk", ![c].dir = Workspace,
                                  ![c].left = IF call.op = "list" THEN call.path ELSE Front(call.path)]
        /\ UNCHANGED nodes /\ Rest

\* The next directory is opened in the one that is open; no link is followed.
Walk(c) ==
    LET call == toolCalls[c]
        next == OpenedAt(call.dir, Head(call.left))
    IN  /\ call.at \in {"walk", "made"}
        /\ call.left # <<>>
        /\ IF call.op = "write" /\ call.at = "walk" /\ call.cancelled THEN Returns(c, "error")
           ELSE CASE KindOf(next) = "dir" ->
                       toolCalls' = [toolCalls EXCEPT ![c].dir = next, ![c].left = Tail(@),
                                                      ![c].at = "walk"]
                  [] KindOf(next) = "absent" /\ call.op = "write" /\ call.at = "walk" ->
                       Goes(c, "mkdir")
                  [] OTHER -> Returns(c, "error")
        /\ UNCHANGED nodes /\ Rest

\* open_or_create_directory_at: another call may have made it meanwhile.
MakeDirectory(c) ==
    LET call == toolCalls[c]
        name == Head(call.left)
    IN  /\ call.at = "mkdir"
        /\ IF KindOf(call.dir) # "dir" THEN Returns(c, "error") /\ UNCHANGED nodes
           ELSE /\ Goes(c, "made")
                /\ nodes' = IF Child(call.dir, name) # 0 THEN nodes
                            ELSE Append(Entered(call.dir, name, Len(nodes) + 1), Directory(Empty))
        /\ Rest

----------------------------------------------------------------------------
(* write_file: a temporary file beside the target is renamed to it.        *)

AtEnd(c, op) == toolCalls[c].op = op /\ toolCalls[c].at = "walk" /\ toolCalls[c].left = <<>>

CreateTemporary(c) ==
    LET call == toolCalls[c]
    IN  /\ AtEnd(c, "write")
        /\ IF KindOf(call.dir) # "dir" THEN Returns(c, "error") /\ UNCHANGED nodes
           ELSE /\ toolCalls' = [toolCalls EXCEPT ![c].at = "write", ![c].file = Len(nodes) + 1]
                /\ nodes' = Append(Entered(call.dir, c, Len(nodes) + 1), File(<<>>))
        /\ Rest

\* A chunk; the disk may be full.
WriteChunk(c) ==
    LET call == toolCalls[c]
        count == Len(nodes[call.file].content)
    IN  /\ call.at = "write"
        /\ \/ /\ ~call.cancelled /\ count < call.length
              /\ nodes' = [nodes EXCEPT ![call.file].content = Append(@, c)]
              /\ UNCHANGED toolCalls
           \/ Goes(c, "discard") /\ UNCHANGED nodes
           \/ /\ ~call.cancelled /\ count = call.length
              /\ Goes(c, "synced")
              /\ UNCHANGED nodes
        /\ Rest

CheckAgain(c) ==
    /\ toolCalls[c].at = "synced"
    /\ Goes(c, IF toolCalls[c].cancelled THEN "discard" ELSE "rename")
    /\ UNCHANGED nodes /\ Rest

\* renameat takes the place of what is there, unless that is a directory.
Rename(c) ==
    LET call == toolCalls[c]
        old == Child(call.dir, Last(call.path))
    IN  /\ call.at = "rename"
        /\ IF Child(call.dir, c) # call.file \/ KindOf(old) = "dir"
           THEN Goes(c, "discard") /\ UNCHANGED nodes
           ELSE /\ nodes' = Lacking(Entered(call.dir, Last(call.path), call.file), call.dir, c)
                /\ Returns(c, "ok")
        /\ Rest

LeftBehind(c) == nodes

Discarded(c) ==
    IF Child(toolCalls[c].dir, c) = 0 THEN nodes ELSE Lacking(nodes, toolCalls[c].dir, c)

\* What unlinkat returns is not looked at.
Discard(c) ==
    /\ toolCalls[c].at = "discard"
    /\ \/ nodes' = Discarded(c) /\ Returns(c, "error")
       \/ /\ UNCHANGED nodes
          /\ toolCalls' = [toolCalls EXCEPT ![c] = [Closed(@, "error") EXCEPT !.kept = TRUE]]
    /\ Rest

----------------------------------------------------------------------------
(* read_file and list_dir.                                                 *)

\* Only a regular file, and only if it is not too long already.
OpenFile(c) ==
    LET call == toolCalls[c]
        found == OpenedAt(call.dir, Last(call.path))
    IN  /\ AtEnd(c, "read")
        /\ IF KindOf(found) # "file" THEN Returns(c, "error")
           ELSE IF Len(nodes[found].content) > MaxFileRead THEN Returns(c, "error")
           ELSE toolCalls' = [toolCalls EXCEPT ![c].file = found, ![c].at = "read"]
        /\ UNCHANGED nodes /\ Rest

\* read_limited_file: one chunk more than may be read shows that the file has grown.
ReadChunk(c) ==
    LET call == toolCalls[c]
        content == nodes[call.file].content
        got == Len(call.data)
    IN  /\ call.at = "read"
        /\ CASE call.cancelled -> Returns(c, "error")
             [] ~call.cancelled /\ got <= MaxFileRead /\ got < Len(content) ->
                  toolCalls' = [toolCalls EXCEPT ![c].data = Append(@, content[got + 1])]
             [] OTHER -> Returns(c, IF got > MaxFileRead THEN "error" ELSE "ok")
        /\ UNCHANGED nodes /\ Rest

StartListing(c) ==
    /\ AtEnd(c, "list")
    /\ Goes(c, "list")
    /\ UNCHANGED nodes /\ Rest

\* readdir gives every entry once, in any order.
ListEntry(c) ==
    LET call == toolCalls[c]
        new == DOMAIN nodes[call.dir].entries \ call.listed
    IN  /\ call.at = "list"
        /\ CASE call.cancelled -> Returns(c, "error")
             [] ~call.cancelled /\ new = {} -> Returns(c, "ok")
             [] OTHER ->
                  IF Cardinality(call.listed) >= MaxEntries THEN Returns(c, "truncated")
                  ELSE \E name \in new : toolCalls' = [toolCalls EXCEPT ![c].listed = @ \cup {name}]
        /\ UNCHANGED nodes /\ Rest

----------------------------------------------------------------------------
(* The other program, which leaves temporary files alone and renames within *)
(* a directory, and the end of the process.                                *)

Changes ==
    /\ changes < MaxChanges /\ ~crashed
    /\ changes' = changes + 1
    /\ UNCHANGED <<toolCalls, crashed>>

RemoveFile ==
    /\ \E node \in {n \in Beneath : KindOf(n) = "dir"} :
          \E name \in DOMAIN nodes[node].entries \ Calls :
             /\ KindOf(Child(node, name)) # "dir"
             /\ nodes' = Lacking(nodes, node, name)
    /\ Changes

RemoveDirectory ==
    /\ \E name \in DOMAIN nodes[Workspace].entries :
          LET node == Child(Workspace, name)
          IN  /\ KindOf(node) = "dir"
              /\ nodes[node].entries = Empty
              /\ nodes' = Gone(Lacking(nodes, Workspace, name), node)
    /\ Changes

Extend ==
    /\ \E node \in {n \in Beneath : KindOf(n) = "dir"} :
          \E name \in DOMAIN nodes[node].entries \ Calls :
             /\ KindOf(Child(node, name)) = "file"
             /\ nodes' = [nodes EXCEPT ![Child(node, name)].content = Append(@, "other")]
    /\ Changes

PathNames == UNION {ToSet(path) : path \in Paths}

\* symlinkat, to a directory outside
PlaceLink ==
    /\ \E node \in {n \in Beneath : KindOf(n) = "dir"}, name \in PathNames,
          to \in {n \in DOMAIN nodes : KindOf(n) = "dir"} \ Beneath :
             /\ Child(node, name) = 0
             /\ nodes' = Append(Entered(node, name, Len(nodes) + 1), Link(to))
    /\ Changes

\* renameat: a directory may take the place of an empty one, anything else that of
\* what is no directory.
Move ==
    /\ \E node \in {n \in Beneath : KindOf(n) = "dir"}, name \in PathNames :
          \E from \in DOMAIN nodes[node].entries \ (Calls \cup {name}) :
             LET moved == Child(node, from)
                 old == Child(node, name)
             IN  /\ \/ old = 0
                    \/ "dir" \notin {KindOf(moved), KindOf(old)}
                    \/ {KindOf(moved), KindOf(old)} = {"dir"} /\ nodes[old].entries = Empty
                 /\ nodes' = Gone(Lacking(Entered(node, name, moved), node, from), old)
    /\ Changes

Crash ==
    /\ ~crashed
    /\ \E c \in Calls : toolCalls[c].at \notin {"idle", "over"}
    /\ crashed' = TRUE
    /\ toolCalls' = [c \in Calls |-> IF toolCalls[c].at = "over" THEN toolCalls[c] ELSE Idle]
    /\ UNCHANGED <<nodes, changes>>

----------------------------------------------------------------------------
FilesInit ==
    /\ nodes = <<Directory(Empty)>>
    /\ toolCalls = [c \in Calls |-> Idle]
    /\ changes = 0
    /\ crashed = FALSE

\* What is in the workspace before.
Prepare ==
    /\ nodes = <<Directory(Empty)>>
    /\ \A c \in Calls : toolCalls[c] = Idle
    /\ nodes' \in Trees
    /\ UNCHANGED <<toolCalls, changes, crashed>>

FilesNext ==
    \/ Prepare
    \/ \E c \in Calls :
          \/ \E op \in {"read", "list"}, path \in Paths : CallTool(c, op, path, 0)
          \/ \E path \in Paths, length \in Lengths : CallTool(c, "write", path, length)
          \/ Cancel(c) \/ Validate(c) \/ Walk(c) \/ MakeDirectory(c)
          \/ CreateTemporary(c) \/ WriteChunk(c) \/ CheckAgain(c) \/ Rename(c) \/ Discard(c)
          \/ OpenFile(c) \/ ReadChunk(c) \/ StartListing(c) \/ ListEntry(c)
    \/ RemoveFile \/ RemoveDirectory \/ Extend \/ PlaceLink \/ Move
    \/ Crash

----------------------------------------------------------------------------
(* Properties.                                                             *)

\* The nodes that have a name other than that of a temporary file.
Named ==
    UNION {{Child(node, name) : name \in DOMAIN nodes[node].entries \ Calls} :
               node \in {n \in Beneath : KindOf(n) = "dir"}}

\* What one call wrote, or was there before; another program may have added to it.
WholeContent(content) ==
    LET own == SelectSeq(content, LAMBDA chunk : chunk # "other")
    IN  \/ \E c \in Calls : own = [i \in 1..toolCalls[c].length |-> c]
        \/ \A i \in DOMAIN own : own[i] = "old"

\* At no time has a file with a name a part of a content, or parts of two, and a
\* file that is read while it is replaced is read whole.
NothingTorn ==
    /\ \A node \in Named : KindOf(node) = "file" => WholeContent(nodes[node].content)
    /\ \A c \in Calls : toolCalls[c].op = "read" /\ toolCalls[c].result = "ok" =>
          WholeContent(toolCalls[c].data) /\ Len(toolCalls[c].data) <= MaxFileRead

\* A call that reports an error, because it was cancelled or failed, has no effect,
\* and leaves no temporary file behind unless the process has ended or the system
\* would not remove it.
ErrorMeansNothing ==
    \A c \in Calls :
        /\ toolCalls[c].result = "error" =>
              \A node \in Named : ~Contains(nodes[node].content, c)
        /\ (\E node \in Beneath : KindOf(node) = "dir" /\ Child(node, c) # 0) =>
              \/ crashed \/ toolCalls[c].kept
              \/ toolCalls[c].at \in {"write", "synced", "rename", "discard"}

\* Whatever links are there or come while a call is on its way, no call ever has a
\* directory open that is outside, nothing is written or made there and nothing is
\* read from there.
OutsideUntouched ==
    /\ \A node \in DOMAIN nodes :
          /\ KindOf(node) = "dir" /\ node \notin Beneath =>
                nodes[node].entries = [f |-> Child(node, "f")] /\ nodes[Child(node, "f")] = File(<<"outer">>)
          /\ Contains(nodes[node].content, "outer") => nodes[node] = File(<<"outer">>)
    /\ \A c \in Calls :
          /\ KindOf(toolCalls[c].dir) = "dir" => toolCalls[c].dir \in Beneath
          /\ ~Contains(toolCalls[c].data, "outer")

\* Files change as a whole or not at all, as the calls report.
FilesRight ==
    /\ NothingTorn
    /\ ErrorMeansNothing
    /\ OutsideUntouched

=============================================================================

----------------------------- MODULE FileTools -----------------------------
(***************************************************************************)
(* The agent's file tools at work in its workspace: list_files,            *)
(* search_files, read_file, write_file and apply_patch (agent_server/      *)
(* internal/tools/file.go) over the walk, the ignore rules and the secret  *)
(* names of internal/workspace.  Calls of several sessions and sub-agents  *)
(* overlap.  Whether a call may go this far is ToolGuard's matter; depth   *)
(* limits, directories that are created on the way and file modes are left *)
(* out, and the workspace is one directory.                                *)
(***************************************************************************)
EXTENDS FiniteSets, Naturals, Sequences

CONSTANTS
  Call,       \* the calls there ever are; any of them may overlap
  Path,       \* the names tools are called with
  Hidden, Ignored, Secret,   \* Hidden, Ignored, Secret \subseteq Path
  Text,       \* what a file may be given: sequences of pieces
  Piece,      \* the pieces
  Zero,       \* the piece that makes a file binary
  MaxRead,    \* pieces a read returns at most (maxReadBytes)
  MaxHits,    \* entries a listing returns at most
  Inode,      \* bound of the model: the files there ever are, as 1..n
  None

VARIABLES
  name,       \* the directory: the file under each name
  temp,       \* files under the hidden temporary names of atomicWriteFile
  data,       \* what is in each file
  used,       \* files created so far
  call,       \* each call
  whole,      \* history: what some writer meant a file to contain
  shown       \* what the last step showed, as records [path, text, cut, ok]

vars == <<name, temp, data, used, call, whole, shown>>

New == [at |-> "new"]
Over == [at |-> "over"]

Init ==
  /\ \E there \in SUBSET Path :
       \E place \in [there -> 1..Cardinality(there)], text \in [there -> Text] :
         /\ \A p, q \in there : place[p] = place[q] => p = q
         /\ name = [p \in Path |-> IF p \in there THEN place[p] ELSE None]
         /\ data = [i \in Inode |-> IF i > Cardinality(there) THEN <<>>
                                    ELSE text[CHOOSE p \in there : place[p] = i]]
         /\ used = Cardinality(there)
  /\ temp = {} /\ whole = Text /\ shown = {}
  /\ call = [c \in Call |-> New]

-----------------------------------------------------------------------------
At(c, at) == call[c].at = at
Goto(c, at) == call' = [call EXCEPT ![c].at = at]
End(c) == call' = [call EXCEPT ![c] = Over]
Quiet == shown' = {} /\ UNCHANGED <<name, temp, data, used, whole>>

\* A context that ended, or a failing system call, ends a call with an error.
Fail(c) ==
  /\ call[c].at \in {"walk", "binary", "stat", "open", "read", "write"}
  /\ End(c) /\ Quiet

\* walk: the directory's names are read at once, then visited in turn.
BeginWalk(c) ==
  /\ At(c, "new")
  /\ \E tool \in {"list_files", "search_files"}, hidden \in BOOLEAN, query \in Piece :
       call' = [call EXCEPT ![c] =
         [at |-> "walk", tool |-> tool, hidden |-> hidden, query |-> query, hits |-> 0,
          left |-> {p \in Path : name[p] # None} \cup (IF hidden THEN temp ELSE {})]]
  /\ Quiet

\* resolveForRead and the read policy
MayRead(p) == p \notin Ignored \cup Secret

BeginRead(c) ==
  /\ At(c, "new")
  /\ \E p \in Path :
       /\ MayRead(p)
       /\ call' = [call EXCEPT ![c] = [at |-> "binary", tool |-> "read_file", path |-> p]]
  /\ Quiet

BeginWrite(c) ==
  /\ At(c, "new")
  /\ \E p \in Path, text \in Text :
       call' = [call EXCEPT ![c] = [at |-> "write", tool |-> "write_file", path |-> p, text |-> text]]
  /\ Quiet

BeginPatch(c) ==
  /\ At(c, "new")
  /\ \E p \in Path, old \in Piece, new \in Piece :
       call' = [call EXCEPT ![c] = [at |-> "binary", tool |-> "apply_patch", path |-> p, old |-> old, new |-> new]]
  /\ Quiet

-----------------------------------------------------------------------------
Names(c) == call[c].left
IsBinary(text) == \E i \in DOMAIN text : text[i] = Zero

\* A name of the walk that is looked into: hidden ones only when asked for.
Wanted(c, n) == n \in temp \cup Inode \/ ((call[c].hidden \/ n \notin Hidden) /\ n \notin Ignored)
FileOf(n) == IF n \in Path THEN name[n] ELSE IF n \in temp THEN n ELSE None

\* The visit of one entry; a file that is gone ends the whole walk.  A search
\* passes over secret and binary files, and over empty ones, whose kind cannot
\* be told.
Hit(c, n) ==
  IF call[c].tool = "list_files" THEN {[path |-> n, text |-> <<>>, cut |-> FALSE, ok |-> TRUE]}
  ELSE LET text == data[FileOf(n)] IN
       {[path |-> n, text |-> <<piece>>, cut |-> FALSE, ok |-> TRUE] :
          piece \in {q \in {call[c].query} : /\ n \notin Secret /\ ~IsBinary(text)
                                             /\ \E i \in DOMAIN text : text[i] = q}}

Visit(c) ==
  /\ At(c, "walk")
  /\ \E n \in Names(c) :
       IF ~Wanted(c, n)
       THEN call' = [call EXCEPT ![c].left = @ \ {n}] /\ shown' = {}
       ELSE IF FileOf(n) = None \/ call[c].hits >= MaxHits
       THEN End(c) /\ shown' = {}
       ELSE /\ shown' = Hit(c, n)
            /\ call' = [call EXCEPT ![c].left = @ \ {n}, ![c].hits = @ + Cardinality(Hit(c, n))]
  /\ UNCHANGED <<name, temp, data, used, whole>>

WalkEnds(c) == At(c, "walk") /\ Names(c) = {} /\ End(c) /\ Quiet

-----------------------------------------------------------------------------
\* IsBinaryFile: an empty file is an error.
CheckBinary(c) ==
  /\ At(c, "binary")
  /\ LET i == name[call[c].path] IN
       IF i = None \/ data[i] = <<>> \/ IsBinary(data[i]) THEN End(c)
       ELSE Goto(c, IF call[c].tool = "read_file" THEN "stat" ELSE "patch")
  /\ Quiet

Stat(c) ==
  /\ At(c, "stat")
  /\ LET i == name[call[c].path] IN
       IF i = None THEN End(c)
       ELSE call' = [call EXCEPT ![c] = [at |-> "open", tool |-> "read_file", path |-> @.path, size |-> Len(data[i])]]
  /\ Quiet

\* From here on the call reads the file it opened, whatever the name is given to.
OpenFile(c) ==
  /\ At(c, "open")
  /\ LET i == name[call[c].path] IN
       IF i = None THEN End(c)
       ELSE call' = [call EXCEPT ![c] = [at |-> "read", tool |-> "read_file", path |-> @.path, size |-> @.size, file |-> i]]
  /\ Quiet

Limited(text) == IF Len(text) > MaxRead THEN SubSeq(text, 1, MaxRead) ELSE text

ReadAll(c) ==
  /\ At(c, "read")
  /\ LET text == Limited(data[call[c].file]) IN
       shown' = {[path |-> call[c].path, text |-> text, cut |-> call[c].size > Len(text),
                             ok |-> \E t \in whole : text = Limited(t)]}
  /\ End(c)
  /\ UNCHANGED <<name, temp, data, used, whole>>

\* apply_patch keeps what it read until it writes.
Count(text, piece) == Cardinality({i \in DOMAIN text : text[i] = piece})
Patched(text, old, new) == [i \in DOMAIN text |-> IF text[i] = old THEN new ELSE text[i]]

ReadFile(c) ==
  /\ At(c, "patch")
  /\ LET i == name[call[c].path] IN
       IF i = None \/ Count(data[i], call[c].old) # 1 THEN End(c) /\ UNCHANGED whole
       ELSE LET text == Patched(data[i], call[c].old, call[c].new) IN
            /\ call' = [call EXCEPT ![c] = [at |-> "write", tool |-> "apply_patch", path |-> @.path, text |-> text]]
            /\ whole' = whole \cup {text}
  /\ shown' = {} /\ UNCHANGED <<name, temp, data, used>>

-----------------------------------------------------------------------------
(* atomicWriteFile: a temporary file beside the target, filled, then       *)
(* renamed over it; removed again when a step fails.                       *)

\* Defective variant: the target itself is opened and truncated.
CreateInPlace(c) ==
  /\ At(c, "write")
  /\ LET i == IF name[call[c].path] = None THEN used + 1 ELSE name[call[c].path] IN
     /\ i \in Inode
     /\ name' = [name EXCEPT ![call[c].path] = i]
     /\ data' = [data EXCEPT ![i] = <<>>]
     /\ used' = IF i > used THEN i ELSE used
     /\ call' = [call EXCEPT ![c] = [at |-> "fill", tool |-> @.tool, path |-> @.path, text |-> @.text, file |-> i]]
     /\ temp' = temp \cup {i}
  /\ shown' = {} /\ UNCHANGED <<whole>>

CreateTemp(c) ==
  /\ At(c, "write") /\ used + 1 \in Inode
  /\ used' = used + 1 /\ temp' = temp \cup {used'}
  /\ call' = [call EXCEPT ![c] = [at |-> "fill", tool |-> @.tool, path |-> @.path, text |-> @.text, file |-> used']]
  /\ shown' = {} /\ UNCHANGED <<name, data, whole>>

\* One write call, which the system may carry out in parts.
Fill(c) ==
  /\ At(c, "fill")
  /\ LET i == call[c].file  n == Len(data[i]) IN
       IF n < Len(call[c].text)
       THEN data' = [data EXCEPT ![i] = Append(@, call[c].text[n + 1])] /\ UNCHANGED call
       ELSE Goto(c, "rename") /\ UNCHANGED data
  /\ shown' = {} /\ UNCHANGED <<name, temp, used, whole>>

Rename(c) ==
  /\ At(c, "rename")
  /\ name' = [name EXCEPT ![call[c].path] = call[c].file]
  /\ temp' = temp \ {call[c].file}
  /\ End(c)
  /\ shown' = {} /\ UNCHANGED <<data, used, whole>>

RemoveTemp(c) ==
  /\ call[c].at \in {"fill", "rename"}
  /\ temp' = temp \ {call[c].file}
  /\ End(c)
  /\ shown' = {} /\ UNCHANGED <<name, data, used, whole>>

\* The agent's process ends; its temporary files stay.
Crash ==
  /\ \E c \in Call : call[c] \notin {New, Over}
  /\ call' = [c \in Call |-> IF call[c] = New THEN New ELSE Over]
  /\ Quiet

Next ==
  \/ \E c \in Call :
       \/ BeginWalk(c) \/ BeginRead(c) \/ BeginWrite(c) \/ BeginPatch(c) \/ Fail(c)
       \/ Visit(c) \/ WalkEnds(c) \/ CheckBinary(c) \/ Stat(c) \/ OpenFile(c) \/ ReadAll(c)
       \/ ReadFile(c) \/ CreateTemp(c) \/ Fill(c) \/ Rename(c) \/ RemoveTemp(c)
  \/ Crash

Spec == Init /\ [][Next]_vars

-----------------------------------------------------------------------------
TypeOK ==
  /\ name \in [Path -> Inode \cup {None}] /\ temp \subseteq Inode
  /\ used \in Nat /\ 1..used \subseteq Inode
  /\ \A i \in Inode : \A k \in DOMAIN data[i] : data[i][k] \in Piece
  /\ \A c \in Call : call[c].at \in {"new", "over", "walk", "binary", "stat", "open", "read", "patch", "write", "fill", "rename"}
  /\ \A s \in shown : s.path \in Path \cup Inode

(* Every file under a name is one that some writer finished, after any     *)
(* crash and however calls overlap, and what read_file returns is the      *)
(* beginning of such a file, never of two versions or of half a write.     *)
FilesAreWhole ==
  /\ \A p \in Path : name[p] # None => data[name[p]] \in whole
  /\ \A s \in shown : s.ok

\* What a call is about, as the promise sees it: a reader holds the text of
\* the file it opened, a writer the text it was given or has made.
JobOf(n) ==
  IF n.at = "walk" THEN [at |-> "looks"]
  ELSE IF n.at \in {"binary", "stat", "open"} /\ n.tool = "read_file"
  THEN [at |-> "reads", path |-> n.path]
  ELSE IF n.at = "read" THEN [at |-> "holds", path |-> n.path, text |-> data[n.file]]
  ELSE IF n.at \in {"binary", "patch"}
  THEN [at |-> "patches", path |-> n.path, old |-> n.old, new |-> n.new]
  ELSE IF n.at \in {"write", "fill", "rename"}
  THEN [at |-> "writes", path |-> n.path, text |-> n.text]
  ELSE n

Promise ==
  INSTANCE FilePromise
    WITH store <- [p \in {q \in Path : name[q] # None} |-> data[name[p]]],
         job <- [c \in Call |-> JobOf(call[c])],
         told <- {[path |-> s.path, text |-> s.text] : s \in {t \in shown : t.path \in Path}}

PromiseSpec == Promise!Spec
=============================================================================

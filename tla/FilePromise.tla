----------------------------- MODULE FilePromise -----------------------------
(***************************************************************************)
(* What the agent's file tools promise of the workspace, with no temporary *)
(* file, no write in parts and no gap between finding a file and opening   *)
(* it: a name holds one whole text; write_file and apply_patch replace it  *)
(* in one step, with the text the call was given or with the text of one   *)
(* earlier moment in which the one occurrence was exchanged; what a tool   *)
(* tells of a file was in it at one moment, and nothing of a secret one is *)
(* told; a call that fails and a process that ends change no text.         *)
(***************************************************************************)
EXTENDS Naturals, Sequences

CONSTANTS
  Call,       \* the calls there ever are
  Path,       \* the names in the workspace
  Secret,     \* Secret \subseteq Path
  Text,       \* what a file may be given: sequences of pieces
  Piece,      \* the pieces
  MaxRead     \* pieces an answer holds at most

VARIABLES
  store,      \* what each name holds that there is
  job,        \* what each call is about
  told        \* what the last step told, as records [path, text]

vars == <<store, job, told>>

New == [at |-> "new"]
Over == [at |-> "over"]

Init ==
  /\ \E there \in SUBSET Path : store \in [there -> Text]
  /\ job = [c \in Call |-> New]
  /\ told = {}

Becomes(c, j) == job' = [job EXCEPT ![c] = j]

Start(c) ==
  /\ job[c] = New
  /\ \/ Becomes(c, [at |-> "looks"])
     \/ \E p \in Path \ Secret : Becomes(c, [at |-> "reads", path |-> p])
     \/ \E p \in Path, text \in Text : Becomes(c, [at |-> "writes", path |-> p, text |-> text])
     \/ \E p \in Path, old, new \in Piece : Becomes(c, [at |-> "patches", path |-> p, old |-> old, new |-> new])
  /\ told' = {} /\ UNCHANGED store

\* A call that fails, or has nothing more to look at.
Leave(c) ==
  /\ job[c] \notin {New, Over} /\ Becomes(c, Over)
  /\ told' = {} /\ UNCHANGED store

\* list_files tells that there is a file, search_files that it has a piece.
Glimpses(p) ==
  {<<>>} \cup (IF p \in Secret THEN {} ELSE {<<store[p][i]>> : i \in DOMAIN store[p]})

Look(c) ==
  /\ job[c].at = "looks"
  /\ \E p \in DOMAIN store : \E text \in Glimpses(p) : told' = {[path |-> p, text |-> text]}
  /\ UNCHANGED <<store, job>>

\* A read is of the text at one moment, whatever the name is given afterwards.
Take(c) ==
  /\ job[c].at = "reads" /\ job[c].path \in DOMAIN store
  /\ Becomes(c, [at |-> "holds", path |-> job[c].path, text |-> store[job[c].path]])
  /\ told' = {} /\ UNCHANGED store

Beginning(text) == IF Len(text) > MaxRead THEN SubSeq(text, 1, MaxRead) ELSE text

Tell(c) ==
  /\ job[c].at = "holds"
  /\ told' = {[path |-> job[c].path, text |-> Beginning(job[c].text)]}
  /\ Becomes(c, Over) /\ UNCHANGED store

\* A patch exchanges the only occurrence of a piece.
Patch(c) ==
  /\ job[c].at = "patches" /\ job[c].path \in DOMAIN store
  /\ LET text == store[job[c].path] IN
       \E i \in DOMAIN text :
         /\ \A k \in DOMAIN text : text[k] = job[c].old <=> k = i
         /\ Becomes(c, [at |-> "writes", path |-> job[c].path, text |-> [text EXCEPT ![i] = job[c].new]])
  /\ told' = {} /\ UNCHANGED store

Write(c) ==
  /\ job[c].at = "writes"
  /\ LET p == job[c].path IN
       store' = [q \in DOMAIN store \cup {p} |-> IF q = p THEN job[c].text ELSE store[q]]
  /\ Becomes(c, Over) /\ told' = {}

\* The process ends.
Crash ==
  /\ job' = [c \in Call |-> IF job[c] = New THEN New ELSE Over]
  /\ told' = {} /\ UNCHANGED store

\* What was told is over; nothing else happens.
Pass == told' = {} /\ UNCHANGED <<store, job>>

Next ==
  \/ Pass \/ Crash
  \/ \E c \in Call : \/ Start(c) \/ Leave(c) \/ Look(c) \/ Take(c) \/ Tell(c)
                     \/ Patch(c) \/ Write(c)

Spec == Init /\ [][Next]_vars
=============================================================================

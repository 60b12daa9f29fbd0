------------------------------ MODULE AuditLog ------------------------------
(***************************************************************************)
(* The agent's audit log (audit/logger.go): one line per event, appended   *)
(* to a file that is renamed when it is full, as the older ones before it, *)
(* up to a number of backups.  The writer is used under its lock, so one   *)
(* line is written at a time; each operation on a file may fail, which     *)
(* ends the call with an error, and the process may end between any two.   *)
(* A line is its number; what redactor.go leaves of it is left out.  One   *)
(* process writes to the file.                                             *)
(***************************************************************************)
EXTENDS Naturals, Sequences

CONSTANTS
  MaxBackups,  \* LoggerOptions.MaxBackups; 0: a full file is removed
  Full,        \* how many lines fill a file (MaxSizeMB in the code)
  MaxLines,    \* bound of the model: lines logged
  NoFile

VARIABLES
  file,    \* file[0] is the log, file[i] its i-th backup: lines or NoFile
  open,    \* has the writer the log open?
  size,    \* rotatingWriter.size
  at,      \* where Write is: "idle", "open", "remove", "rename", "reopen", "write"
  i,       \* the backup that is renamed next
  lines,   \* lines logged so far, the current one included
  kept     \* history: the lines whose call returned no error

vars == <<file, open, size, at, i, lines, kept>>

Init ==
  /\ file = [n \in 0..MaxBackups |-> NoFile]
  /\ open = FALSE /\ size = 0 /\ at = "idle" /\ i = 0 /\ lines = 0 /\ kept = {}

Log ==
  /\ at = "idle" /\ lines < MaxLines
  /\ lines' = lines + 1 /\ at' = "open"
  /\ UNCHANGED <<file, open, size, i, kept>>

\* An operation fails: Write returns the error.
Fail ==
  /\ at # "idle"
  /\ at' = "idle"
  /\ open' = IF at = "write" THEN FALSE ELSE open
  /\ UNCHANGED <<file, size, i, lines, kept>>

\* The process ends; the next one starts with a writer of its own.
End ==
  /\ at' = "idle" /\ open' = FALSE /\ size' = 0
  /\ UNCHANGED <<file, i, lines, kept>>

Opened == IF file[0] = NoFile THEN [file EXCEPT ![0] = <<>>] ELSE file

\* ensureOpen; then shouldRotate looks at the size the file has.
Open ==
  /\ at = "open"
  /\ file' = Opened
  /\ open' = (Len(Opened[0]) > 0 => Len(Opened[0]) + 1 <= Full)
  /\ size' = IF open' THEN Len(Opened[0]) ELSE 0
  /\ at' = IF open' THEN "write" ELSE "remove"
  /\ UNCHANGED <<i, lines, kept>>

\* rotate, which closed the log: the oldest backup goes, or the log itself.
RemoveOldest ==
  /\ at = "remove"
  /\ file' = [file EXCEPT ![MaxBackups] = NoFile]
  /\ i' = MaxBackups
  /\ at' = IF MaxBackups = 0 THEN "reopen" ELSE "rename"
  /\ UNCHANGED <<open, size, lines, kept>>

\* Defective variant: the backups are renamed from the newest on.
Ascending == [src |-> MaxBackups - i, dst |-> MaxBackups - i + 1]

\* The loop of rotate and the renaming of the log after it.
Descending == [src |-> i - 1, dst |-> i]

\* A file that is not there is passed over; one that is in the way is gone.
Rename ==
  /\ at = "rename"
  /\ LET step == Descending IN
       file' = IF file[step.src] = NoFile THEN file
               ELSE [file EXCEPT ![step.dst] = file[step.src], ![step.src] = NoFile]
  /\ i' = i - 1
  /\ at' = IF i = 1 THEN "reopen" ELSE "rename"
  /\ UNCHANGED <<open, size, lines, kept>>

Reopen ==
  /\ at = "reopen"
  /\ file' = Opened /\ open' = TRUE /\ size' = Len(Opened[0])
  /\ at' = "write"
  /\ UNCHANGED <<i, lines, kept>>

\* The line is appended and the log closed; closing may report an error.
Write ==
  /\ at = "write"
  /\ file' = [file EXCEPT ![0] = Append(@, lines)]
  /\ size' = size + 1 /\ open' = FALSE /\ at' = "idle"
  /\ kept' \in {kept, kept \cup {lines}}
  /\ UNCHANGED <<i, lines>>

Next == Log \/ Fail \/ End \/ Open \/ RemoveOldest \/ Rename \/ Reopen \/ Write

Spec == Init /\ [][Next]_vars

-----------------------------------------------------------------------------
\* The lines a file holds, and all that are left.
Content(n) == IF file[n] = NoFile THEN <<>> ELSE file[n]
Present == UNION {{Content(n)[k] : k \in DOMAIN Content(n)} : n \in 0..MaxBackups}

TypeOK ==
  /\ \A n \in 0..MaxBackups : file[n] # NoFile => Len(file[n]) <= Full
  /\ open \in BOOLEAN /\ size \in 0..Full
  /\ at \in {"idle", "open", "remove", "rename", "reopen", "write"}
  /\ open <=> at = "write"
  /\ lines \in 0..MaxLines /\ kept \subseteq 1..MaxLines

(* Wherever an operation failed or the process ended: the files hold the   *)
(* newest lines in the order they were logged, with no hole; only lines    *)
(* older than all of these are gone.                                       *)
NewestAreKept ==
  /\ \A n \in 0..MaxBackups : \A j, k \in DOMAIN Content(n) : j < k => Content(n)[j] < Content(n)[k]
  /\ \A newer, older \in 0..MaxBackups : newer < older =>
       \A j \in DOMAIN Content(newer), k \in DOMAIN Content(older) : Content(older)[k] < Content(newer)[j]
  /\ \A line \in kept : (\E old \in Present : old < line) => line \in Present
=============================================================================

------------------------------- MODULE AuditLog -------------------------------
(***************************************************************************)
(* The file-backed audit log (internal/audit/logger.go) over the life of   *)
(* several processes.  A process loads the file, prunes what is older than *)
(* Keep by rewriting it (main.go:89-101), then appends.  The process may   *)
(* die before, in and after every write.  Entries are numbered in the      *)
(* order of Log; a line that does not parse is skipped when loading, so    *)
(* the file is the sequence of its parseable lines and what follows the    *)
(* last newline.                                                           *)
(***************************************************************************)
EXTENDS Integers, Sequences, Selection

CONSTANTS MaxEntries,  \* entries held in memory (maxEntries)
          Keep,        \* days an entry is kept
          Faults,      \* what the file system may refuse or do by halves
          MaxLog,      \* bound: calls of Log
          MaxDay       \* bound: days that pass

ASSUME AuditAssumption ==
  /\ MaxEntries \in Nat \ {0} /\ Keep \in Nat /\ MaxLog \in Nat /\ MaxDay \in Nat
  /\ Faults \subseteq {"read", "open", "append", "create", "flush", "rename", "reopen"}

VARIABLES
  phase,    \* "down", "prune", "write", "rename", "reopen" or "run"
  entries,  \* l.entries: records of a number and an ID, oldest first
  nextID,
  open,     \* l.file is not nil
  file,     \* the parseable lines of the file
  rest,     \* what follows its last newline: nothing, an entry, or a torn one
  tmp,      \* the lines of the temporary file
  today,
  stamps,   \* the day of every entry ever logged
  stored,   \* entries whose line was written completely, on a line of its own
  unread    \* entries that were in the file when some process did not read them

memory == <<entries, nextID, open>>
disk == <<file, rest, tmp>>
auditVars == <<phase, memory, disk, today, stamps, stored, unread>>

Torn == [n |-> 0, id |-> 0]
Numbers(s) == {s[i].n : i \in DOMAIN s}
Trim(s) == IF Len(s) > MaxEntries THEN SubSeq(s, Len(s) - MaxEntries + 1, Len(s)) ELSE s
Lines(s) == AtPlaces(s, {i \in DOMAIN s : s[i] # Torn})
Parsed == file \o Lines(rest)

\* The outcomes of a file operation.
Outcomes(op) == {"ok"} \cup ({op} \cap Faults)

AuditInit == /\ phase = "down"
             /\ entries = <<>> /\ nextID = 0 /\ open = FALSE
             /\ file = <<>> /\ rest = <<>> /\ tmp = <<>>
             /\ today = 0 /\ stamps = <<>> /\ stored = {} /\ unread = {}

-------------------------------------------------------------------------------
\* NewLoggerWithFile; main falls back to memory when the file cannot be opened for
\* appending.  The file is opened once before that, to be read, and neither a refusal
\* nor an error of the scanner (a line of more than 64 KiB, a read that fails) is
\* looked at: the process goes on with the lines it has got.  IDs go on from their
\* number, counted before the oldest are trimmed.
Readable == IF "read" \in Faults THEN 0..Len(Parsed) ELSE {Len(Parsed)}

CountTrimmed(read) == Len(Trim(read))  \* faulty: counts after the trimming
Counted(read) == Len(read)

Start ==
  /\ phase = "down"
  /\ \/ \E k \in Readable :
          LET read == SubSeq(Parsed, 1, k) IN
          /\ entries' = Trim(read) /\ nextID' = Counted(read) /\ open' = TRUE
          /\ unread' = unread \cup (Numbers(Parsed) \ Numbers(read))
     \/ /\ "open" \in Faults
        /\ entries' = <<>> /\ nextID' = 0 /\ open' = FALSE
        /\ UNCHANGED unread
  /\ phase' = "prune"
  /\ UNCHANGED <<disk, today, stamps, stored>>

\* Prune, up to the temporary file.
Prune ==
  LET kept == AtPlaces(entries, {i \in DOMAIN entries : stamps[entries[i].n] >= today - Keep}) IN
  /\ phase = "prune"
  /\ entries' = kept
  /\ \/ /\ kept # entries /\ open
        /\ phase' = "write"
     \/ /\ (kept # entries /\ open) => "create" \in Faults
        /\ phase' = "run"
  /\ UNCHANGED <<nextID, open, disk, today, stamps, stored, unread>>

\* rewriteFile does not look at the result of Flush: the temporary file may end
\* anywhere.
WriteTemp ==
  /\ phase = "write"
  /\ \/ tmp' = entries
     \/ /\ "flush" \in Faults
        /\ \E k \in 0..Len(entries), cut \in {<<>>, <<Torn>>} : tmp' = SubSeq(entries, 1, k) \o cut
  /\ phase' = "rename"
  /\ UNCHANGED <<memory, file, rest, today, stamps, stored, unread>>

Rename ==
  /\ phase = "rename"
  /\ \/ file' = Lines(tmp) /\ rest' = AtPlaces(tmp, {i \in DOMAIN tmp : tmp[i] = Torn})
     \/ "rename" \in Faults /\ UNCHANGED <<file, rest>>
  /\ phase' = "reopen"
  /\ UNCHANGED <<memory, tmp, today, stamps, stored, unread>>

Reopen == /\ phase = "reopen"
          /\ \E o \in Outcomes("reopen") : open' = (o = "ok")
          /\ phase' = "run"
          /\ UNCHANGED <<entries, nextID, disk, today, stamps, stored, unread>>

-------------------------------------------------------------------------------
New == [n |-> Len(stamps) + 1, id |-> nextID + 1]

\* A line that follows an incomplete one is lost with it; a write that fails may
\* leave one.
AppendLine(e) == IF rest = <<>>
              THEN /\ file' = Append(file, e)
                   /\ stored' = stored \cup {e.n}
                   /\ UNCHANGED rest
              ELSE rest' = <<>> /\ UNCHANGED <<file, stored>>

Log ==
  /\ phase = "run" /\ Len(stamps) < MaxLog
  /\ stamps' = Append(stamps, today)
  /\ nextID' = New.id
  /\ entries' = Trim(Append(entries, New))
  /\ \/ open /\ AppendLine(New)
     \/ /\ open => "append" \in Faults
        /\ UNCHANGED rest \/ (open /\ rest' = <<Torn>>)
        /\ UNCHANGED <<file, stored>>
  /\ UNCHANGED <<phase, open, tmp, today, unread>>

\* The process may end, or be killed, between any two steps and within a write.
Down == /\ phase' = "down"
        /\ entries' = <<>> /\ nextID' = 0 /\ open' = FALSE /\ tmp' = <<>>

Crash == /\ phase # "down"
         /\ Down
         /\ UNCHANGED <<file, rest, today, stamps, stored, unread>>

CrashInLog == /\ phase = "run" /\ open /\ Len(stamps) < MaxLog
              /\ Down
              /\ stamps' = Append(stamps, today)
              /\ \E e \in {Torn, New} : rest' = <<IF rest = <<>> THEN e ELSE Torn>>
              /\ UNCHANGED <<file, today, stored, unread>>

Day == /\ today < MaxDay
       /\ today' = today + 1
       /\ UNCHANGED <<phase, memory, disk, stamps, stored, unread>>

AuditNext == \/ Start \/ Prune \/ WriteTemp \/ Rename \/ Reopen
             \/ Log \/ Crash \/ CrashInLog \/ Day

AuditSpec == AuditInit /\ [][AuditNext]_auditVars

-------------------------------------------------------------------------------
Entry == [n : 1..MaxLog, id : 1..MaxLog]

\* main.go:81-101, logger.go:128-182: an entry that reached the file is there, and in
\* the memory of a process that could open it, until it is older than Keep or more
\* than MaxEntries behind, whenever a process died.  One that some process did not
\* read is not promised: this process prunes the file without it.
Due(n) == stamps[n] >= today - Keep /\ Len(stamps) - n < MaxEntries
Retained == \A n \in stored \ unread : Due(n) =>
  /\ n \in Numbers(file)
  /\ open => n \in Numbers(entries)

\* Query reverses l.entries and calls that newest first (logger.go:94-124): the
\* order of Log survives loading, trimming, pruning and rewriting.
InOrder == \A s \in {entries, file} :
  \A i, j \in DOMAIN s : i < j => s[i].n < s[j].n

\* The table of the audit page uses the ID as the key of a row: as long as no line
\* was pruned, lost or not read, IDs are unique, also after a restart that trims
\* (logger.go:40-56, 73-74).
IdsUnique == Len(file) = Len(stamps) /\ unread = {} =>
  \A i, j \in DOMAIN entries : i # j => entries[i].id # entries[j].id

AuditTypeOK == /\ phase \in {"down", "prune", "write", "rename", "reopen", "run"}
               /\ entries \in Seq(Entry) /\ Len(entries) <= MaxEntries
               /\ file \in Seq(Entry) /\ tmp \in Seq(Entry \cup {Torn})
               /\ rest \in Seq(Entry \cup {Torn}) /\ Len(rest) <= 1
               /\ nextID \in 0..MaxLog /\ open \in BOOLEAN
               /\ today \in 0..MaxDay
               /\ stamps \in Seq(0..MaxDay)
               /\ stored \subseteq DOMAIN stamps /\ unread \subseteq DOMAIN stamps

\* The log of what was done is kept, in order, row by row.
AuditSafe == AuditTypeOK /\ Retained /\ InOrder /\ IdsUnique
===============================================================================

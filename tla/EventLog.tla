------------------------------ MODULE EventLog ------------------------------
(***************************************************************************)
(* The event history of internal/poller/events.go: a ring of the newest    *)
(* Keep events in memory, and a bounded jsonl file that should hold the    *)
(* same events.  Add appends (no fsync), RecordAudit rewrites the whole    *)
(* file durably before it reports success, and every failure is repaired   *)
(* later by rewriting.  Every operation runs under EventLog.mu, so one     *)
(* action is one call.                                                     *)
(*                                                                         *)
(* An event is its number: the order in which Add and RecordAudit were     *)
(* called, over all lifetimes of the process.  A file is the sequence of   *)
(* its lines, Torn standing for a line that does not parse, together with  *)
(* whether its last byte is missing its newline.                           *)
(***************************************************************************)
EXTENDS Integers, Sequences, FiniteSets, SequencesExt

CONSTANTS
    Keep,           \* EventLog.keep
    FileLimit,      \* EventLog.maxFileBytes, in lines of the largest size
    InitialFiles,   \* the files an earlier version of the program may have left
    MaxEvents,      \* bound on the events recorded
    MaxFaults,      \* bound on failed disk operations
    MaxCrashes      \* bound on restarts

ASSUME KeepAssumption == Keep \in Nat \ {0}

\* NewEventLog: maxBytes is at least keep * maxEventLineBytes.
ASSUME LimitAssumption == FileLimit \in Nat /\ FileLimit >= Keep

\* A line of an earlier version is an event, numbered by its position, or does not parse.
ASSUME FilesAssumption ==
    \A f \in InitialFiles :
        /\ f \in [lines : Seq(Nat), open : BOOLEAN]
        /\ \A i \in DOMAIN f.lines : f.lines[i] \in {0, i}

ASSUME BoundsAssumption == {MaxEvents, MaxFaults, MaxCrashes} \subseteq Nat

VARIABLES
    ring,        \* EventLog.ring, oldest first
    file,        \* what a read of the file returns now
    remains,     \* the contents a power loss may leave, whatever was not fsynced undone
    fileBytes,   \* EventLog.fileBytes, in lines
    dirty,       \* EventLog.dirty
    loadBlocked, \* EventLog.loadBlocked
    lastError,   \* EventLog.lastError is not empty
    next,        \* the number of the next event
    confirmed,   \* ghost: audits whose RecordAudit returned nil
    refused,     \* ghost: audits whose RecordAudit returned an error
    unsynced,    \* ghost: refused audits that were renamed into place before the error,
                 \* no write having succeeded since
    faults, crashes

vars == <<ring, file, remains, fileBytes, dirty, loadBlocked, lastError, next,
          confirmed, refused, unsynced, faults, crashes>>

Torn == 0

Content == [lines : Seq(Nat), open : BOOLEAN]

Newest(s, n) == SubSeq(s, IF Len(s) > n THEN Len(s) - n + 1 ELSE 1, Len(s))

\* The trimming of the ring in Add, RecordAudit and recoverLoadLocked.
Trim(s) == Newest(s, Keep)

Closed(s) == [lines |-> s, open |-> FALSE]

-----------------------------------------------------------------------------
(* Writing. *)

\* compactLocked with replaceEventFile: the ring goes to a synced temporary file
\* that is renamed over the old one; then the directory is synced.  "fail": an
\* error before the rename.  "late": the rename happened, the directory sync failed.
CompactOutcomes == {"ok", "fail", "late"}

Mut_compactNoSync(f, r, rem, out) ==
    IF out = "fail" THEN [file |-> f, remains |-> rem]
                    ELSE [file |-> Closed(r), remains |-> rem \union {Closed(r)}]

compactLocked(f, r, rem, out) ==
    CASE out = "ok"   -> [file |-> Closed(r), remains |-> {Closed(r)}]
      [] out = "late" -> [file |-> Closed(r), remains |-> rem \union {Closed(r)}]
      [] out = "fail" -> [file |-> f, remains |-> rem]

\* appendLineLocked: O_APPEND without fsync.  "none": nothing reached the file;
\* "torn": part of the line did; "noeol": all but its newline; "late": all of it,
\* and Close failed.
AppendOutcomes == {"ok", "none", "torn", "noeol", "late"}

\* The file after the write of e, or of a part of it; what follows a line without
\* its newline is glued to it.
Written(f, e, part) ==
    LET base == IF f.open THEN Front(f.lines) ELSE f.lines
        line == IF f.open \/ part = "torn" THEN Torn ELSE e
    IN  [lines |-> Append(base, line), open |-> part # "ok"]

appendLineLocked(f, e, rem, out) ==
    CASE out = "none"            -> [file |-> f, remains |-> rem]
      [] out \in {"torn", "noeol"} ->
            [file |-> Written(f, e, out), remains |-> rem \union {Written(f, e, out)}]
      [] out \in {"ok", "late"}  ->
            [file |-> Written(f, e, "ok"),
             remains |-> rem \union {Written(f, e, p) : p \in {"ok", "torn", "noeol"}}]

-----------------------------------------------------------------------------
(* Reading. *)

\* load reads at most maxFileBytes and one line from the end of the file, and drops
\* the first piece of a window that does not start at the beginning of the file.
Window(s) == IF Len(s) > FileLimit + 1 THEN Newest(s, FileLimit) ELSE s

\* The lines that parse, in their order.
Parsed(s) ==
    LET upTo[n \in 0..Len(s)] ==
            IF n = 0 THEN <<>>
            ELSE IF s[n] = Torn THEN upTo[n - 1] ELSE Append(upTo[n - 1], s[n])
    IN  upTo[Len(s)]

\* The events load restores: the newest Keep lines that parse.
Restored(f) == Trim(Parsed(Window(f.lines)))

\* load's needsCompact: an unfinished line, a line that does not parse, or more
\* lines than the ring takes.
NeedsCompact(f) ==
    f.open \/ Len(f.lines) > Keep \/ \E i \in DOMAIN f.lines : f.lines[i] = Torn

LoadOutcomes == CompactOutcomes \union {"unreadable"}

\* load: "unreadable" is a failed open, stat, seek, read or close; the other
\* failures are those of the compaction or of the final chmod.
load(f, rem, bytes, out) ==
    LET r == Restored(f)
        compacts == out # "unreadable" /\ NeedsCompact(f)
        d == IF compacts THEN compactLocked(f, r, rem, out)
                         ELSE [file |-> f, remains |-> rem]
    IN  [ok |-> out = "ok",
         ring |-> r,
         file |-> d.file,
         remains |-> d.remains,
         bytes |-> CASE out = "unreadable"           -> bytes
                     [] compacts /\ out = "ok"       -> Len(r)
                     [] OTHER                        -> Len(f.lines)]

-----------------------------------------------------------------------------

\* NewEventLog on the file f: the ring it starts with and, after a failed load,
\* markLoadFailure.
NewEventLog(f, rem, out) ==
    LET l == load(f, rem, 0, out)
    IN  /\ ring' = IF l.ok THEN l.ring ELSE <<>>
        /\ file' = l.file
        /\ remains' = l.remains
        /\ fileBytes' = l.bytes
        /\ dirty' = FALSE
        /\ loadBlocked' = ~l.ok
        /\ lastError' = ~l.ok

\* The first start, on whatever an earlier version left.
Init ==
    \E f \in InitialFiles :
        LET l == load(f, {f}, 0, "ok")
        IN  /\ ring = l.ring
            /\ file = l.file
            /\ remains = l.remains
            /\ fileBytes = l.bytes
            /\ dirty = FALSE
            /\ loadBlocked = FALSE
            /\ lastError = FALSE
            /\ next = Len(f.lines) + 1
            /\ confirmed = {}
            /\ refused = {} /\ unsynced = {}
            /\ faults = 0
            /\ crashes = 0

Fault(out) == IF out = "ok" THEN 0 ELSE 1

\* The end of Add: what the outcome of the write leaves behind.
Settle(err, blocked) ==
    /\ loadBlocked' = blocked
    /\ dirty' = (err /\ IF blocked THEN dirty ELSE TRUE)
    /\ lastError' = err

Mut_AddBlockedOverwrites(loaded, out) ==
    LET buffered == Trim(Append(ring, next))
        d == compactLocked(file, buffered, remains, out)
    IN  /\ loadBlocked
        /\ faults + Fault(loaded) + Fault(out) =< MaxFaults
        /\ faults' = faults + Fault(loaded) + Fault(out)
        /\ ring' = buffered
        /\ file' = d.file
        /\ remains' = d.remains
        /\ fileBytes' = IF out = "ok" THEN Len(buffered) ELSE fileBytes
        /\ Settle(out # "ok", FALSE)

\* Add while the file could not be read at start (recoverLoadLocked): read it again
\* and, once that works, put the events buffered meanwhile after its own.
AddBlocked(loaded, out) ==
    LET buffered == Trim(Append(ring, next))
        l == load(file, remains, fileBytes, loaded)
        merged == Trim(l.ring \o buffered)
        d == compactLocked(l.file, merged, l.remains, out)
    IN  /\ loadBlocked
        /\ faults + Fault(loaded) + Fault(out) =< MaxFaults
        /\ faults' = faults + Fault(loaded) + Fault(out)
        /\ IF l.ok
           THEN /\ ring' = merged
                /\ file' = d.file
                /\ remains' = d.remains
                /\ fileBytes' = IF out = "ok" THEN Len(merged) ELSE l.bytes
                /\ Settle(out # "ok", FALSE)
           ELSE /\ out = "ok"   \* no second write: its outcome is not used
                /\ ring' = buffered
                /\ file' = l.file
                /\ remains' = l.remains
                /\ fileBytes' = l.bytes
                /\ Settle(TRUE, TRUE)

\* Add rewrites the file when an earlier write failed or the line does not fit.
MustCompact == dirty \/ fileBytes + 1 > FileLimit

AddCompact(out) ==
    LET r == Trim(Append(ring, next))
        d == compactLocked(file, r, remains, out)
    IN  /\ ~loadBlocked /\ MustCompact
        /\ faults + Fault(out) =< MaxFaults
        /\ faults' = faults + Fault(out)
        /\ ring' = r
        /\ file' = d.file
        /\ remains' = d.remains
        /\ fileBytes' = IF out = "ok" THEN Len(r) ELSE fileBytes
        /\ Settle(out # "ok", FALSE)

Mut_AddAppendForgets(out) ==
    LET d == appendLineLocked(file, next, remains, out)
    IN  /\ ~loadBlocked /\ ~MustCompact
        /\ faults + Fault(out) =< MaxFaults
        /\ faults' = faults + Fault(out)
        /\ ring' = Trim(Append(ring, next))
        /\ file' = d.file
        /\ remains' = d.remains
        /\ fileBytes' = IF out = "none" THEN fileBytes ELSE fileBytes + 1
        /\ Settle(FALSE, FALSE)

AddAppend(out) ==
    LET d == appendLineLocked(file, next, remains, out)
    IN  /\ ~loadBlocked /\ ~MustCompact
        /\ faults + Fault(out) =< MaxFaults
        /\ faults' = faults + Fault(out)
        /\ ring' = Trim(Append(ring, next))
        /\ file' = d.file
        /\ remains' = d.remains
        /\ fileBytes' = IF out = "none" THEN fileBytes ELSE fileBytes + 1
        /\ Settle(out # "ok", FALSE)

\* Add: an event of the watcher.  It is always kept in memory.
Add ==
    /\ next =< MaxEvents
    /\ \/ \E loaded \in LoadOutcomes, out \in CompactOutcomes : AddBlocked(loaded, out)
       \/ \E out \in CompactOutcomes : AddCompact(out)
       \/ \E out \in AppendOutcomes : AddAppend(out)
    /\ next' = next + 1
    /\ unsynced' = IF dirty' THEN unsynced ELSE {}
    /\ UNCHANGED <<confirmed, refused, crashes>>

\* RecordAudit while the history could not be read: refused, nothing is tried.
AuditBlocked ==
    /\ loadBlocked
    /\ lastError' = TRUE
    /\ refused' = refused \union {next}
    /\ UNCHANGED <<ring, file, remains, fileBytes, dirty, loadBlocked, confirmed, unsynced, faults>>

\* RecordAudit: the ring with the record replaces the file; after an error the
\* earlier ring is put back and the next write rewrites the file.
AuditWrite(out) ==
    LET candidate == Trim(Append(ring, next))
        d == compactLocked(file, candidate, remains, out)
        ok == out = "ok"
    IN  /\ ~loadBlocked
        /\ faults + Fault(out) =< MaxFaults
        /\ faults' = faults + Fault(out)
        /\ ring' = IF ok THEN candidate ELSE ring
        /\ file' = d.file
        /\ remains' = d.remains
        /\ fileBytes' = IF ok THEN Len(candidate) ELSE fileBytes
        /\ dirty' = ~ok
        /\ lastError' = ~ok
        /\ confirmed' = IF ok THEN confirmed \union {next} ELSE confirmed
        /\ refused' = IF ok THEN refused ELSE refused \union {next}
        /\ unsynced' = CASE ok            -> {}
                         [] out = "late"  -> unsynced \union {next}
                         [] out = "fail"  -> unsynced
        /\ UNCHANGED loadBlocked

RecordAudit ==
    /\ next =< MaxEvents
    /\ AuditBlocked \/ \E out \in CompactOutcomes : AuditWrite(out)
    /\ next' = next + 1
    /\ UNCHANGED crashes

\* The process ends, with or without a power loss, and starts again: a refused record
\* that is still in the file counts as history from now on.
Restart(out) ==
    /\ crashes < MaxCrashes
    /\ crashes' = crashes + 1
    /\ faults + Fault(out) =< MaxFaults
    /\ faults' = faults + Fault(out)
    /\ \/ NewEventLog(file, remains, out)
       \/ \E f \in remains : NewEventLog(f, {f}, out)
    /\ refused' = refused \ unsynced
    /\ unsynced' = {}
    /\ UNCHANGED <<next, confirmed>>

Next == Add \/ RecordAudit \/ \E out \in LoadOutcomes : Restart(out)

Spec == Init /\ [][Next]_vars

-----------------------------------------------------------------------------
(* Properties. *)

\* The variables keep their types, and the ring never outgrows Keep.
TypeOK ==
    /\ ring \in Seq(Nat \ {Torn}) /\ Len(ring) =< Keep
    /\ file \in Content
    /\ remains \subseteq Content
    /\ fileBytes \in Nat
    /\ {dirty, loadBlocked, lastError} \subseteq BOOLEAN
    /\ next \in Nat
    /\ confirmed \subseteq Nat /\ refused \subseteq Nat /\ unsynced \subseteq refused
    /\ faults \in 0..MaxFaults /\ crashes \in 0..MaxCrashes

Events(s) == {s[i] : i \in DOMAIN s}

\* e is not in the restored history r because Keep newer events pushed it out.
PushedOut(e, r) == Cardinality({x \in Events(r) : x > e}) = Keep

\* An audit record whose RecordAudit returned nil is restored by the next start, even
\* after a power loss, until Keep newer records have pushed it out of the history.
ConfirmedAuditSurvives ==
    \A a \in confirmed, c \in remains \union {file} :
        a \in Events(Restored(c)) \/ PushedOut(a, Restored(c))

\* What every power loss would leave is never lost again, whichever writes fail and
\* whether or not the history could be read at the last start: an event leaves the
\* durable history only when newer ones push it out, or when RecordAudit took it back.
HistoryIsKept ==
    [][\A e \in (1..next) \ refused :
          (\A c \in remains : e \in Events(Restored(c))) =>
              \A c \in remains' : e \in Events(Restored(c)) \/ PushedOut(e, Restored(c))]_vars

\* When Status reports healthy, a restart of the process finds exactly the events
\* that List shows.
HealthyIsSaved ==
    ~dirty /\ ~loadBlocked /\ ~lastError => Restored(file) = ring

\* The history has no event twice and none out of order, in memory and in whatever a
\* restart would restore, also when a blocked history is merged with newer events.
HistoryInOrder ==
    \A s \in {ring, Restored(file)} \union {Restored(c) : c \in remains} :
        \A i, j \in DOMAIN s : i < j => s[i] < s[j]

\* A record that RecordAudit refused is not in the history, and once a later write has
\* succeeded no crash or power loss can bring it back (events.go:425).  It comes back in
\* one way only: its rewrite failed after the rename, in the directory sync, and the
\* process ended before any write succeeded; such a record is given up as refused.
RefusedAuditStaysOut ==
    \A a \in refused :
        /\ a \notin Events(ring)
        /\ ~dirty => \A c \in remains \union {file} : a \notin Events(Parsed(c.lines))

\* The file a start could read stays within its limit.
FileBounded == ~loadBlocked => Len(file.lines) =< FileLimit

\* The audit trail says what was answered, over failed writes, restarts and power losses:
\* confirmed records survive and refused ones are gone, but for those that a restart
\* found in the file because their rewrite had failed in the directory sync.
AuditIsTrue == ConfirmedAuditSurvives /\ RefusedAuditStaysOut

\* A healthy status is true: the file restores the list, in order and within bounds.
HistoryIsSound == HealthyIsSaved /\ HistoryInOrder /\ FileBounded

=============================================================================

---------------------------- MODULE TelemetryLog ----------------------------
(***************************************************************************)
(* The structured log (domain-ports/src/telemetry.rs) and the adapter that *)
(* writes it to stderr and, teed, to a file (domain-adapters/              *)
(* telemetry-std).                                                         *)
(*                                                                         *)
(* Threads share the two sinks, each behind a mutex; a logger adds its     *)
(* context to the fields of a call, and a child's context lies over its    *)
(* parent's.  The file is buffered and flushed after every line, so that a *)
(* process that is killed leaves its log behind; any write to it may fail, *)
(* and a call reports nothing.                                             *)
(*                                                                         *)
(* A line is its thread, its number there, and its fields; levels, texts   *)
(* and the bytes of a line are left out, but for a line cut short because  *)
(* the buffer could not be spilled.                                        *)
(***************************************************************************)
EXTENDS Naturals, Sequences, SequencesExt, Functions

CONSTANTS Threads,
          Keys,             \* fields a child or a call may bring
          MaxLines,         \* bound: calls of the threads together
          MaxScopes,        \* bound: children below the root
          BufferLines       \* lines the writer's buffer holds

ASSUME ThreadsAssumption == "nobody" \notin Threads

VARIABLES
    logger,         \* per thread: its context, and (history) the scopes it came from
    call,           \* per thread: the call it is in
    out_holder,     \* who holds the mutex of stderr
    file_holder,    \* and that of the file
    console,        \* what stderr was given, whether it could take it or not
    has_file,       \* the log file could be created
    unflushed,      \* lines in the BufWriter
    on_disk,        \* lines in the file
    lost,           \* history: a line was not buffered, or the last flush failed
    killed

log_vars == <<logger, call, out_holder, file_holder, console, has_file, unflushed, on_disk,
              lost, killed>>
sinks == <<console, has_file, unflushed, on_disk, lost>>

Nobody == "nobody"
NoLine == [by |-> Nobody, nth |-> 0, fields |-> <<>>, scopes |-> <<>>, whole |-> TRUE]
Returned(n) == [at |-> "returned", line |-> NoLine, calls |-> n]
Bag(depth) == [key \in Keys |-> depth]
RootContext == [key \in Keys \cup {"app"} |-> 0]

LogInit ==
    /\ logger = [t \in Threads |-> [context |-> RootContext, scopes |-> <<RootContext>>]]
    /\ call = [t \in Threads |-> Returned(0)]
    /\ out_holder = Nobody
    /\ file_holder = Nobody
    /\ console = <<>>
    /\ has_file \in BOOLEAN
    /\ unflushed = <<>>
    /\ on_disk = <<>>
    /\ lost = [line |-> FALSE, flush |-> FALSE]
    /\ killed = FALSE

-----------------------------------------------------------------------------
(* Fields and contexts. *)

(* Mutant of MergedWith: the context wins over what is more specific. *)
MergedUnder(bag, other) ==
    [key \in DOMAIN bag \cup DOMAIN other |-> IF key \in DOMAIN bag THEN bag[key] ELSE other[key]]

MergedWith(bag, other) ==
    [key \in DOMAIN bag \cup DOMAIN other |-> IF key \in DOMAIN other THEN other[key] ELSE bag[key]]

(* An event carries its own fields, its name and the time, and no context. *)
Stamped == [app_version |-> 0, event |-> 0, t_ms |-> 0]

Child(t) ==
    /\ call[t].at = "returned"
    /\ Len(logger[t].scopes) <= MaxScopes
    /\ LET scope == Bag(Len(logger[t].scopes))
       IN logger' = [logger EXCEPT ![t] = [context |-> MergedWith(@.context, scope),
                                           scopes |-> Append(@.scopes, scope)]]
    /\ UNCHANGED <<call, out_holder, file_holder, sinks, killed>>

(* The line is made before any mutex is taken. *)
Call(t, fields, scopes) ==
    /\ call[t].at = "returned"
    /\ FoldFunction(LAMBDA c, n : c.calls + n, 0, call) < MaxLines
    /\ call' = [call EXCEPT
           ![t] = [at |-> "made", calls |-> @.calls + 1,
                   line |-> [by |-> t, nth |-> @.calls + 1, fields |-> fields,
                             scopes |-> scopes, whole |-> TRUE]]]
    /\ UNCHANGED <<logger, out_holder, file_holder, sinks, killed>>

Log(t) == \E scope \in {<<>>, Bag(Len(logger[t].scopes))} :
    Call(t, MergedWith(logger[t].context, scope), Append(logger[t].scopes, scope))

Emit(t) == Call(t, Stamped, <<Stamped>>)

-----------------------------------------------------------------------------
(* The sinks: stderr's mutex is held while the file's is taken, and both until the
   call returns. *)

Goes(t, at) == call' = [call EXCEPT ![t].at = at]

(* A write that stderr refuses is not looked at, and the line goes on to the file. *)
WriteStderr(t) ==
    /\ call[t].at = "made"
    /\ out_holder = Nobody
    /\ out_holder' = t
    /\ console' = Append(console, call[t].line)
    /\ Goes(t, IF has_file THEN "printed" ELSE "done")
    /\ UNCHANGED <<logger, file_holder, has_file, unflushed, on_disk, lost, killed>>

(* Mutant of LockFile: stderr is released first. *)
LockFileAfterwards(t) ==
    /\ call[t].at = "printed"
    /\ file_holder = Nobody
    /\ file_holder' = t
    /\ out_holder' = IF out_holder = t THEN Nobody ELSE out_holder
    /\ Goes(t, "locked")
    /\ UNCHANGED <<logger, sinks, killed>>

LockFile(t) ==
    /\ call[t].at = "printed"
    /\ file_holder = Nobody
    /\ file_holder' = t
    /\ Goes(t, "locked")
    /\ UNCHANGED <<logger, out_holder, sinks, killed>>

(* What a flush moves: all of the buffer, or what was written before an error. *)
Flushed(n) == /\ on_disk' = on_disk \o SubSeq(unflushed, 1, n)
              /\ unflushed' = SubSeq(unflushed, n + 1, Len(unflushed))

(* A full buffer is spilled first; if that fails, writeln stops at the fragment that did
   not fit, and the buffer ends in a beginning of the line, or in none of it. *)
WriteFile(t) ==
    /\ call[t].at = "locked"
    /\ Goes(t, "written")
    /\ \/ /\ Len(unflushed) < BufferLines
          /\ unflushed' = Append(unflushed, call[t].line)
          /\ UNCHANGED <<on_disk, lost>>
       \/ /\ Len(unflushed) >= BufferLines
          /\ on_disk' = on_disk \o unflushed
          /\ unflushed' = <<call[t].line>>
          /\ UNCHANGED lost
       \/ /\ Len(unflushed) >= BufferLines
          /\ \E n \in 0..(Len(unflushed) - 1) :
               LET left == SubSeq(unflushed, n + 1, Len(unflushed))
               IN /\ on_disk' = on_disk \o SubSeq(unflushed, 1, n)
                  /\ unflushed' \in {left, Append(left, [call[t].line EXCEPT !.whole = FALSE])}
          /\ lost' = [lost EXCEPT !.line = TRUE]
    /\ UNCHANGED <<logger, out_holder, file_holder, console, has_file, killed>>

(* Mutant of FlushFile: a line stays in the buffer until the next is written. *)
NotFlushed(t) ==
    /\ call[t].at = "written"
    /\ Goes(t, "done")
    /\ UNCHANGED <<logger, out_holder, file_holder, sinks, killed>>

FlushFile(t) ==
    /\ call[t].at = "written"
    /\ Goes(t, "done")
    /\ \E n \in 0..Len(unflushed) :
         /\ Flushed(n)
         /\ lost' = [lost EXCEPT !.flush = n < Len(unflushed)]
    /\ UNCHANGED <<logger, out_holder, file_holder, console, has_file, killed>>

(* The guards are dropped, the file's first. *)
Unlock(t) ==
    /\ call[t].at = "done"
    /\ IF file_holder = t
       THEN file_holder' = Nobody /\ UNCHANGED <<out_holder, call>>
       ELSE /\ out_holder' = IF out_holder = t THEN Nobody ELSE out_holder
            /\ call' = [call EXCEPT ![t] = Returned(@.calls)]
            /\ UNCHANGED file_holder
    /\ UNCHANGED <<logger, sinks, killed>>

(* The system kills the process: what is only in the buffer is gone. *)
KillLogger ==
    /\ ~killed
    /\ killed' = TRUE
    /\ unflushed' = <<>>
    /\ UNCHANGED <<logger, call, out_holder, file_holder, console, has_file, on_disk, lost>>

LogStep(t) ==
    \/ Child(t) \/ Log(t) \/ Emit(t)
    \/ WriteStderr(t) \/ LockFile(t) \/ WriteFile(t) \/ FlushFile(t) \/ Unlock(t)

LogNext == ~killed /\ (KillLogger \/ \E t \in Threads : LogStep(t))
LogSpec == LogInit /\ [][LogNext]_log_vars

-----------------------------------------------------------------------------
(* The innermost scope that has a field says its value, and nothing else is added. *)
FieldsAreScoped(line) ==
    LET has(i) == DOMAIN line.scopes[i]
    IN /\ DOMAIN line.fields = UNION {has(i) : i \in DOMAIN line.scopes}
       /\ \A key \in DOMAIN line.fields :
            \E i \in DOMAIN line.scopes :
                /\ key \in has(i)
                /\ \A j \in DOMAIN line.scopes : j > i => key \notin has(j)
                /\ line.fields[key] = line.scopes[i][key]

Kept == on_disk \o unflushed

(* The whole ones of some lines are among those shown, in the same order. *)
AreInOrder(lines, shown) ==
    \A i, j \in DOMAIN lines :
        lines[i].whole /\ lines[j].whole =>
            /\ \E a \in DOMAIN shown : shown[a] = lines[i]
            /\ \A a, b \in DOMAIN shown :
                 i < j /\ shown[a] = lines[i] /\ shown[b] = lines[j] => a < b

(* The file has the lines that stderr was given, in the same order, missing at most the
   one being written, unless a spill failed; a call that returned is on the disk, whatever
   happens to the process next, unless its flush failed; and every line has the fields of
   its scopes. *)
LogIsTeed ==
    /\ \A i \in DOMAIN console : FieldsAreScoped(console[i])
    /\ has_file =>
         /\ AreInOrder(Kept, console)
         /\ ~lost.line =>
              /\ IsPrefix(Kept, console)
              /\ killed \/ Len(console) <= Len(Kept) + 1
         /\ ~lost.line /\ ~lost.flush =>
              \A i \in DOMAIN console :
                  call[console[i].by].calls > console[i].nth
                    \/ call[console[i].by].at = "returned"
                  => \E j \in DOMAIN on_disk : on_disk[j] = console[i]
    /\ ~has_file => Kept = <<>>
=============================================================================

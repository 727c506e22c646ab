------------------------------- MODULE Memory -------------------------------
(* What a process remembers of the tasks it has run: AgentMemoryFacade of     *)
(* memory/memory_tiers.py as run_task of main.py uses it (finalize_task), and *)
(* the log of runs of memory/storage_router.py.  The facade saves two files,  *)
(* one after the other, each opened for writing (and so emptied) before it is *)
(* written; the process may end between any two steps and be started again.   *)
(*                                                                            *)
(* A run is a number, in the order of the time stamps.  A task id is made of  *)
(* the second and the order, so that runs of one order within a second share  *)
(* it.  The root cause of a report determines its solution (the rules of the  *)
(* decision engine have one each), so an experience is a count for a cause,   *)
(* and its caps of ten solutions and 500 causes are never met.  The session   *)
(* buffer of the facade and its queries change nothing here and are left out. *)
EXTENDS Naturals, Sequences, FiniteSets, SequencesExt, FiniteSetsExt, Functions

CONSTANTS
    Orders, Causes,
    MaxKept,         \* long_term_max_tasks
    MaxRuns,         \* bound: tasks run
    MaxStarts,       \* bound: starts of the program
    MaxFailedSaves   \* bound: saves that raise, which _save swallows

ASSUME BoundAssumption ==
    MaxKept \in Nat \ {0} /\ {MaxRuns, MaxStarts, MaxFailedSaves} \subseteq Nat

VARIABLES
    at,              \* where run_task is; "down" when there is no process
    runs,            \* the reports so far
    tasks,           \* LongTermTaskStore._tasks: the run that an id stands for
    index,           \* LongTermTaskStore._index
    learned,         \* ExperienceRepository._entries: the count of a cause
    taskFile, lessonFile,
    log,             \* the lines of the cold store's task_runs
    lost, unlearned, \* history: the runs before these may be missing in the files
    stale,           \* history: files whose last save did not reach the disk
    starts, failures

memory == <<tasks, index, learned>>
disk == <<taskFile, lessonFile, log>>
history == <<lost, unlearned, stale>>
vars == <<at, runs, memory, disk, history, starts, failures>>

Torn == [state |-> "torn"]
NoFile == [state |-> "none"]
Whole(data) == [state |-> "whole", data |-> data]

NoTasks == <<>>
NoIndex == [o \in Orders |-> <<>>]
NoLessons == [c \in Causes |-> 0]

Init ==
    /\ at = "down" /\ runs = <<>>
    /\ tasks = NoTasks /\ index = NoIndex /\ learned = NoLessons
    /\ taskFile = NoFile /\ lessonFile = NoFile /\ log = <<>>
    /\ lost = 0 /\ unlearned = 0 /\ stale = {}
    /\ starts = 0 /\ failures = 0

-----------------------------------------------------------------------------
(* The process starts, and may end anywhere. *)

\* A file that is not there or does not parse leaves the empty memory of __init__.
LoadedTasks == IF taskFile.state = "whole" THEN taskFile.data.tasks ELSE NoTasks
LoadedIndex == IF taskFile.state = "whole" THEN taskFile.data.index ELSE NoIndex
LoadedLessons == IF lessonFile.state = "whole" THEN lessonFile.data ELSE NoLessons

Start ==
    /\ at = "down" /\ starts < MaxStarts
    /\ tasks' = LoadedTasks /\ index' = LoadedIndex /\ learned' = LoadedLessons
    /\ at' = "idle" /\ starts' = starts + 1
    /\ lost' = IF taskFile.state = "torn" \/ "tasks" \in stale THEN Len(runs) ELSE lost
    /\ unlearned' = IF lessonFile.state = "torn" \/ "lessons" \in stale THEN Len(runs) ELSE unlearned
    /\ stale' = {}
    /\ UNCHANGED <<runs, disk, failures>>

Crash ==
    /\ at # "down"
    /\ at' = "down"
    /\ UNCHANGED <<runs, memory, disk, history, starts, failures>>

-----------------------------------------------------------------------------
(* LongTermTaskStore.record_task. *)

Id(n) == <<runs[n].second, runs[n].order>>

OldestId(ts) == CHOOSE i \in DOMAIN ts : \A j \in DOMAIN ts : i[1] <= j[1]   \* mutant
Oldest(ts) == CHOOSE i \in DOMAIN ts : \A j \in DOMAIN ts : ts[i] <= ts[j]

Unlisted1(ids, i) == IF ids # <<>> /\ Head(ids) = i THEN Tail(ids) ELSE ids   \* mutant
\* ids without i, as far as its first n entries.
Unlisted(ids, i) ==
    LET rest[n \in 0..Len(ids)] ==
            IF n = 0 THEN <<>>
            ELSE IF ids[n] # i THEN Append(rest[n - 1], ids[n]) ELSE rest[n - 1]
    IN  rest[Len(ids)]

\* One task too many: the oldest goes, with every mention of it.
Evicted(ts, ix) ==
    LET i == Oldest(ts) IN
    IF Cardinality(DOMAIN ts) > MaxKept
    THEN [tasks |-> Restrict(ts, DOMAIN ts \ {i}), index |-> [ix EXCEPT ![i[2]] = Unlisted(@, i)]]
    ELSE [tasks |-> ts, index |-> ix]

\* A run in the second of the last one or a later one.
RecordTask(o, c, success, later) ==
    LET n == Len(runs) + 1
        second == (IF runs = <<>> THEN 0 ELSE Last(runs).second) + later
        i == <<second, o>>
        kept == Evicted([j \in DOMAIN tasks \cup {i} |-> IF j = i THEN n ELSE tasks[j]],
                        [index EXCEPT ![o] = Append(@, i)])
    IN
    /\ at = "idle" /\ n <= MaxRuns
    /\ runs' = Append(runs, [order |-> o, second |-> second, cause |-> c, success |-> success])
    /\ tasks' = kept.tasks /\ index' = kept.index
    /\ at' = "recorded"
    /\ UNCHANGED <<learned, disk, history, starts, failures>>

-----------------------------------------------------------------------------
(* _save, of either file: emptied, then written.  Whatever raises is passed over. *)

Open(from, to) ==
    /\ at = from /\ at' = to
    /\ UNCHANGED <<runs, memory, log, history, starts, failures>>
OpenTasks == Open("recorded", "tasks open") /\ taskFile' = Torn /\ UNCHANGED lessonFile
OpenLessons == Open("learned", "lessons open") /\ lessonFile' = Torn /\ UNCHANGED taskFile

Dump(from, to, name) ==
    /\ at = from /\ at' = to
    /\ stale' = stale \ {name}
    /\ UNCHANGED <<runs, memory, log, lost, unlearned, starts, failures>>
DumpTasks ==
    /\ Dump("tasks open", "remembered", "tasks")
    /\ taskFile' = Whole([tasks |-> tasks, index |-> index]) /\ UNCHANGED lessonFile
DumpLessons ==
    /\ Dump("lessons open", "taught", "lessons")
    /\ lessonFile' = Whole(learned) /\ UNCHANGED taskFile

\* open() raises and the file stays what it was, or dump() raises and it stays torn.
SaveFails(from, to, name) ==
    /\ at = from /\ at' = to /\ failures < MaxFailedSaves
    /\ failures' = failures + 1 /\ stale' = stale \cup {name}
    /\ UNCHANGED <<runs, memory, disk, lost, unlearned, starts>>
SaveTasksFails ==
    SaveFails("recorded", "remembered", "tasks") \/ SaveFails("tasks open", "remembered", "tasks")
SaveLessonsFails ==
    SaveFails("learned", "taught", "lessons") \/ SaveFails("lessons open", "taught", "lessons")

-----------------------------------------------------------------------------
(* ExperienceRepository.learn, and the log. *)

Learn ==
    /\ at = "remembered"
    /\ IF Last(runs).success
       THEN learned' = [learned EXCEPT ![Last(runs).cause] = @ + 1] /\ at' = "learned"
       ELSE learned' = learned /\ at' = "taught"
    /\ UNCHANGED <<runs, tasks, index, disk, history, starts, failures>>

\* ColdStore.append; files older than thirty days are not met.
LogTask ==
    /\ at = "taught" /\ at' = "idle"
    /\ log' = Append(log, Len(runs))
    /\ UNCHANGED <<runs, memory, taskFile, lessonFile, history, starts, failures>>

RunTask ==
    \/ \E o \in Orders, c \in Causes, success \in BOOLEAN, later \in {0, 1} :
          RecordTask(o, c, success, later)
    \/ OpenTasks \/ DumpTasks \/ SaveTasksFails
    \/ Learn \/ OpenLessons \/ DumpLessons \/ SaveLessonsFails
    \/ LogTask

Next == Start \/ Crash \/ RunTask

Spec == Init /\ [][Next]_vars

-----------------------------------------------------------------------------
(* Properties. *)

Logged == ToSet(log)
Held == {tasks[i] : i \in DOMAIN tasks}
Listed(o) == ToSet(index[o])

\* What the index lists and what the store holds are the same tasks, each under its own
\* order, through runs that share an id, evictions and restarts.
IndexAgrees ==
    \A o \in Orders : Listed(o) = {i \in DOMAIN tasks : i[2] = o}

Overwritten(n) == \E m \in Held : m > n /\ Id(m) = Id(n)
CrowdedOut(n) == Cardinality(Held) = MaxKept /\ \A m \in Held : m > n
Lessons(S, c) == Cardinality({n \in S : runs[n].success /\ runs[n].cause = c})

\* A process that is up remembers each run that the log has, unless a later run of the
\* same second took its id, newer ones crowded it out, or a file was torn or not written;
\* and it has learned at least from each success logged since then, and from none twice.
HistoryKept ==
    at # "down" =>
        /\ \A n \in Logged : n <= lost \/ n \in Held \/ Overwritten(n) \/ CrowdedOut(n)
        /\ \A c \in Causes :
              /\ Lessons({n \in Logged : n > unlearned}, c) <= learned[c]
              /\ learned[c] <= Lessons(DOMAIN runs, c)
=============================================================================

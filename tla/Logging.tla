------------------------------ MODULE Logging ------------------------------
(***************************************************************************)
(* The logging component: threads that log records through Logger::Log,    *)
(* and the sinks, each with its mutex and level.                           *)
(*                                                                         *)
(* The destructor of LogRecordProxy walks over the sinks in their order;   *)
(* it locks each one, pushes the record into it, and keeps every lock      *)
(* until it is through.  Two threads are never both past the first sink,   *)
(* which makes the order of the records the same in all sinks.  The sinks  *)
(* are set up before any thread logs (MainApp's SetUpLoggingOrDie) and     *)
(* formatting is left out, but for the time: Logger::Log takes it from the *)
(* structure that localtime returns, and there is one for all threads.     *)
(***************************************************************************)
EXTENDS Naturals, Sequences, SequencesExt

CONSTANTS
    Threads,
    NumSinks,     \* the sinks are 1 to NumSinks, in the order of g_log_sinks
    SinkLevel,    \* SinkLevel[i]: the level of sink i
    LogLevels,    \* bound: the levels they log at
    MaxRecords    \* bound: records each thread logs

DEBUG == 0
FATAL == 4
Level == DEBUG..FATAL
Sinks == 1..NumSinks

ASSUME LoggingAssumption ==
    /\ NumSinks \in Nat \ {0}
    /\ SinkLevel \in [Sinks -> Level]
    /\ LogLevels \subseteq Level
    /\ MaxRecords \in Nat

VARIABLES
    rec,          \* rec[t]: the record that thread t logs, or last logged
    at,           \* at[t]: how many sinks rec[t] has been pushed into
    mode,         \* mode[t]: "idle", "stamp", "push", "unlock" or "thrown"
    tm,           \* the structure of localtime: who wrote it, for which record
    holder,       \* holder[i]: the threads that hold the mutex of sink i
    pushed,       \* pushed[i]: the records pushed into sink i
    stored        \* stored[i]: those of them that sink i has stored

vars == <<rec, at, mode, tm, holder, pushed, stored>>

\* The time at which a thread creates a record is named by the two.
Time == Threads \X (0..MaxRecords)
Record == [by : Threads, nr : 0..MaxRecords, level : Level, time : Time]

Init ==
    /\ rec = [t \in Threads |->
                 [by |-> t, nr |-> 0, level |-> DEBUG, time |-> <<t, 0>>]]
    /\ at = [t \in Threads |-> 0]
    /\ mode = [t \in Threads |-> "idle"]
    /\ tm \in Threads \X {0}
    /\ holder = [i \in Sinks |-> {}]
    /\ pushed = [i \in Sinks |-> << >>]
    /\ stored = [i \in Sinks |-> << >>]

\* Logger::Log up to localtime, which writes the shared structure.
Log(t, level) ==
    /\ mode[t] = "idle"
    /\ rec[t].nr < MaxRecords
    /\ rec' = [rec EXCEPT ![t].nr = @ + 1, ![t].level = level]
    /\ tm' = <<t, rec'[t].nr>>
    /\ at' = [at EXCEPT ![t] = 0]
    /\ mode' = [mode EXCEPT ![t] = "stamp"]
    /\ UNCHANGED <<holder, pushed, stored>>

\* strftime reads the structure, which another thread may have written
\* since, and the record is complete; its proxy is destroyed at once.
Stamp(t) ==
    /\ mode[t] = "stamp"
    /\ rec' = [rec EXCEPT ![t].time = tm]
    /\ mode' = [mode EXCEPT ![t] = "push"]
    /\ UNCHANGED <<at, tm, holder, pushed, stored>>

\* A sink stores the records that are not below its level.
PushRecord(i, r) ==
    /\ pushed' = [pushed EXCEPT ![i] = Append(@, r)]
    /\ stored' = [stored EXCEPT ![i] =
                     IF r.level >= SinkLevel[i] THEN Append(@, r) ELSE @]

\* A loop that unlocks a sink before it locks the next.
PushNext_HandOver(t) ==
    LET i == at[t] + 1 IN
    /\ mode[t] = "push"
    /\ i \in Sinks
    /\ holder[i] = {}
    /\ PushRecord(i, rec[t])
    /\ at' = [at EXCEPT ![t] = i]
    /\ UNCHANGED <<rec, mode, holder, tm>>

\* A loop that steps over every other sink, and past the last one.
PushNext_Skips(t) ==
    LET i == at[t] + 1 IN
    /\ mode[t] = "push"
    /\ i \in Sinks
    /\ holder[i] = {}
    /\ holder' = [holder EXCEPT ![i] = {t}]
    /\ PushRecord(i, rec[t])
    /\ at' = [at EXCEPT ![t] = i + 1]
    /\ UNCHANGED <<rec, mode, tm>>

\* One round of the destructor's loop: lock the next sink and push.
PushNext(t) ==
    LET i == at[t] + 1 IN
    /\ mode[t] = "push"
    /\ i \in Sinks
    /\ holder[i] = {}
    /\ holder' = [holder EXCEPT ![i] = {t}]
    /\ PushRecord(i, rec[t])
    /\ at' = [at EXCEPT ![t] = i]
    /\ UNCHANGED <<rec, mode, tm>>

\* A destructor that leaves with the exception before it pushed the record
\* into the remaining sinks.
Pushed_FatalFirst(t) ==
    /\ mode[t] = "push"
    /\ at[t] = NumSinks \/ (at[t] > 0 /\ rec[t].level = FATAL)
    /\ mode' = [mode EXCEPT ![t] = "unlock"]
    /\ UNCHANGED <<rec, at, holder, pushed, stored, tm>>

\* The loop is through: the locks are released, and then only the exception
\* of a FATAL record leaves the destructor.
Pushed(t) ==
    /\ mode[t] = "push"
    /\ at[t] = NumSinks
    /\ mode' = [mode EXCEPT ![t] = "unlock"]
    /\ UNCHANGED <<rec, at, holder, pushed, stored, tm>>

\* A guard that is lost on the way out keeps its sink locked.
Unlock_KeepsLast(t) ==
    /\ mode[t] = "unlock"
    /\ \E i \in Sinks :
          /\ t \in holder[i]
          /\ holder' = [holder EXCEPT ![i] = @ \ {t}, ![NumSinks] = {t}]
    /\ UNCHANGED <<rec, at, mode, pushed, stored, tm>>

Unlock(t) ==
    /\ mode[t] = "unlock"
    /\ \E i \in Sinks :
          /\ t \in holder[i]
          /\ holder' = [holder EXCEPT ![i] = @ \ {t}]
    /\ UNCHANGED <<rec, at, mode, pushed, stored, tm>>

Return(t) ==
    /\ mode[t] = "unlock"
    /\ \A i \in Sinks : t \notin holder[i]
    /\ mode' = [mode EXCEPT ![t] =
                   IF rec[t].level = FATAL THEN "thrown" ELSE "idle"]
    /\ UNCHANGED <<rec, at, holder, pushed, stored, tm>>

LogStep(t) == Stamp(t) \/ PushNext(t) \/ Pushed(t) \/ Unlock(t) \/ Return(t)

Next ==
    \E t \in Threads :
        \/ \E level \in LogLevels : Log(t, level)
        \/ LogStep(t)

Spec == Init /\ [][Next]_vars

\* A thread inside Log or the destructor runs, and gets a mutex that stays free.
FairSpec == Spec /\ \A t \in Threads : WF_vars(LogStep(t))

-----------------------------------------------------------------------------
(* Properties *)

\* Type correctness of the logging state.
TypeOK ==
    /\ rec \in [Threads -> Record]
    /\ at \in [Threads -> 0..NumSinks]
    /\ mode \in [Threads -> {"idle", "stamp", "push", "unlock", "thrown"}]
    /\ tm \in Time
    /\ holder \in [Sinks -> SUBSET Threads]
    /\ pushed \in [Sinks -> Seq(Record)]
    /\ stored \in [Sinks -> Seq(Record)]

\* "The incremental locking here ensures records are in the same order in all
\* sinks": at every moment what a later sink has been given is what an
\* earlier one has been given, but for the records still on their way.
SameOrder ==
    \A i, j \in Sinks : i < j => IsPrefix(pushed[j], pushed[i])

\* The same, of what the sinks store: two records that two sinks of any
\* levels both store are in the same order in both, and stored but once.
StoredInOrder ==
    \A i, j \in Sinks :
        \A m, n \in DOMAIN stored[i], p, q \in DOMAIN stored[j] :
            stored[i][m] = stored[j][p] /\ stored[i][n] = stored[j][q] =>
                (m < n => p < q)

\* A FATAL record is in every sink before its exception leaves the logger.
FatalIsLogged ==
    \A t \in Threads :
        mode[t] = "thrown" => \A i \in Sinks : rec[t] \in Range(stored[i])

\* No two threads wait for each other: whoever logs a record returns.
LogReturns ==
    \A t \in Threads : (mode[t] = "stamp") ~> (mode[t] \in {"idle", "thrown"})

-----------------------------------------------------------------------------
(* What a comment says and the code does not do *)

\* "`time` is the string representation of the local creation time of the
\* log": of this record, not of one that another thread creates meanwhile.
OwnTime ==
    \A i \in Sinks : \A r \in Range(pushed[i]) : r.time = <<r.by, r.nr>>
=============================================================================

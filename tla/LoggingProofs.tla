--------------------------- MODULE LoggingProofs ---------------------------
(***************************************************************************)
(* Proofs about Logging, for any number of threads, sinks and records, and *)
(* any levels of the sinks.                                                *)
(***************************************************************************)
EXTENDS Logging, SequenceTheorems, TLAPS

\* A mutex excludes, and the destructor of a record holds those of the sinks
\* it has been through until it is through with all.
LockInv ==
    /\ \A i \in Sinks : \A t, u \in holder[i] : t = u
    /\ \A t \in Threads, i \in Sinks :
          /\ mode[t] = "push" => (t \in holder[i] <=> i <= at[t])
          /\ mode[t] \in {"idle", "stamp", "thrown"} => t \notin holder[i]
    /\ \A t \in Threads :
          /\ mode[t] = "stamp" => at[t] = 0
          /\ mode[t] \in {"unlock", "thrown"} => at[t] = NumSinks

\* Whether the record of t has been pushed into sink i and not yet into j.
Between(t, i, j) == mode[t] = "push" /\ i <= at[t] /\ at[t] < j

\* An earlier sink is ahead of a later one by the record that is between them.
OrderInv ==
    \A i, j \in Sinks : i < j =>
        /\ (\A t \in Threads : ~Between(t, i, j)) => pushed[i] = pushed[j]
        /\ \A t \in Threads :
              Between(t, i, j) => pushed[i] = Append(pushed[j], rec[t])

\* Records are named by their thread and number; what a sink stores was
\* pushed into it and is not below its level.
MayBeIn(r, i) ==
    /\ r.level >= SinkLevel[i]
    /\ r.nr <= rec[r.by].nr
    /\ r.nr = rec[r.by].nr => mode[r.by] # "stamp" /\ i <= at[r.by]

NameInv ==
    /\ \A t \in Threads : rec[t].by = t
    /\ \A i \in Sinks : \A m \in DOMAIN stored[i] : MayBeIn(stored[i][m], i)

\* A record on its way is the last that the sinks behind it have stored, and
\* one that is through is in all sinks.
KeptInv ==
    \A t \in Threads, i \in Sinks :
        rec[t].level >= SinkLevel[i] =>
            /\ mode[t] = "push" /\ i <= at[t] =>
                  /\ stored[i] # << >>
                  /\ stored[i][Len(stored[i])] = rec[t]
            /\ mode[t] \in {"unlock", "thrown"} =>
                  \E m \in DOMAIN stored[i] : stored[i][m] = rec[t]

\* Only the exception of a FATAL record leaves the logger.
ThrownInv == \A t \in Threads : mode[t] = "thrown" => rec[t].level = FATAL

IInv ==
    /\ TypeOK
    /\ ThrownInv
    /\ LockInv
    /\ OrderInv
    /\ NameInv
    /\ KeptInv
    /\ StoredInOrder

-----------------------------------------------------------------------------

\* What PushRecord of a sink does to the records of the sinks.
LEMMA PushRecordEffect ==
    ASSUME TypeOK, NEW k \in Sinks, NEW r \in Record, PushRecord(k, r)
    PROVE  /\ pushed' \in [Sinks -> Seq(Record)]
           /\ stored' \in [Sinks -> Seq(Record)]
           /\ pushed'[k] = Append(pushed[k], r)
           /\ \A i \in Sinks \ {k} : pushed'[i] = pushed[i] /\ stored'[i] = stored[i]
           /\ r.level < SinkLevel[k] => stored'[k] = stored[k]
           /\ r.level >= SinkLevel[k] =>
                 /\ Len(stored'[k]) = Len(stored[k]) + 1
                 /\ stored'[k][Len(stored[k]) + 1] = r
                 /\ \A m \in 1..Len(stored[k]) : stored'[k][m] = stored[k][m]
<1>1. pushed \in [Sinks -> Seq(Record)] /\ stored \in [Sinks -> Seq(Record)]
  BY DEF TypeOK
<1>2. SinkLevel[k] \in Nat /\ r.level \in Nat
  BY LoggingAssumption DEF Level, Record, DEBUG, FATAL
<1>3. /\ Append(pushed[k], r) \in Seq(Record)
      /\ Append(stored[k], r) \in Seq(Record)
      /\ Len(Append(stored[k], r)) = Len(stored[k]) + 1
      /\ Append(stored[k], r)[Len(stored[k]) + 1] = r
      /\ \A m \in 1..Len(stored[k]) : Append(stored[k], r)[m] = stored[k][m]
  BY <1>1, AppendProperties
<1> QED  BY <1>1, <1>2, <1>3 DEF PushRecord

\* A sink keeps what it has stored, and adds at most the record pushed now.
LEMMA StoredAfter ==
    ASSUME TypeOK, NEW k \in Sinks, NEW r \in Record, PushRecord(k, r)
    PROVE  /\ \A i \in Sinks : \A m \in DOMAIN stored[i] :
                 m \in DOMAIN stored'[i] /\ stored'[i][m] = stored[i][m]
           /\ \A i \in Sinks : \A m \in DOMAIN stored'[i] :
                 \/ m \in DOMAIN stored[i] /\ stored'[i][m] = stored[i][m]
                 \/ /\ i = k /\ m = Len(stored[k]) + 1
                    /\ stored'[i][m] = r /\ r.level >= SinkLevel[k]
<1>1. \A i \in Sinks :
         /\ stored[i] \in Seq(Record) /\ stored'[i] \in Seq(Record)
         /\ DOMAIN stored[i] = 1..Len(stored[i]) /\ Len(stored[i]) \in Nat
         /\ DOMAIN stored'[i] = 1..Len(stored'[i])
  BY PushRecordEffect DEF TypeOK
<1>2. SinkLevel[k] \in Nat /\ r.level \in Nat
  BY LoggingAssumption DEF Level, Record, DEBUG, FATAL
<1>3. \A i \in Sinks \ {k} : stored'[i] = stored[i]
  BY PushRecordEffect
<1>4. CASE r.level < SinkLevel[k]
  <2>1. \A i \in Sinks : stored'[i] = stored[i]
    BY <1>3, <1>4, PushRecordEffect
  <2> QED  BY <2>1
<1>5. CASE r.level >= SinkLevel[k]
  <2>1. /\ Len(stored'[k]) = Len(stored[k]) + 1
        /\ stored'[k][Len(stored[k]) + 1] = r
        /\ \A m \in 1..Len(stored[k]) : stored'[k][m] = stored[k][m]
    BY <1>5, PushRecordEffect
  <2>2. DOMAIN stored'[k] = 1..(Len(stored[k]) + 1)
    BY <1>1, <2>1
  <2>3. \A m : m \in DOMAIN stored'[k] <=>
                   m \in DOMAIN stored[k] \/ m = Len(stored[k]) + 1
    BY <1>1, <2>2
  <2>4. \A m \in DOMAIN stored[k] : stored'[k][m] = stored[k][m]
    BY <1>1, <2>1
  <2> QED  BY <1>3, <1>5, <2>1, <2>3, <2>4
<1> QED  BY <1>2, <1>4, <1>5

\* What is left of Logger::Log when the level does not matter: the record is
\* new, and its thread is about to complete it.
LogEffect(t) ==
    /\ mode[t] = "idle"
    /\ rec' \in [Threads -> Record]
    /\ rec'[t].nr = rec[t].nr + 1 /\ rec'[t].by = rec[t].by
    /\ \A u \in Threads \ {t} : rec'[u] = rec[u]
    /\ tm' = <<t, rec'[t].nr>>
    /\ at' = [at EXCEPT ![t] = 0]
    /\ mode' = [mode EXCEPT ![t] = "stamp"]
    /\ holder' = holder /\ pushed' = pushed /\ stored' = stored

\* Log does just that.
LEMMA LogEffects ==
    ASSUME TypeOK, NEW t \in Threads, NEW level \in LogLevels, Log(t, level)
    PROVE  LogEffect(t)
<1>1. MaxRecords \in Nat /\ level \in Level
  BY LoggingAssumption
<1>2. rec[t] \in Record /\ rec \in [Threads -> Record]
  BY DEF TypeOK
<1>3. rec[t].nr + 1 \in 0..MaxRecords
  BY <1>1, <1>2 DEF Log, Record
<1>4. /\ rec' \in [Threads -> Record]
      /\ rec'[t].nr = rec[t].nr + 1 /\ rec'[t].by = rec[t].by
      /\ \A u \in Threads \ {t} : rec'[u] = rec[u]
  BY <1>1, <1>2, <1>3 DEF Log, Record
<1>5. /\ mode[t] = "idle"
      /\ tm' = <<t, rec'[t].nr>>
      /\ at' = [at EXCEPT ![t] = 0]
      /\ mode' = [mode EXCEPT ![t] = "stamp"]
      /\ holder' = holder /\ pushed' = pushed /\ stored' = stored
  BY DEF Log
<1> QED  BY <1>4, <1>5 DEF LogEffect

\* The state in which no thread has logged satisfies the invariant.
LEMMA InitIInv == Init => IInv
<1> SUFFICES ASSUME Init PROVE IInv
  OBVIOUS
<1>1. TypeOK
  <2>1. NumSinks \in Nat /\ MaxRecords \in Nat /\ 0 \in 0..MaxRecords
    BY LoggingAssumption
  <2>2. \A t \in Threads : <<t, 0>> \in Time
    BY <2>1 DEF Time
  <2>3. rec \in [Threads -> Record]
    BY <2>1, <2>2 DEF Init, Record, Level, DEBUG, FATAL
  <2>4. tm \in Time
    BY <2>1 DEF Init, Time
  <2> QED  BY <2>1, <2>3, <2>4 DEF Init, TypeOK
<1>2. LockInv
  BY DEF Init, LockInv
<1>3. OrderInv
  BY DEF Init, OrderInv, Between
<1>4. NameInv
  BY DEF Init, NameInv
<1>5. KeptInv
  BY DEF Init, KeptInv
<1>6. StoredInOrder /\ ThrownInv
  BY DEF Init, StoredInOrder, ThrownInv
<1> QED  BY <1>1, <1>2, <1>3, <1>4, <1>5, <1>6 DEF IInv

\* Every step preserves typing.
LEMMA StepTypeOK ==
    ASSUME TypeOK, NEW t \in Threads,
           LogStep(t) \/ \E level \in LogLevels : Log(t, level)
    PROVE  TypeOK'
<1>a. NumSinks \in Nat /\ MaxRecords \in Nat /\ LogLevels \subseteq Level
  BY LoggingAssumption
<1>b. rec[t] \in Record
  BY DEF TypeOK
<1>1. ASSUME NEW level \in LogLevels, Log(t, level) PROVE TypeOK'
  <2>1. LogEffect(t)
    BY <1>1, LogEffects
  <2>2. tm' \in Time
    BY <2>1 DEF LogEffect, Time, Record
  <2>3. at' \in [Threads -> 0..NumSinks]
    BY <1>a, <2>1 DEF LogEffect, TypeOK
  <2> QED  BY <2>1, <2>2, <2>3 DEF LogEffect, TypeOK
<1>2. CASE Stamp(t)
  <2>1. rec' \in [Threads -> Record]
    BY <1>b, <1>2 DEF Stamp, TypeOK, Record
  <2> QED  BY <1>2, <2>1 DEF Stamp, TypeOK
<1>3. CASE PushNext(t)
  <2>1. PushRecord(at[t] + 1, rec[t]) /\ at[t] + 1 \in Sinks
    BY <1>3 DEF PushNext
  <2>2. pushed' \in [Sinks -> Seq(Record)] /\ stored' \in [Sinks -> Seq(Record)]
    BY <1>b, <2>1, PushRecordEffect
  <2>3. at' \in [Threads -> 0..NumSinks]
    BY <1>a, <1>3 DEF PushNext, TypeOK, Sinks
  <2> QED  BY <1>3, <2>2, <2>3 DEF PushNext, TypeOK
<1>4. CASE Pushed(t)
  BY <1>4 DEF Pushed, TypeOK
<1>5. CASE Unlock(t)
  BY <1>5 DEF Unlock, TypeOK
<1>6. CASE Return(t)
  BY <1>6 DEF Return, TypeOK
<1> QED  BY <1>1, <1>2, <1>3, <1>4, <1>5, <1>6 DEF LogStep

\* Every step preserves what is thrown.
LEMMA StepThrownInv ==
    ASSUME TypeOK, ThrownInv, NEW t \in Threads,
           LogStep(t) \/ \E level \in LogLevels : Log(t, level)
    PROVE  ThrownInv'
<1>1. ASSUME NEW level \in LogLevels, Log(t, level) PROVE ThrownInv'
  <2>1. LogEffect(t)
    BY <1>1, LogEffects
  <2> QED  BY <2>1 DEF LogEffect, TypeOK, ThrownInv
<1>2. CASE Stamp(t)
  BY <1>2 DEF Stamp, TypeOK, ThrownInv
<1>3. CASE PushNext(t) \/ Pushed(t) \/ Unlock(t)
  BY <1>3 DEF PushNext, Pushed, Unlock, TypeOK, ThrownInv
<1>4. CASE Return(t)
  BY <1>4 DEF Return, TypeOK, ThrownInv
<1> QED  BY <1>1, <1>2, <1>3, <1>4 DEF LogStep

\* Every step keeps the mutexes and the progress of the records together.
LEMMA StepLockInv ==
    ASSUME TypeOK, LockInv, NEW t \in Threads,
           LogStep(t) \/ \E level \in LogLevels : Log(t, level)
    PROVE  LockInv'
<1>a. NumSinks \in Nat /\ Sinks \subseteq Nat
  BY LoggingAssumption DEF Sinks
<1>b. at \in [Threads -> 0..NumSinks]
  BY DEF TypeOK
<1> USE DEF LockInv
<1>1. ASSUME NEW level \in LogLevels, Log(t, level) PROVE LockInv'
  <2>1. LogEffect(t)
    BY <1>1, LogEffects
  <2> QED  BY <2>1 DEF LogEffect, TypeOK
<1>2. CASE Stamp(t)
  <2>1. \A i \in Sinks : t \notin holder[i] /\ ~(i <= at[t])
    BY <1>a, <1>2 DEF Stamp, Sinks
  <2> QED  BY <1>2, <2>1 DEF Stamp, TypeOK
<1>3. CASE PushNext(t)
  BY <1>a, <1>b, <1>3 DEF PushNext, TypeOK
<1>4. CASE Pushed(t)
  BY <1>4 DEF Pushed, TypeOK
<1>5. CASE Unlock(t)
  BY <1>5 DEF Unlock, TypeOK
<1>6. CASE Return(t)
  BY <1>6 DEF Return, TypeOK
<1> QED  BY <1>1, <1>2, <1>3, <1>4, <1>5, <1>6 DEF LogStep

\* A thread that pushes into a sink does so alone: whoever else has pushed its
\* record into a sink and is not through would hold the first one.
LEMMA Alone ==
    ASSUME TypeOK, LockInv, NEW t \in Threads, PushNext(t),
           NEW u \in Threads \ {t}, mode[u] = "push"
    PROVE  at[u] = 0
<1>1. /\ NumSinks \in Nat \ {0} /\ 1 \in Sinks
      /\ at[u] \in 0..NumSinks /\ at[t] \in 0..NumSinks
  BY LoggingAssumption DEF Sinks, TypeOK
<1> SUFFICES ASSUME at[u] # 0 PROVE FALSE
  OBVIOUS
<1>2. u \in holder[1]
  BY <1>1 DEF LockInv
<1>3. CASE at[t] = 0
  BY <1>1, <1>2, <1>3 DEF PushNext
<1>4. CASE at[t] # 0
  <2>1. t \in holder[1]
    BY <1>1, <1>4 DEF LockInv, PushNext
  <2> QED  BY <1>1, <1>2, <2>1 DEF LockInv
<1> QED  BY <1>3, <1>4

\* Every step keeps the sinks in line with each other.
LEMMA StepOrderInv ==
    ASSUME IInv, NEW t \in Threads,
           LogStep(t) \/ \E level \in LogLevels : Log(t, level)
    PROVE  OrderInv'
<1>a. /\ TypeOK /\ LockInv /\ OrderInv
      /\ NumSinks \in Nat /\ Sinks = 1..NumSinks
      /\ at \in [Threads -> 0..NumSinks]
      /\ mode \in [Threads -> {"idle", "stamp", "push", "unlock", "thrown"}]
  BY LoggingAssumption DEF IInv, TypeOK, Sinks
<1>1. ASSUME pushed' = pushed,
             \A u \in Threads :
                 mode'[u] # "push" \/ at'[u] = 0 \/ rec'[u] = rec[u],
             \A u \in Threads, i, j \in Sinks : Between(u, i, j)' <=> Between(u, i, j)
      PROVE  OrderInv'
  <2>1. \A u \in Threads, i, j \in Sinks : Between(u, i, j)' => rec'[u] = rec[u]
    BY <1>a, <1>1 DEF Between
  <2> QED  BY <1>a, <1>1, <2>1 DEF OrderInv
<1>2. ASSUME NEW level \in LogLevels, Log(t, level) PROVE OrderInv'
  <2>1. LogEffect(t)
    BY <1>a, <1>2, LogEffects
  <2> QED  BY <1>a, <1>1, <2>1 DEF LogEffect, Between
<1>3. CASE Stamp(t)
  <2>1. at[t] = 0
    BY <1>a, <1>3 DEF Stamp, LockInv
  <2> QED  BY <1>a, <1>1, <1>3, <2>1 DEF Stamp, Between
<1>4. CASE PushNext(t)
  <2> DEFINE k == at[t] + 1
  <2>1. k \in Sinks /\ rec[t] \in Record /\ PushRecord(k, rec[t])
    BY <1>a, <1>4 DEF PushNext, TypeOK
  <2>2. /\ pushed'[k] = Append(pushed[k], rec[t])
        /\ \A i \in Sinks \ {k} : pushed'[i] = pushed[i]
    <3> HIDE DEF k
    <3> QED  BY <1>a, <2>1, PushRecordEffect
  <2>3. \A u \in Threads \ {t} : mode[u] = "push" => at[u] = 0
    BY <1>a, <1>4, Alone
  <2>4. /\ mode' = mode /\ rec' = rec /\ mode[t] = "push"
        /\ at' = [at EXCEPT ![t] = k]
    BY <1>4 DEF PushNext
  <2>5. \A i, j \in Sinks :
           /\ \A u \in Threads \ {t} : ~Between(u, i, j) /\ ~Between(u, i, j)'
           /\ Between(t, i, j) <=> i < k /\ k <= j
           /\ Between(t, i, j)' <=> i <= k /\ k < j
    <3> HIDE DEF k
    <3>1. k = at[t] + 1
      BY DEF k
    <3> QED  BY <1>a, <2>3, <2>4, <3>1 DEF Between
  <2>6. \A i, j \in Sinks : i < j =>
           /\ (i < k /\ k <= j) => pushed[i] = Append(pushed[j], rec[t])
           /\ ~(i < k /\ k <= j) => pushed[i] = pushed[j]
    BY <1>a, <2>5 DEF OrderInv
  <2>7. ASSUME NEW i \in Sinks, NEW j \in Sinks, i < j
        PROVE  /\ (i <= k /\ k < j) => pushed'[i] = Append(pushed'[j], rec[t])
               /\ ~(i <= k /\ k < j) => pushed'[i] = pushed'[j]
    <3> HIDE DEF k
    <3>1. i \in Nat /\ j \in Nat /\ k \in Nat
      BY <1>a, <2>1
    <3>2. CASE i = k
      BY <2>2, <2>6, <2>7, <3>1, <3>2
    <3>3. CASE j = k
      BY <2>2, <2>6, <2>7, <3>1, <3>3, SMTT(30)
    <3>4. CASE i # k /\ j # k
      <4>1. (i <= k /\ k < j) <=> (i < k /\ k <= j)
        BY <3>1, <3>4
      <4>2. pushed'[i] = pushed[i] /\ pushed'[j] = pushed[j]
        BY <2>2, <3>4
      <4> QED  BY <2>6, <2>7, <4>1, <4>2
    <3> QED  BY <3>2, <3>3, <3>4
  <2> QED
    <3> HIDE DEF k
    <3> QED  BY <2>4, <2>5, <2>7 DEF OrderInv
<1>5. CASE Pushed(t)
  <2>1. at[t] = NumSinks
    BY <1>5 DEF Pushed
  <2> QED  BY <1>a, <1>1, <1>5, <2>1 DEF Pushed, Between
<1>6. CASE Unlock(t)
  BY <1>1, <1>6 DEF Unlock, Between
<1>7. CASE Return(t)
  BY <1>a, <1>1, <1>7 DEF Return, Between
<1> QED  BY <1>2, <1>3, <1>4, <1>5, <1>6, <1>7 DEF LogStep

\* Every step keeps the names of the records and what is known of the stored.
LEMMA StepNameInv ==
    ASSUME IInv, NEW t \in Threads,
           LogStep(t) \/ \E level \in LogLevels : Log(t, level)
    PROVE  NameInv'
<1>a. /\ TypeOK /\ LockInv /\ NameInv
      /\ NumSinks \in Nat /\ Sinks = 1..NumSinks
      /\ SinkLevel \in [Sinks -> Level] /\ Level \subseteq Nat
      /\ rec \in [Threads -> Record]
      /\ at \in [Threads -> 0..NumSinks]
      /\ mode \in [Threads -> {"idle", "stamp", "push", "unlock", "thrown"}]
      /\ stored \in [Sinks -> Seq(Record)]
  BY LoggingAssumption DEF IInv, TypeOK, Sinks, Level, DEBUG, FATAL
<1>b. \A r \in Record : r.nr \in Nat /\ r.level \in Nat /\ r.by \in Threads
  <2>1. MaxRecords \in Nat /\ 0..MaxRecords \subseteq Nat
    BY LoggingAssumption
  <2> QED  BY <1>a, <2>1 DEF Record
<1>c. \A i \in Sinks : \A m \in DOMAIN stored[i] : stored[i][m] \in Record
  BY <1>a
<1>d. ASSUME stored' = stored,
             \A u \in Threads : rec'[u].by = rec[u].by,
             \A r \in Record, i \in Sinks : MayBeIn(r, i) => MayBeIn(r, i)'
      PROVE  NameInv'
  BY <1>a, <1>c, <1>d DEF NameInv
<1>1. ASSUME NEW level \in LogLevels, Log(t, level) PROVE NameInv'
  <2>1. LogEffect(t)
    BY <1>a, <1>1, LogEffects
  <2>2. ASSUME NEW r \in Record, NEW i \in Sinks, MayBeIn(r, i)
        PROVE  MayBeIn(r, i)'
    <3>1. CASE r.by = t
      <4>1. rec'[t].nr = rec[t].nr + 1 /\ rec[t].nr \in Nat /\ r.nr \in Nat
        BY <1>a, <1>b, <2>1 DEF LogEffect
      <4> QED  BY <2>2, <3>1, <4>1 DEF MayBeIn
    <3>2. CASE r.by # t
      <4>1. /\ rec'[r.by] = rec[r.by] /\ at'[r.by] = at[r.by]
            /\ mode'[r.by] = mode[r.by]
        BY <1>a, <1>b, <2>1, <3>2 DEF LogEffect
      <4> QED  BY <2>2, <4>1 DEF MayBeIn
    <3> QED  BY <3>1, <3>2
  <2>3. stored' = stored /\ \A u \in Threads : rec'[u].by = rec[u].by
    BY <2>1 DEF LogEffect
  <2> QED  BY <1>d, <2>2, <2>3
<1>2. CASE Stamp(t)
  <2>1. /\ rec'[t].by = rec[t].by /\ rec'[t].nr = rec[t].nr
        /\ \A u \in Threads \ {t} : rec'[u] = rec[u]
    BY <1>a, <1>2 DEF Stamp, Record
  <2>2. /\ mode' = [mode EXCEPT ![t] = "push"] /\ mode[t] = "stamp"
        /\ at' = at /\ stored' = stored
    BY <1>2 DEF Stamp
  <2>3. \A r \in Record, i \in Sinks : MayBeIn(r, i) => MayBeIn(r, i)'
    BY <1>a, <1>b, <2>1, <2>2 DEF MayBeIn
  <2>4. \A u \in Threads : rec'[u].by = rec[u].by
    BY <2>1
  <2> QED  BY <1>d, <2>2, <2>3, <2>4
<1>3. CASE PushNext(t)
  <2>1. PICK k \in Sinks : k = at[t] + 1 /\ PushRecord(k, rec[t])
    BY <1>3 DEF PushNext
  <2>2. /\ mode' = mode /\ rec' = rec /\ mode[t] = "push"
        /\ at' = [at EXCEPT ![t] = k]
    BY <1>3, <2>1 DEF PushNext
  <2>4. \A i \in Sinks : \A m \in DOMAIN stored'[i] :
           \/ m \in DOMAIN stored[i] /\ stored'[i][m] = stored[i][m]
           \/ i = k /\ stored'[i][m] = rec[t] /\ rec[t].level >= SinkLevel[k]
    BY <1>a, <2>1, StoredAfter
  <2>5. at[t] < k
    BY <1>a, <2>1
  <2>6. \A u \in Threads : at[u] \in Nat /\ at'[u] \in Nat /\ at[u] <= at'[u]
    BY <1>a, <2>1, <2>2, <2>5
  <2>7. \A r \in Record, i \in Sinks : MayBeIn(r, i) => MayBeIn(r, i)'
    BY <1>a, <1>b, <2>2, <2>6 DEF MayBeIn
  <2>8. rec[t].level >= SinkLevel[k] => MayBeIn(rec[t], k)'
    BY <1>a, <1>b, <2>1, <2>2 DEF MayBeIn, NameInv
  <2>9. ASSUME NEW i \in Sinks, NEW m \in DOMAIN stored'[i]
        PROVE  MayBeIn(stored[i][m], i)'
    <3>1. CASE m \in DOMAIN stored[i] /\ stored'[i][m] = stored[i][m]
      BY <1>a, <1>c, <2>7, <3>1 DEF NameInv
    <3>2. CASE i = k /\ stored'[i][m] = rec[t] /\ rec[t].level >= SinkLevel[k]
      BY <2>2, <2>8, <3>2
    <3> QED  BY <2>4, <3>1, <3>2
  <2> QED  BY <1>a, <2>2, <2>9 DEF NameInv
<1>4. CASE Pushed(t) \/ Unlock(t) \/ Return(t)
  <2>1. /\ stored' = stored /\ rec' = rec /\ at' = at
        /\ \A u \in Threads : mode'[u] = "stamp" => mode[u] = "stamp"
    BY <1>a, <1>4 DEF Pushed, Unlock, Return
  <2>2. \A r \in Record, i \in Sinks : MayBeIn(r, i) => MayBeIn(r, i)'
    BY <1>a, <1>b, <2>1 DEF MayBeIn
  <2> QED  BY <1>d, <2>1, <2>2
<1> QED  BY <1>1, <1>2, <1>3, <1>4 DEF LogStep

\* Every step keeps the records on their way, and those that are through, in
\* the sinks.
LEMMA StepKeptInv ==
    ASSUME IInv, NEW t \in Threads,
           LogStep(t) \/ \E level \in LogLevels : Log(t, level)
    PROVE  KeptInv'
<1>a. /\ TypeOK /\ LockInv /\ KeptInv
      /\ NumSinks \in Nat /\ Sinks = 1..NumSinks
      /\ at \in [Threads -> 0..NumSinks]
      /\ mode \in [Threads -> {"idle", "stamp", "push", "unlock", "thrown"}]
      /\ stored \in [Sinks -> Seq(Record)]
  BY LoggingAssumption DEF IInv, TypeOK, Sinks
<1>b. \A i \in Sinks : DOMAIN stored[i] = 1..Len(stored[i]) /\ Len(stored[i]) \in Nat
  BY <1>a
<1>1. ASSUME NEW level \in LogLevels, Log(t, level) PROVE KeptInv'
  <2>1. LogEffect(t)
    BY <1>a, <1>1, LogEffects
  <2>2. ASSUME NEW u \in Threads, mode'[u] # "stamp"
        PROVE  mode'[u] = mode[u] /\ rec'[u] = rec[u] /\ at'[u] = at[u]
    BY <1>a, <2>1, <2>2 DEF LogEffect
  <2>3. stored' = stored
    BY <2>1 DEF LogEffect
  <2> QED  BY <1>a, <2>2, <2>3 DEF KeptInv
<1>2. CASE Stamp(t)
  <2>1. /\ mode'[t] = "push" /\ at'[t] = 0 /\ stored' = stored
        /\ \A u \in Threads \ {t} :
              mode'[u] = mode[u] /\ rec'[u] = rec[u] /\ at'[u] = at[u]
    BY <1>a, <1>2 DEF Stamp, LockInv
  <2>2. \A i \in Sinks : ~(i <= 0)
    BY <1>a
  <2>3. ASSUME NEW u \in Threads, NEW i \in Sinks, rec'[u].level >= SinkLevel[i]
        PROVE  /\ mode'[u] = "push" /\ i <= at'[u] =>
                     stored[i] # << >> /\ stored[i][Len(stored[i])] = rec'[u]
               /\ mode'[u] \in {"unlock", "thrown"} =>
                     \E m \in DOMAIN stored[i] : stored[i][m] = rec'[u]
    <3>1. CASE u = t
      BY <2>1, <2>2, <3>1
    <3>2. CASE u # t
      <4>1. mode'[u] = mode[u] /\ rec'[u] = rec[u] /\ at'[u] = at[u]
        BY <2>1, <3>2
      <4> QED  BY <1>a, <2>3, <4>1 DEF KeptInv
    <3> QED  BY <3>1, <3>2
  <2> QED  BY <2>1, <2>3 DEF KeptInv
<1>3. CASE PushNext(t)
  <2>1. PICK k \in Sinks : k = at[t] + 1 /\ PushRecord(k, rec[t])
    BY <1>3 DEF PushNext
  <2>2. /\ mode' = mode /\ rec' = rec /\ mode[t] = "push"
        /\ at' = [at EXCEPT ![t] = k]
    BY <1>3, <2>1 DEF PushNext
  <2>3. rec[t] \in Record
    BY <1>a DEF TypeOK
  <2>4. \A i \in Sinks : \A m \in DOMAIN stored[i] :
           m \in DOMAIN stored'[i] /\ stored'[i][m] = stored[i][m]
    BY <1>a, <2>1, <2>3, StoredAfter
  <2>5. \A i \in Sinks \ {k} : stored'[i] = stored[i]
    BY <1>a, <2>1, <2>3, PushRecordEffect
  <2>6. ASSUME rec[t].level >= SinkLevel[k]
        PROVE  stored'[k] # << >> /\ stored'[k][Len(stored'[k])] = rec[t]
    <3>1. /\ stored'[k] \in Seq(Record)
          /\ Len(stored'[k]) = Len(stored[k]) + 1
          /\ stored'[k][Len(stored[k]) + 1] = rec[t]
      BY <1>a, <2>1, <2>3, <2>6, PushRecordEffect, SMTT(30)
    <3>2. Len(stored'[k]) # 0
      BY <1>b, <3>1
    <3> QED  BY <3>1, <3>2
  <2>7. ASSUME NEW u \in Threads, NEW i \in Sinks, rec[u].level >= SinkLevel[i]
        PROVE  /\ mode[u] = "push" /\ i <= at'[u] =>
                     stored'[i] # << >> /\ stored'[i][Len(stored'[i])] = rec[u]
               /\ mode[u] \in {"unlock", "thrown"} =>
                     \E m \in DOMAIN stored'[i] : stored'[i][m] = rec[u]
    <3>1. mode[u] \in {"unlock", "thrown"} =>
             \E m \in DOMAIN stored'[i] : stored'[i][m] = rec[u]
      BY <1>a, <2>4, <2>7 DEF KeptInv
    <3>2. ASSUME mode[u] = "push", i <= at'[u]
          PROVE  stored'[i] # << >> /\ stored'[i][Len(stored'[i])] = rec[u]
      <4>1. CASE u = t /\ i = k
        BY <2>6, <2>7, <4>1
      <4>2. CASE u = t /\ i # k
        <5>1. i <= at[t]
          BY <1>a, <2>1, <2>2, <3>2, <4>2
        <5> QED  BY <1>a, <2>2, <2>5, <2>7, <4>2, <5>1 DEF KeptInv
      <4>3. CASE u # t
        <5>1. at'[u] = 0
          BY <1>a, <1>3, <2>2, <3>2, <4>3, Alone
        <5> QED  BY <1>a, <3>2, <5>1
      <4> QED  BY <4>1, <4>2, <4>3
    <3> QED  BY <3>1, <3>2
  <2> QED  BY <2>2, <2>7 DEF KeptInv
<1>4. CASE Pushed(t)
  <2>1. /\ at[t] = NumSinks /\ mode[t] = "push" /\ mode' = [mode EXCEPT ![t] = "unlock"]
        /\ stored' = stored /\ rec' = rec /\ at' = at
    BY <1>4 DEF Pushed
  <2>2. ASSUME NEW i \in Sinks, rec[t].level >= SinkLevel[i]
        PROVE  \E m \in DOMAIN stored[i] : stored[i][m] = rec[t]
    <3>1. stored[i] # << >> /\ stored[i][Len(stored[i])] = rec[t]
      <4>1. i <= at[t]
        BY <1>a, <2>1
      <4> QED  BY <1>a, <2>1, <2>2, <4>1 DEF KeptInv
    <3>2. Len(stored[i]) \in DOMAIN stored[i]
      BY <1>a, <3>1
    <3> QED  BY <3>1, <3>2
  <2> QED  BY <1>a, <2>1, <2>2 DEF KeptInv
<1>5. CASE Unlock(t)
  <2>1. stored' = stored /\ rec' = rec /\ at' = at /\ mode' = mode
    BY <1>5 DEF Unlock
  <2> QED  BY <1>a, <2>1 DEF KeptInv
<1>6. CASE Return(t)
  <2>1. /\ stored' = stored /\ rec' = rec /\ at' = at /\ mode[t] = "unlock"
        /\ \A u \in Threads \ {t} : mode'[u] = mode[u]
        /\ mode'[t] \in {"idle", "thrown"}
    BY <1>a, <1>6 DEF Return
  <2> QED  BY <1>a, <2>1, ZenonT(30) DEF KeptInv
<1> QED  BY <1>1, <1>2, <1>3, <1>4, <1>5, <1>6 DEF LogStep

\* Where the record that t is about to push into sink k is stored: nowhere from
\* sink k on, and at the end of a sink before it.
LEMMA WhereStored ==
    ASSUME IInv, NEW t \in Threads, mode[t] = "push",
           NEW k \in Sinks, k = at[t] + 1,
           NEW i \in Sinks, NEW m \in DOMAIN stored[i], stored[i][m] = rec[t]
    PROVE  i < k /\ m = Len(stored[i])
<1>1. /\ NumSinks \in Nat /\ Sinks = 1..NumSinks
      /\ at[t] \in Nat /\ i \in Nat /\ k \in Nat
      /\ SinkLevel[i] \in Nat
      /\ stored[i] \in Seq(Record)
  <2>1. NumSinks \in Nat /\ SinkLevel \in [Sinks -> Level] /\ Level \subseteq Nat
    BY LoggingAssumption DEF Level, DEBUG, FATAL
  <2>2. at[t] \in 0..NumSinks /\ stored[i] \in Seq(Record)
    BY DEF IInv, TypeOK
  <2>3. SinkLevel[i] \in Nat
    BY <2>1
  <2>4. Sinks = 1..NumSinks /\ i \in Nat /\ k \in Nat
    BY <2>1 DEF Sinks
  <2> QED  BY <2>1, <2>2, <2>3, <2>4
<1>2. rec[t].by = t /\ MayBeIn(rec[t], i)
  BY DEF IInv, NameInv
<1>3. i <= at[t] /\ rec[t].level >= SinkLevel[i]
  BY <1>2 DEF MayBeIn
<1>4. stored[i][Len(stored[i])] = rec[t]
  BY <1>3 DEF IInv, KeptInv
<1>5. /\ DOMAIN stored[i] = 1..Len(stored[i]) /\ Len(stored[i]) \in Nat
      /\ Len(stored[i]) \in DOMAIN stored[i] /\ m <= Len(stored[i]) /\ m \in Nat
  BY <1>1
<1>6. ~(m < Len(stored[i]))
  <2> SUFFICES ASSUME m < Len(stored[i]) PROVE FALSE
    OBVIOUS
  <2>1. Len(stored[i]) < m
    BY <1>4, <1>5 DEF IInv, StoredInOrder
  <2> QED  BY <1>5, <2>1
<1> QED  BY <1>1, <1>3, <1>5, <1>6

\* Every step keeps the stored records in the same order in all sinks.
LEMMA StepStoredInOrder ==
    ASSUME IInv, NEW t \in Threads,
           LogStep(t) \/ \E level \in LogLevels : Log(t, level)
    PROVE  StoredInOrder'
<1>a. TypeOK /\ StoredInOrder /\ rec[t] \in Record
  BY DEF IInv, TypeOK
<1>1. CASE PushNext(t)
  <2>1. PICK k \in Sinks : k = at[t] + 1 /\ PushRecord(k, rec[t])
    BY <1>1 DEF PushNext
  <2> DEFINE new == Len(stored[k]) + 1
             Old(i, m) == m \in DOMAIN stored[i] /\ stored'[i][m] = stored[i][m]
             New(i, m) == i = k /\ m = new /\ stored'[i][m] = rec[t]
  <2>2. \A i \in Sinks : \A m \in DOMAIN stored'[i] : Old(i, m) \/ New(i, m)
    BY <1>a, <2>1, StoredAfter
  <2>3. \A i \in Sinks : \A m \in DOMAIN stored[i] :
           stored[i][m] = rec[t] => i # k /\ m = Len(stored[i])
    <3>1. mode[t] = "push"
      BY <1>1 DEF PushNext
    <3>2. Sinks \subseteq Nat
      BY DEF Sinks
    <3> QED  BY <2>1, <3>1, <3>2, WhereStored
  <2>4. \A i \in Sinks : \A m \in DOMAIN stored[i] :
           m \in Nat /\ m <= Len(stored[i]) /\ Len(stored[i]) \in Nat
    BY DEF IInv, TypeOK
  <2>5. new \in Nat /\ \A m \in DOMAIN stored[k] : m < new
    BY <1>a, <2>4 DEF TypeOK
  <2> SUFFICES ASSUME NEW i \in Sinks, NEW j \in Sinks,
                      NEW m \in DOMAIN stored'[i], NEW n \in DOMAIN stored'[i],
                      NEW p \in DOMAIN stored'[j], NEW q \in DOMAIN stored'[j],
                      stored'[i][m] = stored'[j][p], stored'[i][n] = stored'[j][q],
                      m < n
               PROVE  p < q
    BY DEF StoredInOrder
  <2> HIDE DEF new
  <2>6. Old(i, m)
    <3>1. ~(New(i, m) /\ Old(i, n))
      BY <2>4, <2>5
    <3>2. ~(New(i, m) /\ New(i, n))
      BY <2>5
    <3> QED  BY <2>2, <3>1, <3>2
  <2>7. Old(j, p)
    <3> SUFFICES ASSUME New(j, p) PROVE FALSE
      BY <2>2
    <3>1. i # k /\ m = Len(stored[i])
      BY <2>3, <2>6
    <3>2. n \in DOMAIN stored[i]
      BY <2>2, <3>1
    <3> QED  BY <2>4, <3>1, <3>2
  <2>8. CASE Old(i, n) /\ Old(j, q)
    BY <1>a, <2>6, <2>7, <2>8, ZenonT(30) DEF StoredInOrder
  <2>9. CASE New(j, q)
    BY <2>5, <2>7, <2>9
  <2>10. CASE New(i, n) /\ Old(j, q)
    <3>1. j # k /\ q = Len(stored[j])
      BY <2>3, <2>10
    <3>2. stored[i][m] # rec[t]
      BY <2>3, <2>6, <2>10
    <3>3. p # q
      BY <2>6, <2>7, <2>10, <3>2
    <3> QED  BY <2>4, <2>7, <3>1, <3>3
  <2> QED  BY <2>2, <2>8, <2>9, <2>10
<1>2. CASE stored' = stored
  BY <1>a, <1>2 DEF StoredInOrder
<1> QED
  BY <1>1, <1>2 DEF LogStep, Log, Stamp, Pushed, Unlock, Return

\* Every step preserves the invariant.
LEMMA StepIInv == IInv /\ [Next]_vars => IInv'
<1> SUFFICES ASSUME IInv, [Next]_vars PROVE IInv'
  OBVIOUS
<1>1. ASSUME NEW t \in Threads,
             LogStep(t) \/ \E level \in LogLevels : Log(t, level)
      PROVE  IInv'
  <2>1. TypeOK' /\ ThrownInv' /\ LockInv'
    BY <1>1, StepTypeOK, StepThrownInv, StepLockInv DEF IInv
  <2>2. OrderInv' /\ NameInv' /\ KeptInv' /\ StoredInOrder'
    BY <1>1, StepOrderInv, StepNameInv, StepKeptInv, StepStoredInOrder
  <2> QED  BY <2>1, <2>2 DEF IInv
<1>2. CASE UNCHANGED vars
  BY <1>2 DEF vars, IInv, TypeOK, ThrownInv, LockInv, OrderInv, Between, NameInv, MayBeIn,
              KeptInv, StoredInOrder
<1> QED  BY <1>1, <1>2 DEF Next

\* The invariant holds throughout every execution.
LEMMA LoggingInvariant == Spec => []IInv
  BY InitIInv, StepIInv, PTL DEF Spec

-----------------------------------------------------------------------------

\* The state of the loggers and sinks is well typed.
THEOREM LoggingTyping == Spec => []TypeOK
<1>1. IInv => TypeOK
  BY DEF IInv
<1> QED  BY <1>1, LoggingInvariant, PTL

\* A sequence is a prefix of itself.
LEMMA PrefixOfItself ==
    ASSUME NEW s \in Seq(Record)
    PROVE  IsPrefix(s, s)
  BY DEF IsPrefix

\* A sequence is a prefix of itself with a record appended.
LEMMA AppendPrefix ==
    ASSUME NEW s \in Seq(Record), NEW r \in Record
    PROVE  IsPrefix(s, Append(s, r))
<1>1. /\ Len(s) \in Nat /\ Append(s, r) \in Seq(Record)
      /\ Len(Append(s, r)) = Len(s) + 1
  OBVIOUS
<1>2. SubSeq(s, 1, Len(s)) = s
  BY SubSeqFull
<1>3. SubSeq(Append(s, r), 1, Len(s)) = s
  BY <1>1
<1> QED  BY <1>1, <1>2, <1>3 DEF IsPrefix

\* The incremental locking in the destructor of LogRecordProxy keeps the
\* records in the same order in all sinks.
THEOREM LoggingSameOrder == Spec => []SameOrder
<1>1. IInv => SameOrder
  <2> SUFFICES ASSUME IInv, NEW i \in Sinks, NEW j \in Sinks, i < j
               PROVE  IsPrefix(pushed[j], pushed[i])
    BY DEF SameOrder
  <2>1. pushed[j] \in Seq(Record) /\ \A t \in Threads : rec[t] \in Record
    BY DEF IInv, TypeOK
  <2>2. pushed[i] = pushed[j] \/ \E t \in Threads : pushed[i] = Append(pushed[j], rec[t])
    BY DEF IInv, OrderInv
  <2>3. CASE pushed[i] = pushed[j]
    BY <2>1, <2>3, PrefixOfItself
  <2>4. ASSUME NEW t \in Threads, pushed[i] = Append(pushed[j], rec[t])
        PROVE  IsPrefix(pushed[j], pushed[i])
    <3>1. IsPrefix(pushed[j], Append(pushed[j], rec[t]))
      BY <2>1, AppendPrefix
    <3> QED  BY <2>4, <3>1
  <2> QED  BY <2>2, <2>3, <2>4
<1> QED  BY <1>1, LoggingInvariant, PTL

\* The same of what sinks of different levels store, and no sink stores a
\* record twice.
THEOREM LoggingStoredInOrder == Spec => []StoredInOrder
<1>1. IInv => StoredInOrder
  BY DEF IInv
<1> QED  BY <1>1, LoggingInvariant, PTL

\* When the exception of a FATAL record leaves the logger, every sink has
\* stored the record.
THEOREM LoggingFatalIsLogged == Spec => []FatalIsLogged
<1>1. IInv => FatalIsLogged
  <2> SUFFICES ASSUME IInv, NEW t \in Threads, mode[t] = "thrown", NEW i \in Sinks
               PROVE  rec[t] \in Range(stored[i])
    BY DEF FatalIsLogged
  <2>1. rec[t].level >= SinkLevel[i]
    BY LoggingAssumption DEF IInv, ThrownInv, Level, DEBUG, FATAL
  <2>2. \E m \in DOMAIN stored[i] : stored[i][m] = rec[t]
    BY <2>1 DEF IInv, KeptInv
  <2> QED  BY <2>2 DEF Range
<1> QED  BY <1>1, LoggingInvariant, PTL

=============================================================================

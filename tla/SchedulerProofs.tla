-------------------------- MODULE SchedulerProofs --------------------------
(***************************************************************************)
(* Proofs about threads and programs, for every number of threads, every   *)
(* range of the tick counter and every set of sleeps and waiting calls.    *)
(***************************************************************************)
EXTENDS Scheduler, ArithmeticLemmas, FiniteSetTheorems, TLAPS

(***************************************************************************)
(* The inductive invariant.  NoStrayKill speaks of a running program only; *)
(* the flags it is about are set while the next one is loaded, and are     *)
(* justified from the moment the loader has cleared what the last program  *)
(* left.                                                                   *)
(***************************************************************************)
\* Whatever will end the program that was loaded has a cause since then.
EndHasCause ==
  /\ kill_program => pressed \/ early
  /\ \A t \in used : at[t] = "tramp" => pressed \/ early \/ faulted

SchedInv ==
  /\ TypeOK
  /\ ThreadTableConsistent
  /\ kern # "user" => stage = "run"
  /\ exit_requested => pressed \/ early
  /\ stage # "load" => EndHasCause

(***************************************************************************)
(* Ticks, slots and the search for the next thread.                        *)
(***************************************************************************)
LEMMA TicksWrap == \A x, n \in Nat : (x + n) % TickMod \in Instants
BY SchedulerAssumption DEF Instants

LEMMA NapsAreNat == Naps \subseteq Nat
BY SchedulerAssumption

LEMMA InstantsAreNat == 0 \in Instants /\ Instants \subseteq Nat
BY SchedulerAssumption DEF Instants

\* thread_schedule and thread_exit_switch reach every slot of the table, so
\* that they find a thread whenever there is one to run.
LEMMA FirstAfterFinds ==
  ASSUME NEW t \in Tids, NEW ts, ts \subseteq Tids, ts # {}
  PROVE  FirstAfter(t, ts) \in ts
<1> DEFINE S == {i \in 1 .. MaxThreads : After(t, i) \in ts}
<1>1. PICK r \in ts : TRUE
  OBVIOUS
<1>2. MaxThreads \in Nat \ {0} /\ t \in 0 .. MaxThreads - 1 /\ r \in 0 .. MaxThreads - 1
  BY SchedulerAssumption DEF Tids
<1>3. \E i \in 1 .. MaxThreads : (t + i) % MaxThreads = r
  <2>1. CASE r > t
    <3>1. r - t \in 1 .. MaxThreads /\ (t + (r - t)) % MaxThreads = r
      BY <1>2, <2>1
    <3> QED
      BY <3>1
  <2>2. CASE ~(r > t)
    <3>1. r - t + MaxThreads \in 1 .. MaxThreads
      BY <1>2, <2>2
    <3>2. (t + (r - t + MaxThreads)) % MaxThreads = r
      BY <1>2
    <3> QED
      BY <3>1, <3>2
  <2> QED
    BY <2>1, <2>2
<1>4. S # {} /\ S \subseteq Nat
  BY <1>3 DEF After
<1>5. Min(S) \in S
  <2> HIDE DEF S
  <2> QED
    BY <1>4, MinNat
<1> QED
  BY <1>5 DEF FirstAfter

LEMMA RunnableAreUsed ==
  \A ts, sl, now : Runnable(ts, sl, now) \subseteq ts
BY DEF Runnable

\* Cardinality of the table's set of slots in use.
LEMMA SlotsCounted ==
  ASSUME used \subseteq Tids
  PROVE  /\ IsFiniteSet(used) /\ Cardinality(used) \in 0 .. MaxThreads
         /\ \A t \in used : Cardinality(used \ {t}) = Cardinality(used) - 1
         /\ \A t \in Tids \ used : Cardinality(used \cup {t}) = Cardinality(used) + 1
<1>1. IsFiniteSet(Tids) /\ Cardinality(Tids) = MaxThreads
  BY FS_Interval, SchedulerAssumption DEF Tids
<1>2. IsFiniteSet(used) /\ Cardinality(used) <= MaxThreads /\ Cardinality(used) \in Nat
  BY <1>1, FS_Subset, FS_CardinalityType
<1>3. ASSUME NEW t \in used PROVE Cardinality(used \ {t}) = Cardinality(used) - 1
  BY <1>2, <1>3, FS_RemoveElement
<1>4. ASSUME NEW t \in Tids \ used PROVE Cardinality(used \cup {t}) = Cardinality(used) + 1
  BY <1>2, <1>4, FS_AddElement
<1> QED
  BY <1>2, <1>3, <1>4, SchedulerAssumption

LEMMA SchedInit == Init => SchedInv
<1> SUFFICES ASSUME Init PROVE SchedInv
  OBVIOUS
<1>1. 0 \in Instants /\ 0 \in Tids /\ 0 \in 0 .. MaxThreads
  BY SchedulerAssumption DEF Instants, Tids
<1>2. TypeOK
  BY <1>1 DEF Init, TypeOK
<1>3. Cardinality(used) = 0
  BY FS_EmptySet DEF Init
<1> QED
  BY <1>2, <1>3 DEF Init, SchedInv, ThreadTableConsistent, EndHasCause

(***************************************************************************)
(* The parts a step has in common with others.                             *)
(***************************************************************************)
\* after_user leaves no flag of the ended program but kill_program, which the
\* loader clears.
LEMMA EndProgramLemma ==
  ASSUME SchedInv, NEW set \in BOOLEAN, EndProgram(set)
  PROVE  /\ who' \in {"shell", "prog"} /\ next_prog_set' \in BOOLEAN
         /\ stage' = "load" /\ kern' = "user" /\ exit_requested' = FALSE
         /\ kill_program' = kill_program /\ target' = target
         /\ timer_ticks' = timer_ticks
         /\ pressed' = FALSE /\ early' = FALSE /\ faulted' = FALSE
BY DEF EndProgram, NextProgram, SchedInv, TypeOK

\* A step that ends the program keeps the invariant if its table is right.
LEMMA EndLemma ==
  ASSUME SchedInv, NEW set \in BOOLEAN, EndProgram(set),
         used' \subseteq Tids, sleep_until' \in [Tids -> Instants],
         current_tid' \in Tids, at' \in [Tids -> {"code", "tramp"}],
         thread_count' \in 0 .. MaxThreads, thread_count' = Cardinality(used'),
         key' \in BOOLEAN
  PROVE  SchedInv'
<1>1. TypeOK'
  BY EndProgramLemma DEF SchedInv, TypeOK
<1> QED
  BY <1>1, EndProgramLemma DEF SchedInv, ThreadTableConsistent

\* A step that returns from a call keeps the invariant if its table is right
\* and no thread was sent to the trampoline.
LEMMA ReturnLemma ==
  ASSUME SchedInv, Return, stage = "run",
         used' \subseteq Tids, sleep_until' \in [Tids -> Instants],
         current_tid' \in used', at' \in [Tids -> {"code", "tramp"}],
         thread_count' \in 0 .. MaxThreads, thread_count' = Cardinality(used'),
         key' \in BOOLEAN,
         \A t \in used' : at'[t] = "tramp" => t \in used /\ at[t] = "tramp"
  PROVE  SchedInv'
<1>0. next_prog_set \in BOOLEAN
  BY DEF SchedInv, TypeOK
<1>1. CASE exit_requested
  BY <1>0, <1>1, EndLemma DEF Return
<1>2. CASE ~exit_requested
  <2>1. kern' = "user" /\ UNCHANGED <<who, stage, next_prog_set, exit_requested,
          kill_program, target, timer_ticks, pressed, early, faulted>>
    BY <1>2 DEF Return, program
  <2>2. TypeOK'
    BY <2>1 DEF SchedInv, TypeOK
  <2> QED
    BY <2>1, <2>2 DEF SchedInv, ThreadTableConsistent, EndHasCause
<1> QED
  BY <1>1, <1>2

\* The table as it is, for steps that leave it alone.
LEMMA TableLemma ==
  ASSUME SchedInv, UNCHANGED threads
  PROVE  /\ used' = used /\ at' = at /\ current_tid' = current_tid
         /\ used' \subseteq Tids /\ sleep_until' \in [Tids -> Instants]
         /\ current_tid' \in Tids /\ at' \in [Tids -> {"code", "tramp"}]
         /\ thread_count' \in 0 .. MaxThreads /\ thread_count' = Cardinality(used')
BY DEF SchedInv, TypeOK, ThreadTableConsistent, threads

(***************************************************************************)
(* One lemma per action.                                                   *)
(***************************************************************************)
LEMMA LoadFailsStep == SchedInv /\ LoadFails => SchedInv'
<1> SUFFICES ASSUME SchedInv, LoadFails PROVE SchedInv'
  OBVIOUS
<1>1. TypeOK'
  BY DEF LoadFails, NextProgram, SchedInv, TypeOK, threads, wait, history
<1> QED
  BY <1>1 DEF LoadFails, NextProgram, SchedInv, ThreadTableConsistent, threads, wait, history

LEMMA LoadStep == SchedInv /\ Load => SchedInv'
<1> SUFFICES ASSUME SchedInv, Load PROVE SchedInv'
  OBVIOUS
<1>0. Cardinality({0}) = 1
  BY FS_Singleton, Zenon
<1>1. 0 \in Tids /\ 0 \in Instants /\ 1 \in 0 .. MaxThreads
  BY SchedulerAssumption DEF Tids, Instants
<1>2. TypeOK'
  BY <1>1 DEF Load, SchedInv, TypeOK, wait, history
<1>3. kern = "user" /\ kern' = kern
  BY DEF Load, SchedInv, wait
<1>4. at'[0] = "code"
  BY <1>1 DEF Load, SchedInv, TypeOK
<1> QED
  BY <1>0, <1>1, <1>2, <1>3, <1>4 DEF Load, SchedInv, ThreadTableConsistent, EndHasCause, history

LEMMA EnterStep == SchedInv /\ Enter => SchedInv'
<1> SUFFICES ASSUME SchedInv, Enter PROVE SchedInv'
  OBVIOUS
<1>1. TypeOK'
  BY DEF Enter, SchedInv, TypeOK, threads, wait, history
<1> QED
  BY <1>1 DEF Enter, SchedInv, ThreadTableConsistent, EndHasCause, threads, wait, history

LEMMA NowType == SchedInv => Now \in Instants
BY TicksWrap, InstantsAreNat DEF SchedInv, TypeOK, Now

LEMMA TickStep == SchedInv /\ (TickInKernel \/ TickKills) => SchedInv'
<1> SUFFICES ASSUME SchedInv, TickInKernel \/ TickKills PROVE SchedInv'
  OBVIOUS
<1>1. CASE TickInKernel
  <2>1. TypeOK'
    BY <1>1, NowType DEF TickInKernel, Tick, SchedInv, TypeOK, wait, history
  <2> QED
    BY <1>1, <2>1
       DEF TickInKernel, Tick, SchedInv, ThreadTableConsistent, EndHasCause, wait, history
<1>2. CASE TickKills
  <2>1. TypeOK'
    BY <1>2, NowType DEF TickKills, Tick, SchedInv, TypeOK, wait, history
  <2>2. pressed' \/ early'
    BY <1>2 DEF TickKills, Tick, InUser, SchedInv, EndHasCause, history
  <2> QED
    BY <1>2, <2>1, <2>2
       DEF TickKills, Tick, InUser, SchedInv, ThreadTableConsistent, EndHasCause, wait
<1> QED
  BY <1>1, <1>2

LEMMA ScheduleStep == SchedInv /\ TickSchedules => SchedInv'
<1> SUFFICES ASSUME SchedInv, TickSchedules PROVE SchedInv'
  OBVIOUS
<1> DEFINE ready == Runnable(used, sleep_until, Now)
           t == FirstAfter(current_tid, ready)
<1>1. ready # {} => t \in used
  BY RunnableAreUsed, FirstAfterFinds DEF SchedInv, TypeOK
<1>2. current_tid' \in used /\ sleep_until' \in [Tids -> Instants]
  BY <1>1, InstantsAreNat
     DEF TickSchedules, InUser, SchedInv, ThreadTableConsistent, TypeOK
<1>3. TypeOK'
  BY <1>2, NowType DEF TickSchedules, Tick, SchedInv, TypeOK, wait, history
<1> QED
  BY <1>2, <1>3
     DEF TickSchedules, Tick, InUser, SchedInv, ThreadTableConsistent, EndHasCause, wait, history

LEMMA CtrlCStep == SchedInv /\ CtrlC => SchedInv'
<1> SUFFICES ASSUME SchedInv, CtrlC PROVE SchedInv'
  OBVIOUS
<1>1. TypeOK'
  BY DEF CtrlC, SchedInv, TypeOK, wait
<1>2. pressed' \/ early'
  BY DEF CtrlC
<1> QED
  BY <1>1, <1>2 DEF CtrlC, SchedInv, ThreadTableConsistent, EndHasCause, wait

LEMMA KeyPressStep == SchedInv /\ KeyPress => SchedInv'
<1> SUFFICES ASSUME SchedInv, KeyPress PROVE SchedInv'
  OBVIOUS
<1>1. TypeOK'
  BY DEF KeyPress, SchedInv, TypeOK, program, threads, wait, history
<1> QED
  BY <1>1 DEF KeyPress, SchedInv, ThreadTableConsistent, EndHasCause,
              program, threads, wait, history

LEMMA FaultStep == SchedInv /\ Fault => SchedInv'
<1> SUFFICES ASSUME SchedInv, Fault PROVE SchedInv'
  OBVIOUS
<1>1. TypeOK'
  BY DEF Fault, SchedInv, TypeOK, program, wait
<1> QED
  BY <1>1 DEF Fault, SchedInv, ThreadTableConsistent, EndHasCause, program, wait

\* Calls that end the program and leave the table alone.
LEMMA EndingCallStep == SchedInv /\ (Exit \/ Exec) => SchedInv'
<1> SUFFICES ASSUME SchedInv, Exit \/ Exec PROVE SchedInv'
  OBVIOUS
<1>1. PICK set \in BOOLEAN : EndProgram(set)
  BY DEF Exit, Exec, SchedInv, TypeOK
<1>2. UNCHANGED threads /\ key' \in BOOLEAN
  BY DEF Exit, Exec, SchedInv, TypeOK
<1> QED
  BY <1>1, <1>2, TableLemma, EndLemma

\* Calls that return and leave the table alone.
LEMMA ReturningCallStep ==
  SchedInv /\ (OtherCall \/ GetKeyNb \/ KeyArrives) => SchedInv'
<1> SUFFICES ASSUME SchedInv, OtherCall \/ GetKeyNb \/ KeyArrives PROVE SchedInv'
  OBVIOUS
<1>1. Return /\ UNCHANGED threads /\ key' \in BOOLEAN
  BY DEF OtherCall, GetKeyNb, KeyArrives, SchedInv, TypeOK
<1>2. stage = "run"
  BY DEF OtherCall, GetKeyNb, KeyArrives, Calling, InUser, SchedInv
<1>3. current_tid' \in used'
  BY <1>1, <1>2, TableLemma DEF SchedInv, ThreadTableConsistent
<1> QED
  BY <1>1, <1>2, <1>3, TableLemma, ReturnLemma

LEMMA TCreateStep == SchedInv /\ TCreate => SchedInv'
<1> SUFFICES ASSUME SchedInv, TCreate PROVE SchedInv'
  OBVIOUS
<1> DEFINE t == Min(Tids \ used)
<1>1. t \in Tids \ used
  <2>1. Tids \ used \subseteq Nat
    BY SchedulerAssumption DEF Tids
  <2>2. Tids \ used # {}
    BY DEF TCreate, SchedInv, TypeOK
  <2> QED
    BY <2>1, <2>2, MinNat
<1> HIDE DEF t
<1>2. /\ used' = used \cup {t} /\ sleep_until' = [sleep_until EXCEPT ![t] = 0]
      /\ at' = [at EXCEPT ![t] = "code"] /\ thread_count' = thread_count + 1
      /\ thread_count < MaxThreads
      /\ Return /\ stage = "run" /\ current_tid' = current_tid /\ key' = key
  BY DEF TCreate, Calling, InUser, t
<1>3. used' \subseteq Tids /\ current_tid' \in used' /\ key' \in BOOLEAN
  BY <1>1, <1>2 DEF SchedInv, TypeOK, ThreadTableConsistent
<1>4. sleep_until' \in [Tids -> Instants] /\ at' \in [Tids -> {"code", "tramp"}]
  BY <1>2, InstantsAreNat DEF SchedInv, TypeOK
<1>5. thread_count' \in 0 .. MaxThreads /\ thread_count' = Cardinality(used')
  BY <1>1, <1>2, SlotsCounted, SchedulerAssumption
     DEF SchedInv, TypeOK, ThreadTableConsistent
<1>6. \A x \in used' : at'[x] = "tramp" => x \in used /\ at[x] = "tramp"
  BY <1>1, <1>2 DEF SchedInv, TypeOK
<1> QED
  BY <1>2, <1>3, <1>4, <1>5, <1>6, ReturnLemma

LEMMA TExitStep == SchedInv /\ TExit => SchedInv'
<1> SUFFICES ASSUME SchedInv, TExit PROVE SchedInv'
  OBVIOUS
<1> DEFINE left == used \ {current_tid}
           awake == [sleep_until EXCEPT ![current_tid] = 0]
           ready == Runnable(left, awake, timer_ticks)
           t == FirstAfter(current_tid, ready)
<1>1. /\ used' = left /\ thread_count' = Max({thread_count - 1, 0})
      /\ stage = "run" /\ at' = at /\ key' = key
  BY DEF TExit, Calling, InUser
<1>2. current_tid \in used /\ used \subseteq Tids /\ current_tid \in Tids
      /\ at \in [Tids -> {"code", "tramp"}] /\ key \in BOOLEAN /\ next_prog_set \in BOOLEAN
  BY <1>1 DEF SchedInv, TypeOK, ThreadTableConsistent
<1>3. thread_count' \in 0 .. MaxThreads /\ thread_count' = Cardinality(used')
  <2>1. Cardinality(left) = thread_count - 1 /\ thread_count \in 0 .. MaxThreads
    BY <1>2, SlotsCounted DEF SchedInv, TypeOK, ThreadTableConsistent
  <2>2. Cardinality(left) \in Nat
    BY <1>2, SlotsCounted, FS_RemoveElement, FS_CardinalityType
  <2>3. Max({thread_count - 1, 0}) = thread_count - 1
    BY <2>1, <2>2, MaxOfTwo
  <2> QED
    BY <1>1, <2>1, <2>2, <2>3, SchedulerAssumption
<1>4. awake \in [Tids -> Instants]
  BY InstantsAreNat DEF SchedInv, TypeOK
<1>5. ready # {} => t \in left
  <2>1. ready \subseteq left
    BY RunnableAreUsed
  <2> HIDE DEF ready
  <2> QED
    BY <1>2, <2>1, FirstAfterFinds
<1> HIDE DEF left, awake, ready, t
<1>6. used' \subseteq Tids
  BY <1>1, <1>2 DEF left
<1>7. CASE thread_count > 1 /\ ready # {}
  <2>1. current_tid' = t /\ sleep_until' = [awake EXCEPT ![t] = 0] /\ Return
    BY <1>7 DEF TExit, t, awake, ready, left
  <2>2. sleep_until' \in [Tids -> Instants] /\ current_tid' \in used'
    BY <1>1, <1>4, <1>5, <1>7, <2>1, InstantsAreNat
  <2>3. \A x \in used' : at'[x] = "tramp" => x \in used /\ at[x] = "tramp"
    BY <1>1 DEF left
  <2> QED
    BY <1>1, <1>2, <1>3, <1>6, <2>1, <2>2, <2>3, ReturnLemma
<1>8. CASE ~(thread_count > 1 /\ ready # {})
  <2>1. sleep_until' = awake /\ current_tid' = current_tid /\ EndProgram(next_prog_set)
    BY <1>8 DEF TExit, awake, ready, left
  <2> QED
    BY <1>1, <1>2, <1>3, <1>4, <1>6, <2>1, EndLemma
<1> QED
  BY <1>7, <1>8

\* A call that begins to wait.
LEMMA WaitingCallStep ==
  ASSUME SchedInv, NEW n \in Naps, Sleep(n) \/ SleepFWaits(n)
  PROVE  SchedInv'
<1>1. /\ UNCHANGED <<program, used, thread_count, current_tid, at, timer_ticks, key, history>>
      /\ kern' \in {"sleep", "sleepf"} /\ stage = "run"
  BY DEF Sleep, SleepFWaits, Calling, InUser, threads
<1>2. (timer_ticks + n) % TickMod \in Instants
  BY TicksWrap, NapsAreNat, InstantsAreNat DEF SchedInv, TypeOK
<1>3. target' \in Instants /\ sleep_until' \in [Tids -> Instants]
  BY <1>2 DEF Sleep, SleepFWaits, SchedInv, TypeOK, threads
<1>4. TypeOK'
  BY <1>1, <1>3 DEF SchedInv, TypeOK, program, history
<1> QED
  BY <1>1, <1>4 DEF SchedInv, ThreadTableConsistent, EndHasCause, program, history

LEMMA SleepFMarksStep == ASSUME SchedInv, NEW n \in Naps, SleepFMarks(n) PROVE SchedInv'
<1>1. /\ UNCHANGED <<used, thread_count, current_tid, at, key>> /\ Return /\ stage = "run"
      /\ sleep_until' = [sleep_until EXCEPT ![Min(Others)] = 0,
                           ![current_tid] = (timer_ticks + n) % TickMod]
  BY DEF SleepFMarks, Calling, InUser
<1>2. (timer_ticks + n) % TickMod \in Instants
  BY TicksWrap, NapsAreNat, InstantsAreNat DEF SchedInv, TypeOK
<1>3. sleep_until' \in [Tids -> Instants]
  BY <1>1, <1>2, InstantsAreNat DEF SchedInv, TypeOK
<1> QED
  BY <1>1, <1>3, ReturnLemma DEF SchedInv, TypeOK, ThreadTableConsistent

LEMMA WakeUpStep == SchedInv /\ WakeUp => SchedInv'
<1> SUFFICES ASSUME SchedInv, WakeUp PROVE SchedInv'
  OBVIOUS
<1>1. UNCHANGED <<used, thread_count, current_tid, at, key>> /\ Return /\ stage = "run"
  BY DEF WakeUp, SchedInv
<1>2. sleep_until' \in [Tids -> Instants]
  BY InstantsAreNat DEF WakeUp, SchedInv, TypeOK
<1> QED
  BY <1>1, <1>2, ReturnLemma DEF SchedInv, TypeOK, ThreadTableConsistent

LEMMA PollsCtrlCStep == SchedInv /\ PollsCtrlC => SchedInv'
<1> SUFFICES ASSUME SchedInv, PollsCtrlC PROVE SchedInv'
  OBVIOUS
<1>1. UNCHANGED <<used, sleep_until, thread_count, current_tid, at, kern, target,
                  timer_ticks, key>> /\ kern = "user"
  BY DEF PollsCtrlC, Calling, InUser, threads, wait
<1>2. TypeOK'
  BY <1>1 DEF PollsCtrlC, NextProgram, SchedInv, TypeOK
<1> QED
  BY <1>1, <1>2 DEF PollsCtrlC, NextProgram, SchedInv, ThreadTableConsistent

LEMMA SchedStep == SchedInv /\ [Next]_vars => SchedInv'
<1> SUFFICES ASSUME SchedInv, [Next]_vars PROVE SchedInv'
  OBVIOUS
<1>1. CASE UNCHANGED vars
  <2>1. TypeOK'
    BY <1>1 DEF vars, program, threads, wait, history, SchedInv, TypeOK
  <2> QED
    BY <1>1, <2>1 DEF vars, program, threads, wait, history, SchedInv,
                      ThreadTableConsistent, EndHasCause
<1>2. ASSUME NEW n \in Naps, Sleep(n) \/ SleepFMarks(n) \/ SleepFWaits(n) PROVE SchedInv'
  BY <1>2, WaitingCallStep, SleepFMarksStep
<1>3. CASE GetKey
  <2>1. TypeOK'
    BY <1>3 DEF GetKey, SchedInv, TypeOK, program, threads, history
  <2> QED
    BY <1>3, <2>1 DEF GetKey, Calling, InUser, SchedInv, ThreadTableConsistent, EndHasCause,
                      program, threads, history
<1> QED
  BY <1>1, <1>2, <1>3, LoadFailsStep, LoadStep, EnterStep, TickStep, ScheduleStep, CtrlCStep,
     KeyPressStep, FaultStep, EndingCallStep, ReturningCallStep, TCreateStep, TExitStep,
     WakeUpStep, PollsCtrlCStep
     DEF Next

(***************************************************************************)
(* The theorems.                                                           *)
(***************************************************************************)
\* Every variable keeps its range: thread_count stays within the table, and
\* no search of thread_schedule returns a slot that does not exist.
THEOREM TypeCorrect == Spec => []TypeOK
<1>1. SchedInv => TypeOK
  BY DEF SchedInv
<1> QED
  BY <1>1, SchedInit, SchedStep, PTL DEF Spec

\* thread_count is the number of threads, across creation, exit, program ends
\* and loads in any order, and the interrupted context is saved to a thread
\* that exists.
THEOREM TableStaysConsistent == Spec => []ThreadTableConsistent
<1>1. SchedInv => ThreadTableConsistent
  BY DEF SchedInv
<1> QED
  BY <1>1, SchedInit, SchedStep, PTL DEF Spec

\* A Ctrl+C or a fault ends the program it hit, or the one being loaded, and
\* never a later one, whenever it comes.
THEOREM NoKillIsStray == Spec => []NoStrayKill
<1>1. SchedInv => NoStrayKill
  BY DEF SchedInv, EndHasCause, NoStrayKill
<1> QED
  BY <1>1, SchedInit, SchedStep, PTL DEF Spec

=============================================================================

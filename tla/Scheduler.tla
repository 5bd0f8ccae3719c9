----------------------------- MODULE Scheduler -----------------------------
(***************************************************************************)
(* Threads and programs (kernel/kernel.c, kernel/syscall.S): one program   *)
(* runs at a time, the shell or the one it asked for; its threads are      *)
(* switched by the timer interrupt when that interrupts user code; system  *)
(* calls that wait do so inside the kernel, with interrupts enabled, and   *)
(* are not preempted; Ctrl+C redirects user code to a trampoline that      *)
(* exits, or raises exit_requested for the end of the current call.        *)
(*                                                                         *)
(* Instants are timer ticks modulo TickMod (2^32 in the code).             *)
(***************************************************************************)
EXTENDS Integers, FiniteSets, FiniteSetsExt

CONSTANTS
  MaxThreads,  \* MAX_THREADS
  TickMod,     \* the range of timer_ticks
  Naps,        \* the lengths, in ticks, that programs sleep
  Calls        \* the waiting calls programs make, of "sleep", "sleepf", "getkey"

ASSUME SchedulerAssumption ==
  /\ MaxThreads \in Nat \ {0}
  /\ TickMod \in Nat \ {0} /\ TickMod % 2 = 0
  /\ Naps \subseteq 1 .. TickMod \div 2 - 1
  /\ Calls \subseteq {"sleep", "sleepf", "getkey"}

Tids == 0 .. MaxThreads - 1
Instants == 0 .. TickMod - 1

VARIABLES
  \* the program
  who,             \* "shell" or "prog": the program loaded or running
  stage,           \* "load", "enter" (loaded, about to run) or "run"
  next_prog_set,   \* a program waits to run after the shell
  exit_requested,
  kill_program,
  \* its threads
  used,            \* tids in use
  sleep_until,     \* 0: awake
  thread_count,
  current_tid,
  at,              \* where each thread's user code is: "code" or "tramp"
  kern,            \* the call current_tid waits in, "user" when in none
  target,          \* the tick a waiting sleep ends at
  \* the machine
  timer_ticks,
  key,             \* an unread key in the ring
  \* history
  pressed,         \* Ctrl+C was typed since this program began to run
  early,           \* ... or between the end of the last one and that
  faulted          \* a thread of this program faulted

program == <<who, stage, next_prog_set, exit_requested, kill_program>>
threads == <<used, sleep_until, thread_count, current_tid, at>>
wait == <<kern, target>>
history == <<pressed, early, faulted>>
vars == <<program, threads, wait, timer_ticks, key, history>>

Init ==
  /\ who = "shell" /\ stage = "load" /\ next_prog_set = FALSE
  /\ exit_requested = FALSE /\ kill_program = FALSE
  /\ used = {} /\ sleep_until = [t \in Tids |-> 0] /\ thread_count = 0
  /\ current_tid = 0 /\ at = [t \in Tids |-> "code"]
  /\ kern = "user" /\ target = 0
  /\ timer_ticks = 0 /\ key = FALSE
  /\ pressed = FALSE /\ early = FALSE /\ faulted = FALSE

\* (int)(now - w) >= 0
Reached(w, now) == (now - w) % TickMod < TickMod \div 2

\* thread_is_runnable; the reset of an expired sleep_until is in the callers.
Runnable(ts, sl, now) == {t \in ts : sl[t] = 0 \/ Reached(sl[t], now)}

\* The first of the threads ts after t in cyclic order, t itself last.
After(t, i) == (t + i) % MaxThreads
\* Mutant: the search always starts at slot 0.
FirstFromZero(t, ts) == Min(ts)

FirstAfter(t, ts) == After(t, Min({i \in 1 .. MaxThreads : After(t, i) \in ts}))

(***************************************************************************)
(* Programs: kmain's loop, exec_user and after_user.                       *)
(***************************************************************************)
\* Back in kmain: the program the shell asked for, otherwise the shell.
NextProgram(set) ==
  /\ who' = IF who = "shell" /\ set THEN "prog" ELSE "shell"
  /\ next_prog_set' = (set /\ who # "shell")
  /\ stage' = "load"

\* after_user, with next_prog_set as the ending call leaves it.
EndProgram(set) ==
  /\ NextProgram(set)
  /\ exit_requested' = FALSE
  /\ kern' = "user"
  /\ pressed' = FALSE /\ early' = FALSE /\ faulted' = FALSE
  /\ UNCHANGED <<kill_program, target, timer_ticks>>

\* exec_user finds no file, or no ELF image.
LoadFails ==
  /\ stage = "load"
  /\ NextProgram(next_prog_set)
  /\ UNCHANGED <<exit_requested, kill_program, threads, wait, timer_ticks,
                 key, history>>

\* Mutant: the threads of the last program stay in the table.
LoadKeepsThreads ==
  /\ stage = "load"
  /\ stage' = "enter"
  /\ kill_program' = FALSE
  /\ used' = used \cup {0} /\ thread_count' = 1 /\ current_tid' = 0
  /\ sleep_until' = [sleep_until EXCEPT ![0] = 0]
  /\ at' = [at EXCEPT ![0] = "code"]
  /\ UNCHANGED <<who, next_prog_set, exit_requested, wait, timer_ticks, key,
                 history>>

\* Mutant: kill_program is not cleared.
LoadKeepsKill ==
  /\ stage = "load"
  /\ stage' = "enter"
  /\ used' = {0} /\ thread_count' = 1 /\ current_tid' = 0
  /\ sleep_until' = [sleep_until EXCEPT ![0] = 0]
  /\ at' = [at EXCEPT ![0] = "code"]
  /\ UNCHANGED <<who, next_prog_set, exit_requested, kill_program, wait,
                 timer_ticks, key, history>>

\* exec_user up to thread_init_main.
Load ==
  /\ stage = "load"
  /\ stage' = "enter"
  /\ kill_program' = FALSE
  /\ used' = {0} /\ thread_count' = 1 /\ current_tid' = 0
  /\ sleep_until' = [sleep_until EXCEPT ![0] = 0]
  /\ at' = [at EXCEPT ![0] = "code"]
  /\ UNCHANGED <<who, next_prog_set, exit_requested, wait, timer_ticks, key,
                 history>>

Enter ==
  /\ stage = "enter"
  /\ stage' = "run"
  /\ UNCHANGED <<who, next_prog_set, exit_requested, kill_program, threads,
                 wait, timer_ticks, key, history>>

(***************************************************************************)
(* Interrupts.                                                             *)
(***************************************************************************)
InUser == stage = "run" /\ kern = "user"

\* A waiting call that will return as soon as it looks.
CallDone ==
  \/ kern \in {"sleep", "sleepf"} /\ Reached(target, timer_ticks)
  \/ kern = "getkey" /\ key

\* irq_handler on the timer.  A wait looks at its condition before the next
\* tick comes.
Now == (timer_ticks + 1) % TickMod
Tick ==
  /\ ~CallDone
  /\ timer_ticks' = Now
  /\ UNCHANGED <<who, stage, next_prog_set, exit_requested, used, thread_count,
                 wait, key, history>>

TickInKernel ==
  /\ ~InUser
  /\ Tick
  /\ UNCHANGED <<kill_program, current_tid, sleep_until, at>>

TickKills ==
  /\ InUser /\ kill_program
  /\ Tick
  /\ at' = [at EXCEPT ![current_tid] = "tramp"]
  /\ kill_program' = FALSE
  /\ UNCHANGED <<current_tid, sleep_until>>

\* Mutant: the interrupted context is not saved, so that a thread switched out
\* goes on from where it was before Ctrl+C redirected it.
TickLosesContext ==
  LET ready == Runnable(used, sleep_until, Now)
      t == FirstAfter(current_tid, ready)
  IN  /\ InUser /\ ~kill_program
      /\ Tick
      /\ IF ready = {} THEN UNCHANGED <<current_tid, sleep_until>>
         ELSE current_tid' = t /\ sleep_until' = [sleep_until EXCEPT ![t] = 0]
      /\ at' = [at EXCEPT ![current_tid] = "code"]
      /\ UNCHANGED kill_program

\* thread_schedule.  With no thread to run the current one goes on.
TickSchedules ==
  LET ready == Runnable(used, sleep_until, Now)
      t == FirstAfter(current_tid, ready)
  IN  /\ InUser /\ ~kill_program
      /\ Tick
      /\ IF ready = {} THEN UNCHANGED <<current_tid, sleep_until>>
         ELSE current_tid' = t /\ sleep_until' = [sleep_until EXCEPT ![t] = 0]
      /\ UNCHANGED <<kill_program, at>>

\* Ctrl+C, taken by IRQ1 or by a polling reader.
CtrlC ==
  /\ IF InUser
     THEN /\ at' = [at EXCEPT ![current_tid] = "tramp"]
          /\ kill_program' = FALSE
          /\ UNCHANGED exit_requested
     ELSE /\ kill_program' = TRUE /\ exit_requested' = TRUE
          /\ UNCHANGED at
  /\ IF stage = "run" THEN pressed' = TRUE /\ UNCHANGED early
     ELSE early' = TRUE /\ UNCHANGED pressed
  /\ UNCHANGED <<who, stage, next_prog_set, used, sleep_until, thread_count,
                 current_tid, wait, timer_ticks, key, faulted>>

KeyPress ==
  /\ ~key
  /\ key' = TRUE
  /\ UNCHANGED <<program, threads, wait, timer_ticks, history>>

\* fault_handler on user code.
Fault ==
  /\ InUser
  /\ at' = [at EXCEPT ![current_tid] = "tramp"]
  /\ faulted' = TRUE
  /\ UNCHANGED <<program, used, sleep_until, thread_count, current_tid, wait,
                 timer_ticks, key, pressed, early>>

(***************************************************************************)
(* System calls of the current thread.  On the way out syscall_entry looks *)
(* at exit_requested.                                                      *)
(***************************************************************************)
Calling == InUser /\ at[current_tid] = "code"

Return ==
  IF exit_requested THEN EndProgram(next_prog_set)
  ELSE /\ kern' = "user"
       /\ UNCHANGED <<program, target, timer_ticks, pressed, early, faulted>>

OtherCall ==
  /\ Calling /\ exit_requested
  /\ Return
  /\ UNCHANGED <<threads, key>>

\* SYS_EXIT, from the program or from the trampoline.
Exit ==
  /\ InUser
  /\ EndProgram(next_prog_set)
  /\ UNCHANGED <<threads, key>>

Exec ==
  /\ Calling
  /\ EndProgram(TRUE)
  /\ UNCHANGED <<threads, key>>

TCreate ==
  /\ Calling
  /\ thread_count < MaxThreads
  /\ used # Tids
  /\ LET t == Min(Tids \ used)
     IN  /\ used' = used \cup {t}
         /\ sleep_until' = [sleep_until EXCEPT ![t] = 0]
         /\ at' = [at EXCEPT ![t] = "code"]
  /\ thread_count' = thread_count + 1
  /\ Return
  /\ UNCHANGED <<current_tid, key>>

\* SYS_TEXIT and thread_exit_switch.  The program ends with its last thread,
\* and also when every thread left is asleep.
TExit ==
  LET left == used \ {current_tid}
      awake == [sleep_until EXCEPT ![current_tid] = 0]
      ready == Runnable(left, awake, timer_ticks)
      t == FirstAfter(current_tid, ready)
  IN  /\ Calling
      /\ used' = left
      /\ thread_count' = Max({thread_count - 1, 0})
      /\ IF thread_count > 1 /\ ready # {}
         THEN /\ current_tid' = t
              /\ sleep_until' = [awake EXCEPT ![t] = 0]
              /\ Return
         ELSE /\ sleep_until' = awake
              /\ UNCHANGED current_tid
              /\ EndProgram(next_prog_set)
      /\ UNCHANGED <<at, key>>

\* Mutant: the tick to wake at does not wrap with the counter.
SleepWithoutWrap(n) ==
  /\ Calling /\ "sleep" \in Calls
  /\ kern' = "sleep"
  /\ target' = timer_ticks + n
  /\ UNCHANGED <<program, threads, timer_ticks, key, history>>

Sleep(n) ==
  /\ Calling /\ "sleep" \in Calls
  /\ kern' = "sleep"
  /\ target' = (timer_ticks + n) % TickMod
  /\ UNCHANGED <<program, threads, timer_ticks, key, history>>

\* SYS_SLEEPF with another thread to run: the caller is marked asleep and
\* goes on until the next tick.
Others == Runnable(used \ {current_tid}, sleep_until, timer_ticks)

SleepFMarks(n) ==
  /\ Calling /\ "sleepf" \in Calls
  /\ Others # {}
  /\ sleep_until' = [sleep_until EXCEPT
                       ![Min(Others)] = 0,
                       ![current_tid] = (timer_ticks + n) % TickMod]
  /\ Return
  /\ UNCHANGED <<used, thread_count, current_tid, at, key>>

\* ... and without: the whole program waits in the kernel.
SleepFWaits(n) ==
  /\ Calling /\ "sleepf" \in Calls
  /\ Others = {}
  /\ kern' = "sleepf"
  /\ target' = (timer_ticks + n) % TickMod
  /\ sleep_until' = [sleep_until EXCEPT ![current_tid] = (timer_ticks + n) % TickMod]
  /\ UNCHANGED <<program, used, thread_count, current_tid, at, timer_ticks, key,
                 history>>

GetKey ==
  /\ Calling /\ "getkey" \in Calls
  /\ kern' = "getkey"
  /\ UNCHANGED <<program, threads, target, timer_ticks, key, history>>

WakeUp ==
  /\ kern \in {"sleep", "sleepf"} /\ Reached(target, timer_ticks)
  /\ sleep_until' = IF kern = "sleepf"
                    THEN [sleep_until EXCEPT ![current_tid] = 0] ELSE sleep_until
  /\ Return
  /\ UNCHANGED <<used, thread_count, current_tid, at, key>>

\* SYS_GETKEY_NB with a key in the ring, or with Ctrl+C in the controller,
\* which the call itself takes.
GetKeyNb ==
  /\ Calling /\ key
  /\ key' = FALSE
  /\ Return
  /\ UNCHANGED threads

PollsCtrlC ==
  /\ Calling
  /\ NextProgram(next_prog_set)
  /\ kill_program' = TRUE /\ exit_requested' = FALSE
  /\ pressed' = FALSE /\ early' = FALSE /\ faulted' = FALSE
  /\ UNCHANGED <<threads, wait, timer_ticks, key>>

KeyArrives ==
  /\ kern = "getkey" /\ key
  /\ key' = FALSE
  /\ Return
  /\ UNCHANGED threads

Next ==
  \/ LoadFails \/ Load \/ Enter
  \/ TickInKernel \/ TickKills \/ TickSchedules
  \/ CtrlC \/ KeyPress \/ Fault
  \/ OtherCall \/ Exit \/ Exec \/ TCreate \/ TExit
  \/ \E n \in Naps : Sleep(n) \/ SleepFMarks(n) \/ SleepFWaits(n)
  \/ GetKey \/ GetKeyNb \/ PollsCtrlC \/ WakeUp \/ KeyArrives

(***************************************************************************)
(* Fairness: the timer keeps ticking and the kernel's own steps go on.  The *)
(* trampoline is three instructions, far less than a tick, so a thread that *)
(* gets the CPU there again and again executes it.  Nothing is assumed of  *)
(* programs or of the person at the keyboard.                              *)
(***************************************************************************)
AnyTick == TickInKernel \/ TickKills \/ TickSchedules
Trampoline == at[current_tid] = "tramp" /\ Exit

Fairness ==
  /\ WF_vars(AnyTick)
  /\ WF_vars(WakeUp) /\ WF_vars(KeyArrives)
  /\ WF_vars(Load) /\ WF_vars(Enter)
  /\ SF_vars(Trampoline)

Spec == Init /\ [][Next]_vars
FairSpec == Spec /\ Fairness

(***************************************************************************)
(* Properties.                                                             *)
(***************************************************************************)
\* Every variable keeps its range.
TypeOK ==
  /\ who \in {"shell", "prog"} /\ stage \in {"load", "enter", "run"}
  /\ next_prog_set \in BOOLEAN /\ exit_requested \in BOOLEAN
  /\ kill_program \in BOOLEAN
  /\ used \subseteq Tids /\ sleep_until \in [Tids -> Instants]
  /\ thread_count \in 0 .. MaxThreads /\ current_tid \in Tids
  /\ at \in [Tids -> {"code", "tramp"}]
  /\ kern \in {"user", "sleep", "sleepf", "getkey"} /\ target \in Instants
  /\ timer_ticks \in Instants /\ key \in BOOLEAN
  /\ pressed \in BOOLEAN /\ early \in BOOLEAN /\ faulted \in BOOLEAN

\* thread_count, which decides whether SYS_TEXIT ends the program and whether
\* SYS_TCREATE may use a slot, is the number of threads, and the context the
\* timer interrupt saves into belongs to a thread that exists.
ThreadTableConsistent ==
  /\ thread_count = Cardinality(used)
  /\ stage # "load" => current_tid \in used

\* A Ctrl+C ends the program it was typed at, or the one being loaded, and
\* never a later one: no flag and no redirected thread outlives its program.
NoStrayKill ==
  stage = "run" =>
    /\ kill_program \/ exit_requested => pressed \/ early
    /\ \A t \in used : at[t] = "tramp" => pressed \/ early \/ faulted

\* A waiting call other than sys_sleepf keeps the CPU: the timer switches
\* threads only when it interrupts user code.  A program that makes such
\* calls again and again may starve its threads.
HoldsCpu == kern \in {"sleep", "getkey"}

\* README: threads are "scheduled round-robin on the timer tick".  A thread
\* that may run gets the CPU, or ends with its program, unless waiting calls
\* hold the CPU again and again.
RunnableThreadRuns ==
  []<>HoldsCpu \/
  \A t \in Tids :
    stage = "run" /\ t \in Runnable(used, sleep_until, timer_ticks)
      ~> stage # "run" \/ t \notin used \/ current_tid = t

\* A thread that Ctrl+C or a fault sent to the trampoline ends the program,
\* even when it is switched out, or marked asleep, before it gets there,
\* unless waiting calls hold the CPU again and again.
TrampolineEndsProgram ==
  []<>HoldsCpu \/
  \A t \in Tids :
    stage = "run" /\ t \in used /\ at[t] = "tramp" ~> stage # "run"

(***************************************************************************)
(* What the documents say, violated by what the code does.                 *)
(***************************************************************************)
\* doc/reference.html: "Ctrl+C kills the running program and returns to the
\* shell."
CtrlCEndsProgram == pressed ~> ~pressed

=============================================================================

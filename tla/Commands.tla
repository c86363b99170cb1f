-------------------------------- MODULE Commands ------------------------------
(* The commands the GUI runs (src/gui-service.c): run_command_callback, in   *)
(* the GTK thread, puts a structure at the head of thread_list under a mutex *)
(* and starts run_service, which runs the command and takes its structure    *)
(* out of the list under the same mutex.  mutex_initalized is FALSE for ever,*)
(* so every call initializes the mutex again, even one a thread holds.       *)
(*                                                                           *)
(* The list is its pointers (head, next), read and written one at a time.    *)
(* That pthread_create stores the thread's id before the thread reads it is  *)
(* an assumption about the library.                                          *)
(*                                                                           *)
(* A definition marked "Wrong:" is the one below it as a plausible bug would *)
(* have it; no action uses it (README.md, Sensitivity).                      *)
EXTENDS Integers, FiniteSets

CONSTANTS
  Threads,     (* the structures of thread_list, one for each command       *)
  Nil         (* the end of the list                                       *)

ASSUME CommandsAssumption == IsFiniteSet(Threads) /\ Nil \notin Threads

VARIABLES
  gtk,            (* where run_command_callback is                           *)
  new,            (* its threadp                                             *)
  pc,             (* where each run_service is                               *)
  walk,           (* what each has found: its predecessor in the list        *)
  locked,         (* the mutex                                               *)
  thread_list, next,
  alive,          (* the structures that are allocated                       *)
  reinitialized,  (* history: the mutex was initialized while it was locked  *)
  touched         (* history: a freed structure was read or written          *)

commands == <<gtk, new, pc, walk, locked, thread_list, next, alive, reinitialized, touched>>

CommandsInit ==
  /\ gtk = "idle" /\ new = Nil
  /\ pc = [t \in Threads |-> "none"]
  /\ walk = [t \in Threads |-> Nil]
  /\ locked = FALSE
  /\ thread_list = Nil
  /\ next = [t \in Threads |-> Nil]
  /\ alive = {}
  /\ reinitialized = FALSE
  /\ touched = FALSE

-----------------------------------------------------------------------------
(* run_command_callback, once the command is put together. *)

pthread_mutex_init ==
  /\ gtk = "idle"
  /\ \E t \in Threads \ alive : pc[t] = "none"
  /\ reinitialized' = (reinitialized \/ locked)
  /\ locked' = FALSE
  /\ gtk' = "lock"
  /\ UNCHANGED <<new, pc, walk, thread_list, next, alive, touched>>

(* Lock, malloc, and threadp->next = thread_list.                            *)
Link ==
  /\ gtk = "lock" /\ ~locked
  /\ locked' = TRUE
  /\ \E t \in Threads \ alive :
       /\ pc[t] = "none"
       /\ new' = t
       /\ alive' = alive \union {t}
       /\ next' = [next EXCEPT ![t] = thread_list]
  /\ gtk' = "link"
  /\ UNCHANGED <<pc, walk, thread_list, reinitialized, touched>>

(* thread_list = threadp; unlock.                                            *)
Linked ==
  /\ gtk = "link"
  /\ thread_list' = new
  /\ locked' = FALSE
  /\ gtk' = "create"
  /\ UNCHANGED <<new, pc, walk, next, alive, reinitialized, touched>>

pthread_create ==
  /\ gtk = "create"
  /\ pc' = [pc EXCEPT ![new] = "system"]
  /\ gtk' = "idle" /\ new' = Nil
  /\ UNCHANGED <<walk, locked, thread_list, next, alive, reinitialized, touched>>

-----------------------------------------------------------------------------
(* run_service *)

(* The pointers of a list, in order; NULL from its end on.                   *)
Pointers(head, nx) ==
  LET at[i \in Nat] == IF i = 0 THEN head ELSE IF at[i - 1] = Nil THEN Nil ELSE nx[at[i - 1]]
  IN  at

ThreadList == Pointers(thread_list, next)

(* As far as a search goes: a list has no more structures.                   *)
Places == 0..Cardinality(Threads)

(* Wrong: the mutex is not taken for the search. *)
EndedUnlocked(t) ==
  /\ pc[t] = "system"
  /\ pc' = [pc EXCEPT ![t] = "search"]
  /\ UNCHANGED <<gtk, new, walk, locked, thread_list, next, alive, reinitialized, touched>>

(* The command has ended: lock.                                              *)
Ended(t) ==
  /\ pc[t] = "system" /\ ~locked
  /\ locked' = TRUE
  /\ pc' = [pc EXCEPT ![t] = "search"]
  /\ UNCHANGED <<gtk, new, walk, thread_list, next, alive, reinitialized, touched>>

(* The search for its own structure: it reads those before it, and leaves    *)
(* everything as it is when it does not find it.                             *)
Search(t) ==
  LET mine == {i \in Places : ThreadList[i] = t}
      read == {ThreadList[i] : i \in {j \in Places : \A m \in mine : j <= m}} \ {Nil}
  IN  /\ pc[t] = "search"
      /\ touched' = (touched \/ ~(read \subseteq alive))
      /\ \/ /\ mine = {}
            /\ pc' = [pc EXCEPT ![t] = "leaked"]
            /\ locked' = FALSE
            /\ UNCHANGED walk
         \/ \E m \in mine :
              /\ \A i \in mine : m <= i
              /\ walk' = [walk EXCEPT ![t] = IF m = 0 THEN Nil ELSE ThreadList[m - 1]]
              /\ pc' = [pc EXCEPT ![t] = "unlink"]
              /\ UNCHANGED locked
      /\ UNCHANGED <<gtk, new, thread_list, next, alive, reinitialized>>

(* prev->next = p->next, or thread_list = p->next.                           *)
Unlinked(t) ==
  /\ pc[t] = "unlink"
  /\ \/ /\ walk[t] = Nil
        /\ thread_list' = next[t]
        /\ UNCHANGED <<next, touched>>
     \/ /\ walk[t] # Nil
        /\ next' = [next EXCEPT ![walk[t]] = next[t]]
        /\ touched' = (touched \/ walk[t] \notin alive)
        /\ UNCHANGED thread_list
  /\ pc' = [pc EXCEPT ![t] = "free"]
  /\ walk' = [walk EXCEPT ![t] = Nil]
  /\ UNCHANGED <<gtk, new, locked, alive, reinitialized>>

(* free and unlock: the end of the thread.                                   *)
Freed(t) ==
  /\ pc[t] = "free"
  /\ alive' = alive \ {t}
  /\ next' = [next EXCEPT ![t] = Nil]
  /\ pc' = [pc EXCEPT ![t] = "none"]
  /\ locked' = FALSE
  /\ UNCHANGED <<gtk, new, walk, thread_list, reinitialized, touched>>

run_command_callback == Link \/ Linked \/ pthread_create

run_service(t) == Ended(t) \/ Search(t) \/ Unlinked(t) \/ Freed(t)

CommandsNext == pthread_mutex_init \/ run_command_callback \/ \E t \in Threads : run_service(t)

CommandsSpec == CommandsInit /\ [][CommandsNext]_commands

-----------------------------------------------------------------------------
(* Properties. *)

InSection == {t \in Threads : pc[t] \in {"search", "unlink", "free"}}

(* As long as no call has initialized the mutex under a thread that holds it *)
(* (gui-service.c:579), one thread at a time is at the list, nothing freed   *)
(* is touched, no structure is lost, and outside the critical sections the   *)
(* list is exactly the commands that run.                                    *)
ThreadsKeepTheList ==
  ~reinitialized =>
    /\ Cardinality(InSection) + (IF gtk = "link" THEN 1 ELSE 0) = (IF locked THEN 1 ELSE 0)
    /\ ~touched
    /\ \A t \in Threads : pc[t] # "leaked"
    /\ ~locked => /\ {ThreadList[i] : i \in Places} \ {Nil} = alive
                  /\ ThreadList[Cardinality(alive)] = Nil
=============================================================================

---------------------------- MODULE Descriptors ----------------------------
(***************************************************************************)
(* What support.c and gps_client.c use of the operating system: the        *)
(* descriptor table of the process, and the calls in progress of its       *)
(* threads.  Both files open, use and close one descriptor at a time.      *)
(***************************************************************************)
EXTENDS Integers

CONSTANTS
  Threads,     (* the threads of the process                                *)
  MaxFds       (* size of the descriptor table                              *)

ASSUME DescriptorAssumption == MaxFds \in Nat

Fds == 1..MaxFds
NoFd == 0
Files == {"switch", "brightness", "delay_on", "delay_off", "event0", "socket"}

VARIABLES
  table,       (* the file behind each descriptor, or "free"                *)
  leaked,      (* history: descriptors whose owner returned without closing *)
  fd,          (* the local fd or sd of each thread                         *)
  pc,          (* where a thread is                                         *)
  call,        (* the arguments and the other local variables of its call   *)
  result,      (* what it returned, when it has                             *)
  crashed      (* has the process died of a segmentation fault?             *)

fdVars == <<table, leaked, fd>>
callVars == <<pc, call, result>>

NoCall == [fn |-> "none"]
Nothing == -2

DescriptorInit ==
  /\ table = [d \in Fds |-> "free"] /\ leaked = {}
  /\ fd = [t \in Threads |-> NoFd]
  /\ pc = [t \in Threads |-> "idle"]
  /\ call = [t \in Threads |-> NoCall]
  /\ result = [t \in Threads |-> Nothing]
  /\ crashed = FALSE

Free == {d \in Fds : table[d] = "free"}

(* open and socket: the lowest free descriptor. *)
Opened(t, file) ==
  \E d \in Free :
    /\ \A e \in Free : d <= e
    /\ table' = [table EXCEPT ![d] = file]
    /\ fd' = [fd EXCEPT ![t] = d]
    /\ UNCHANGED leaked

Closed(t) ==
  /\ table' = [table EXCEPT ![fd[t]] = "free"]
  /\ fd' = [fd EXCEPT ![t] = NoFd]
  /\ UNCHANGED leaked

(* The local variable is gone, the descriptor is still open. *)
Leaked(t) ==
  /\ leaked' = leaked \cup {fd[t]}
  /\ fd' = [fd EXCEPT ![t] = NoFd]
  /\ UNCHANGED table

At(t, here) == ~crashed /\ pc[t] = here

(* Thread t takes a step of its call that ends at next, or in a return.    *)
Go(t, next, locals) ==
  /\ pc' = [pc EXCEPT ![t] = next]
  /\ call' = [call EXCEPT ![t] = locals]
  /\ result' = [result EXCEPT ![t] = Nothing]

Return(t, value) ==
  /\ pc' = [pc EXCEPT ![t] = "idle"]
  /\ call' = [call EXCEPT ![t] = NoCall]
  /\ result' = [result EXCEPT ![t] = value]

(* Opens file and goes on, or returns an error: the file may be missing or *)
(* the table full.                                                         *)
OpenOr(t, file, next, locals, error) ==
  \/ Opened(t, file) /\ Go(t, next, locals)
  \/ UNCHANGED fdVars /\ Return(t, error)
=============================================================================

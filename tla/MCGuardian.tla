------------------------------ MODULE MCGuardian ------------------------------
(***************************************************************************)
(* The two ends of the guard: its thermal state machine under every        *)
(* sequence of calls (ProtectionController), and the process that replaces *)
(* a tray process that crashed or hangs (Supervisor).  They share no       *)
(* state: a behaviour is one of the part chosen at its start.  The thread  *)
(* between them has runs of its own (MCLocalProtectionWorker).             *)
(***************************************************************************)
EXTENDS ProtectionController, Supervisor

CONSTANT Parts   (* the parts to check *)

VARIABLE part

all == <<part, controller, vars>>

(* Three configurations: one that guards, one with another trigger, and    *)
(* one with nothing to lower.  Temperatures lie on both sides of every     *)
(* threshold of each.                                                      *)
Guard      == [normal |-> 3, safe |-> 1, trigger |-> 8, auto |-> TRUE]
Stricter   == [normal |-> 2, safe |-> 1, trigger |-> 6, auto |-> FALSE]
MonitorCfg == [normal |-> 2, safe |-> 2, trigger |-> 8, auto |-> FALSE]

ThreeConfigs == {Guard, Stricter, MonitorCfg}

(* The supervisor waits one tick or two before it starts a child again.    *)
OneAndTwoTicks == <<1, 2>>

(* What a part may start with is left open only in that part.              *)
GuardianInit ==
  /\ part \in Parts
  /\ Init
  /\ ControllerInit /\ (part # "controller" => c.cfg = Guard)

GuardianNext ==
  \/ part = "supervisor" /\ UNCHANGED <<part, controller>> /\ Next
  \/ part = "controller" /\ UNCHANGED <<part, vars>> /\ ControllerNext

(* The fairness Supervisor assumes.                                        *)
GuardianSpec ==
  /\ GuardianInit /\ [][GuardianNext]_all
  /\ WF_vars(part = "supervisor" /\ Elapse)
  /\ WF_vars(part = "supervisor" /\ Launch)
  /\ WF_vars(part = "supervisor" /\ Poll)
  /\ WF_vars(part = "supervisor" /\ Reap)
  /\ WF_vars(part = "supervisor" /\ BackoffEnds)
  /\ WF_vars(part = "supervisor" /\ Terminated)
  /\ WF_vars(part = "supervisor" /\ Bind)
  /\ WF_vars(part = "supervisor" /\ Pin)
  /\ WF_vars(part = "supervisor" /\ TakeRecoveryLatch)
=============================================================================

----------------------------- MODULE MC_Kernel ------------------------------
(***************************************************************************)
(* Instances of the process manager for TLC.  Calls selects a workload:    *)
(* the system calls the instance's processes make.                         *)
(***************************************************************************)
EXTENDS KernelProps

KinCalls   == {"create", "resume", "receive", "kill", "setnok", "clock"}
SemCalls   == {"create", "resume", "kill", "suspend", "chprio", "screate", "wait",
               "signal", "signaln", "sdelete", "sreset", "device", "clock"}
MsgCalls   == {"create", "resume", "kill", "suspend", "send", "receive",
               "recvclr", "recvtim", "sleep", "clock"}
WakeCalls  == {"create", "resume", "suspend", "kill", "sleep", "recvtim",
               "send", "clock"}
=============================================================================

----------------------------- MODULE MCHostLink -----------------------------
(***************************************************************************)
(* Small instances of HostLink for TLC.                                    *)
(***************************************************************************)
EXTENDS HostLink

AllCommands ==
  {"none", "StartRun", "StopRun", "AbortRun", "DebugOn", "DebugOff", "RunStatus",
   "SetCurrent", "UnlockSensor", "ReportSensor", "GetState", "ReportFault"}

Message(dest, command, answer) ==
  [dest |-> dest, command |-> command, answer |-> answer]

\* A launch with its data.
LaunchMessages ==
  {Message("Launch", "StartRun", TRUE), Message("Launch", "StopRun", TRUE)}

\* Every kind of request, answered or not.
AllMessages ==
  LaunchMessages \cup
  {Message("Launch", "AbortRun", FALSE), Message("Launch", "DebugOn", FALSE),
   Message("Launch", "DebugOff", TRUE), Message("Coil", "SetCurrent", TRUE),
   Message("Sensor", "UnlockSensor", FALSE), Message("Safety", "GetState", TRUE),
   Message("Launch", "RunStatus", TRUE), Message("Usb", "RunStatus", TRUE)}
=============================================================================

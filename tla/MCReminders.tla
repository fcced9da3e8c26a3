---------------------------- MODULE MCReminders -----------------------------
(* Reminders on a small instance: the calls and the loop overlap freely.   *)
EXTENDS Reminders
=============================================================================

---------------------------- MODULE Notification ----------------------------
(***************************************************************************)
(* The mailbox between the detectors and the scanner (notification.h): one *)
(* slot under a mutex.  notify overwrites what nobody took; wait blocks on *)
(* an empty slot and empties it.                                           *)
(***************************************************************************)
CONSTANT NoValue

VARIABLE slot

NotificationInit == slot = NoValue

Notify(v) == slot' = v

WaitFor(v) ==
  /\ slot = v
  /\ v # NoValue
  /\ slot' = NoValue

=============================================================================

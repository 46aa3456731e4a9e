-------------------------------- MODULE Lights ---------------------------------
(* The switches of the house (butler/services/smart_plugs.py).  Each tool call has *)
(* an event loop of its own: one task for a device, or one for each light that is  *)
(* awaited together with the others.  Calls of two tools run at the same time.     *)
EXTENDS Integers, FiniteSets

CONSTANTS
  Devices, Lamps,  \* the configured devices, and those of kind "light"
  Calls,           \* calls of the tools
  Retries,         \* _AUTH_RETRIES
  Faults           \* what may go wrong: "auth", "host", "switch", "close"

LightsAssumption == Lamps \subseteq Devices /\ Lamps # {} /\ Retries \in Nat

VARIABLES
  power,  \* device -> whether it is on
  call,   \* call -> what it was asked for and what it answered
  task    \* call -> device -> its task

lightsVars == <<power, call, task>>

NoTask == [pc |-> "none", attempt |-> 0, open |-> FALSE, switched |-> FALSE, failed |-> FALSE]
Over == {"none", "done"}

LiInit ==
  /\ power = [d \in Devices |-> FALSE]
  /\ call = [c \in Calls |-> [pc |-> "new", on |-> TRUE, devices |-> {}, counted |-> {}]]
  /\ task = [c \in Calls |-> [d \in Devices |-> NoTask]]

\* set_device_power takes one device, set_all_devices_power every light.
Ask(c, on, devices) ==
  /\ call[c].pc = "new" /\ (devices = Lamps \/ \E d \in Devices : devices = {d})
  /\ call' = [call EXCEPT ![c] = [@ EXCEPT !.pc = "running", !.on = on, !.devices = devices]]
  /\ task' = [task EXCEPT ![c] =
       [d \in Devices |-> IF d \in devices THEN [NoTask EXCEPT !.pc = "discover"] ELSE NoTask]]
  /\ UNCHANGED power

Become(c, d, new) == task' = [task EXCEPT ![c][d] = new] /\ UNCHANGED <<power, call>>
Fail(t) == [t EXCEPT !.pc = "done", !.failed = TRUE]

\* discover_single
Discover(c, d) ==
  /\ task[c][d].pc = "discover"
  /\ \/ Become(c, d, [task[c][d] EXCEPT !.pc = "update", !.open = TRUE])
     \/ "host" \in Faults /\ Become(c, d, Fail(task[c][d]))
     \/ /\ "auth" \in Faults
        /\ Become(c, d, IF task[c][d].attempt < Retries
                        THEN [task[c][d] EXCEPT !.attempt = @ + 1] ELSE Fail(task[c][d]))

\* device.update() authenticates: a refusal closes the device before the next try.
Update(c, d) ==
  /\ task[c][d].pc = "update"
  /\ \/ Become(c, d, [task[c][d] EXCEPT !.pc = "switch"])
     \/ "auth" \in Faults /\ Become(c, d, [task[c][d] EXCEPT !.pc = "retry"])
     \/ "host" \in Faults /\ Become(c, d, [task[c][d] EXCEPT !.pc = "abandon"])

\* The device of a failed try is closed; closing that fails takes the place of the
\* refusal, which then is not tried again.
CloseFailed(c, d) ==
  /\ task[c][d].pc \in {"retry", "abandon"}
  /\ LET t == [task[c][d] EXCEPT !.open = FALSE]
     IN \/ Become(c, d, IF t.pc = "retry" /\ t.attempt < Retries
                        THEN [t EXCEPT !.pc = "discover", !.attempt = @ + 1] ELSE Fail(t))
        \/ "close" \in Faults /\ Become(c, d, Fail(t))

\* turn_on and turn_off; an answer that is lost leaves the device switched.
Switch(c, d) ==
  /\ task[c][d].pc = "switch"
  /\ \/ /\ power' = [power EXCEPT ![d] = call[c].on]
        /\ \E lost \in {FALSE} \cup (IF "switch" \in Faults THEN {TRUE} ELSE {}) :
             task' = [task EXCEPT ![c][d] =
                       [@ EXCEPT !.pc = "close", !.switched = TRUE, !.failed = lost]]
     \/ /\ "switch" \in Faults /\ UNCHANGED power
        /\ task' = [task EXCEPT ![c][d] = [@ EXCEPT !.pc = "close", !.failed = TRUE]]
  /\ UNCHANGED call

\* The finally clause: an error here is the outcome of a task that had switched.
Close(c, d) ==
  /\ task[c][d].pc = "close"
  /\ LET t == [task[c][d] EXCEPT !.pc = "done", !.open = FALSE]
     IN Become(c, d, t) \/ ("close" \in Faults /\ Become(c, d, [t EXCEPT !.failed = TRUE]))

\* gather keeps the errors, so every task has ended; those without one are counted.
Answer(c) ==
  /\ call[c].pc = "running" /\ \A d \in Devices : task[c][d].pc \in Over
  /\ call' = [call EXCEPT ![c] = [@ EXCEPT !.pc = "answered",
                !.counted = {d \in call[c].devices : ~task[c][d].failed}]]
  /\ UNCHANGED <<power, task>>

LiNext ==
  \E c \in Calls :
    \/ \E on \in BOOLEAN, devices \in {Lamps} \cup {{d} : d \in Devices} : Ask(c, on, devices)
    \/ \E d \in Devices :
         Discover(c, d) \/ Update(c, d) \/ CloseFailed(c, d) \/ Switch(c, d) \/ Close(c, d)
    \/ Answer(c)

LiSpec == LiInit /\ [][LiNext]_lightsVars

-----------------------------------------------------------------------------
LightsTypeOK ==
  /\ power \in [Devices -> BOOLEAN]
  /\ \A c \in Calls :
       /\ call[c].pc \in {"new", "running", "answered"}
       /\ call[c].counted \subseteq call[c].devices
       /\ \A d \in Devices : task[c][d].attempt \in 0 .. Retries

\* However a try fails, and however often a handshake is refused, a call that has
\* answered leaves no device open (_connect, _set_power).
NothingIsLeftOpen ==
  \A c \in Calls, d \in Devices : task[c][d].pc \in {"discover"} \cup Over => ~task[c][d].open

\* A device that is counted was switched by this call, and is as it was asked for
\* unless another call switched it too; "all" never touches an appliance.  The other
\* way round nothing is claimed: a device may be switched and called failed.
CountedWereSwitched ==
  \A c \in Calls : call[c].pc = "answered" =>
    /\ \A d \in call[c].counted :
         /\ task[c][d].switched
         /\ power[d] = call[c].on \/ \E e \in Calls \ {c} : task[e][d].switched
    /\ \A d \in Devices \ Lamps : call[c].devices = Lamps => task[c][d] = NoTask

=============================================================================

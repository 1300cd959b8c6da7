------------------------------- MODULE PdmLed -------------------------------
(***************************************************************************)
(* The LED driver (kernel/pdm/drivers/led): the stored state of one LED and  *)
(* what its backend shows.  Every access to the stored state is made between *)
(* pdm_driver_claim and pdm_driver_release, so each request is one step; how *)
(* requests, open files and the removal interleave is the subject of        *)
(* PdmInstance.  A PWM can refuse a new setting and keeps the old one; a     *)
(* GPIO cannot; the memory backend shows nothing.                           *)
(***************************************************************************)
EXTENDS Naturals

CONSTANTS
    MaxLevel    \* bound of the brightness values

(* What the constants are; assumed by the module that instantiates this one. *)
LedAssumption == MaxLevel \in Nat \ {0}

VARIABLES
    place,      \* "absent"; in pdm_led_probe: "configured", "setup",
                \* "applied"; "bound"
    backend,    \* inst->ops, given by the node of the device
    stored,     \* inst->brightness, max_brightness, enabled
    held,       \* the backend holds the GPIO or the PWM
    light,      \* level the hardware shows
    astray      \* history: the hardware refused the setting of a diagnostic
                \* file and has taken none since

vars == <<place, backend, stored, held, light, astray>>

LedBackends == {"memory", "gpio", "pwm"}
Levels == 0 .. MaxLevel
Nothing == [brightness |-> 0, max |-> 0, enabled |-> FALSE]

Init ==
    /\ place = "absent"
    /\ backend \in LedBackends
    /\ stored = Nothing
    /\ held = FALSE
    /\ light = 0
    /\ astray = FALSE

-----------------------------------------------------------------------------
(* pdm_led_read_dt_config: max-brightness, default-brightness and            *)
(* default-state ("none" when the node has no such property); a default that *)
(* is out of range fails the probe.                                         *)

Configured(max, level, state) ==
    [max |-> max,
     brightness |-> IF state = "on" /\ level = 0 THEN max ELSE level,
     enabled |-> \/ state = "on"
                 \/ state \in {"keep", "none"} /\ level > 0]

(* pdm_led_probe; the backend follows from the compatible of the node.       *)
ProbeConfigure ==
    /\ place = "absent"
    /\ \E max \in Levels \ {0}, level \in Levels,
          state \in {"on", "off", "keep", "none"} :
          /\ level <= max
          /\ stored' = Configured(max, level, state)
    /\ place' = "configured"
    /\ UNCHANGED <<backend, held, light, astray>>

(* ops->setup: the GPIO is got low; the PWM as it is.                        *)
ProbeSetup ==
    /\ place = "configured"
    /\ held' = (backend # "memory")
    /\ light' = IF backend = "gpio" THEN 0 ELSE light
    /\ place' = "setup"
    /\ UNCHANGED <<backend, stored, astray>>

ProbeSetupFails ==
    /\ place = "configured"
    /\ place' = "absent"
    /\ stored' = Nothing
    /\ UNCHANGED <<backend, held, light, astray>>

(* What the backend's apply shows for a stored state.                        *)
Shown(s) ==
    CASE backend = "memory" -> 0
      [] backend = "gpio"   -> IF s.enabled /\ s.brightness > 0 THEN 1 ELSE 0
      [] backend = "pwm"    -> IF s.enabled THEN s.brightness ELSE 0

(* ops->apply, which a PWM may refuse.                                       *)
CanFail == backend = "pwm"

ProbeApply ==
    /\ place = "setup"
    /\ light' = Shown(stored)
    /\ place' = "applied"
    /\ UNCHANGED <<backend, stored, held, astray>>

(* ops->cleanup: switches off, and gives the hardware back; the result of    *)
(* switching a PWM off is not looked at.                                    *)
Cleanup ==
    /\ held' = FALSE
    /\ light' \in IF CanFail THEN {0, light} ELSE {0}

(* The first apply fails, or pdm_cdev_register does.                         *)
ProbeFails ==
    /\ \/ place = "setup" /\ CanFail
       \/ place = "applied"
    /\ Cleanup
    /\ place' = "absent"
    /\ stored' = Nothing
    /\ astray' = FALSE
    /\ UNCHANGED backend

(* The device node exists and the device is bound.                          *)
ProbeDone ==
    /\ place = "applied"
    /\ place' = "bound"
    /\ UNCHANGED <<backend, stored, held, light, astray>>

-----------------------------------------------------------------------------
(* Requests.  With(s): the new state is stored, applied, and taken back when *)
(* the hardware refuses it.                                                 *)

(* A faulty With that takes nothing back.                                   *)
WithKept(s) ==
    /\ place = "bound"
    /\ stored' = s
    /\ \/ light' = Shown(s) /\ astray' = FALSE
       \/ CanFail /\ UNCHANGED <<light, astray>>
    /\ UNCHANGED <<place, backend, held>>

With(s) ==
    /\ place = "bound"
    /\ \/ stored' = s /\ light' = Shown(s) /\ astray' = FALSE
       \/ CanFail /\ UNCHANGED <<stored, light, astray>>
    /\ UNCHANGED <<place, backend, held>>

(* A brightness above zero enables the LED; one above the maximum is refused. *)
Bright(level) ==
    [stored EXCEPT !.brightness = level,
                   !.enabled = @ \/ level > 0]

(* PDM_LED_IOC_SET_BRIGHTNESS.                                              *)
SetBrightness == \E level \in 0 .. stored.max : With(Bright(level))

(* PDM_LED_IOC_ENABLE, PDM_LED_IOC_DISABLE.                                 *)
SetEnabled == \E on \in BOOLEAN : With([stored EXCEPT !.enabled = on])

(* pdm_led_proc_write and pdm_led_debugfs_write store the new state, and     *)
(* keep it when the hardware refuses it.                                    *)
DiagWith(s) ==
    /\ place = "bound"
    /\ stored' = s
    /\ \/ light' = Shown(s) /\ astray' = FALSE
       \/ CanFail /\ UNCHANGED light /\ astray' = TRUE
    /\ UNCHANGED <<place, backend, held>>

DiagSet == \E level \in 0 .. stored.max : DiagWith(Bright(level))
DiagSwitch == \E on \in BOOLEAN : DiagWith([stored EXCEPT !.enabled = on])
DiagToggle == DiagWith([stored EXCEPT !.enabled = ~@])

(* pdm_led_remove.                                                          *)
Remove ==
    /\ place = "bound"
    /\ Cleanup
    /\ place' = "absent"
    /\ stored' = Nothing
    /\ astray' = FALSE
    /\ UNCHANGED backend

Next ==
    \/ ProbeConfigure \/ ProbeSetup \/ ProbeSetupFails \/ ProbeApply
    \/ ProbeFails \/ ProbeDone
    \/ SetBrightness \/ SetEnabled
    \/ DiagSet \/ DiagSwitch \/ DiagToggle
    \/ Remove

Spec == Init /\ [][Next]_vars

-----------------------------------------------------------------------------
(* The stored brightness never exceeds the maximum of the node.              *)
TypeOK ==
    /\ place \in {"absent", "configured", "setup", "applied", "bound"}
    /\ backend \in LedBackends
    /\ stored \in [brightness : Levels, max : Levels, enabled : BOOLEAN]
    /\ stored.brightness <= stored.max
    /\ held \in BOOLEAN
    /\ light \in Levels
    /\ astray \in BOOLEAN

(* What PDM_LED_IOC_GET_STATE reports of a bound LED is what the hardware    *)
(* shows, also after a request that the hardware refused.                   *)
StateIsShown == place = "bound" => light = Shown(stored)

(* With the one exception the code makes: when the hardware refuses the       *)
(* setting of a file of /proc or debugfs, the refused state stays until one   *)
(* is taken.  Only a PWM refuses.                                           *)
StateIsShownUnlessAstray ==
    place = "bound" /\ (astray => backend # "pwm") => light = Shown(stored)

(* Without an instance nothing holds the GPIO or the PWM, whichever step of  *)
(* the probe failed, and a GPIO is low.                                     *)
ReleasedWhenUnbound ==
    place = "absent" => ~held /\ (backend = "gpio" => light = 0)

=============================================================================

------------------------------- MODULE ModelPin -------------------------------
(***************************************************************************)
(* Pinning the model of a run: packages/runtime-acp/src/settings.ts, which *)
(* startRun calls before it attaches.  A pin reads the box's               *)
(* .claude/settings.json, adds its model and writes the whole file back,   *)
(* with up to three calls to the box.  writeFile is the `cat >` of         *)
(* computer-docker's computer.ts (DockerExec models the call itself): the  *)
(* file is emptied when the command opens it and filled as the bytes       *)
(* arrive, so a call that ends in between leaves it empty or cut off.      *)
(*                                                                         *)
(* The pins of one box follow one another.  Somebody else (the agent, a    *)
(* person) may add a setting at any time except while `cat` is writing.    *)
(***************************************************************************)
EXTENDS Naturals

CONSTANTS Settings,   \* what others put into the file
          MaxPins     \* bound: how many pins begin

ASSUME PinAssumption == "model" \notin Settings /\ MaxPins \in Nat

VARIABLES pinning,    \* where the pin under way is
          current,    \* the settings it read
          pinned,     \* what the last pin ended with
          pins,       \* how many have begun
          fileText,   \* of the file: an "object", "blank", "broken", "missing"
          settings,   \* the keys of the object
          added,      \* history: the settings somebody put there
          crossed,    \* history: those put between a pin's read and its write
          torn        \* history: a pin ended between opening and filling

pinCall    == <<pinning, current, pinned, pins>>
pinFile    == <<fileText, settings>>
pinHistory == <<added, crossed, torn>>
pinState   == <<pinCall, pinFile, pinHistory>>

PinInit == /\ pinning = "idle" /\ current = {} /\ pinned = "none" /\ pins = 0
           /\ fileText \in {"missing", "blank", "broken"} /\ settings = {}
           /\ added = {} /\ crossed = {} /\ torn = FALSE

(* The pin returns or throws.                                              *)
EndPin(how) == /\ pinning' = "idle" /\ pinned' = how
               /\ UNCHANGED <<current, pins>>

(* pinModel up to the first call; an empty model is refused.               *)
BeginPin == /\ pinning = "idle" /\ pins < MaxPins
            /\ pins' = pins + 1
            /\ \/ pinning' = "reading" /\ pinned' = "none"
               \/ pinning' = "idle" /\ pinned' = "invalid-input"
            /\ UNCHANGED <<current, pinFile, pinHistory>>

(* Mutant: the new text is made of the model alone. *)
ReadSettingsForgets ==
    /\ pinning = "reading" /\ fileText \in {"object", "blank"}
    /\ pinning' = "opening"
    /\ current' = {}
    /\ UNCHANGED <<pinned, pins, pinFile, pinHistory>>

(* readFile answers, and parseSettings looks at the text.  A blank one     *)
(* counts as no settings.                                                  *)
ReadSettings == /\ pinning = "reading" /\ fileText \in {"object", "blank"}
                /\ pinning' = "opening"
                /\ current' = (IF fileText = "object" THEN settings ELSE {})
                /\ UNCHANGED <<pinned, pins, pinFile, pinHistory>>

(* What is not an object is refused before the file is touched.            *)
ReadBrokenSettings == /\ pinning = "reading" /\ fileText = "broken"
                      /\ EndPin("invalid-input")
                      /\ UNCHANGED <<pinFile, pinHistory>>

ReadNoSettings == /\ pinning = "reading" /\ fileText = "missing"
                  /\ pinning' = "making" /\ current' = {}
                  /\ UNCHANGED <<pinned, pins, pinFile, pinHistory>>

(* `mkdir -p` of the directory.                                            *)
MakeParent == /\ pinning = "making"
              /\ \/ pinning' = "opening" /\ UNCHANGED <<current, pinned, pins>>
                 \/ EndPin("unavailable")
              /\ UNCHANGED <<pinFile, pinHistory>>

(* The redirection of WRITE_SCRIPT: the file is there, and empty.          *)
OpenSettings == /\ pinning = "opening"
                /\ pinning' = "filling"
                /\ fileText' = "blank" /\ settings' = {}
                /\ UNCHANGED <<current, pinned, pins, pinHistory>>

(* `cat` has written the text that withModel made.                         *)
FillSettings == /\ pinning = "filling"
                /\ pinning' = "answering"
                /\ fileText' = "object" /\ settings' = current \cup {"model"}
                /\ UNCHANGED <<current, pinned, pins, pinHistory>>

PinReturns == /\ pinning = "answering"
              /\ EndPin("ok")
              /\ UNCHANGED <<pinFile, pinHistory>>

(* `cat` sees its input end early: the connection broke, or the app died.  *)
TearSettings == /\ pinning = "filling"
                /\ EndPin("failed")
                /\ fileText' \in {"blank", "broken"} /\ torn' = TRUE
                /\ UNCHANGED <<settings, added, crossed>>

(* Any other call to the box fails, or the app dies: the file stays.       *)
BoxCallFails == /\ pinning \in {"reading", "making", "opening", "answering"}
                /\ EndPin("failed")
                /\ UNCHANGED <<pinFile, pinHistory>>

(* Somebody adds setting k to what the file holds.                         *)
AddSetting(k) ==
    /\ fileText # "broken" /\ pinning # "filling"
    /\ fileText' = "object" /\ settings' = settings \cup {k}
    /\ added' = added \cup {k}
    /\ crossed' = IF pinning \in {"making", "opening"} THEN crossed \cup {k} ELSE crossed
    /\ UNCHANGED <<pinCall, torn>>

PinNext == \/ BeginPin \/ ReadSettings \/ ReadBrokenSettings \/ ReadNoSettings
           \/ MakeParent \/ OpenSettings \/ FillSettings \/ PinReturns
           \/ TearSettings \/ BoxCallFails
           \/ \E k \in Settings : AddSetting(k)

PinSpec == PinInit /\ [][PinNext]_pinState

-----------------------------------------------------------------------------
PinTypes == /\ pinning \in {"idle", "reading", "making", "opening", "filling", "answering"}
            /\ {current, settings} \subseteq SUBSET (Settings \cup {"model"})
            /\ pinned \in {"none", "ok", "invalid-input", "unavailable", "failed"}
            /\ pins \in 0..MaxPins
            /\ fileText \in {"missing", "blank", "broken", "object"}
            /\ added \subseteq Settings /\ crossed \subseteq added /\ torn \in BOOLEAN

(* A setting somebody put into the file is still there, however many pins  *)
(* came, failed or were refused since, unless it was put while a pin was   *)
(* between its read and its write, or a write was cut off.                 *)
OnlyTearsDrop == fileText = "object" /\ ~torn => added \ crossed \subseteq settings
=============================================================================

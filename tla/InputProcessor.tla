--------------------------- MODULE InputProcessor ---------------------------
(***************************************************************************)
(* InputProcessor of monsgeek-transport: it turns the boot protocol        *)
(* reports of the keyboard into presses and releases on a virtual          *)
(* keyboard, and ignores a key pressed again too soon after its release.   *)
(*                                                                         *)
(* A report is a set of modifiers and a set of HID codes: the positions of *)
(* the codes in the six bytes, and duplicates among them, make no          *)
(* difference to what is emitted.  process_report_at is one call that      *)
(* emits its events in four groups; each group is a step here, so that the *)
(* order in which an application sees them is part of the model.           *)
(* Several codes may have one keycode (0x31 and 0x32 both do) and some     *)
(* have none (0x01, which a keyboard reports for too many keys, is one).   *)
(***************************************************************************)
EXTENDS Integers, FiniteSets

CONSTANTS
  Modifiers,    \* modifier keys, by their keycodes
  Codes,        \* HID codes of the other keys
  Keycodes,     \* keycodes the other keys are mapped to
  Unmapped,     \* the keycode 0 of HID_TO_LINUX
  HID_TO_LINUX, \* the keycode of a code
  DEBOUNCE_MS,  \* the debounce window, in units of the model's clock
  MaxTime       \* bound: the clock's last value

ASSUME KeymapAssumption ==
  /\ Unmapped \notin Keycodes
  /\ Modifiers \cap Keycodes = {}
  /\ HID_TO_LINUX \in [Codes -> Keycodes \cup {Unmapped}]
ASSUME TimeAssumption == DEBOUNCE_MS \in Nat /\ MaxTime \in Nat

VARIABLES
  prev_modifiers, \* modifiers of the last report
  prev_keys,      \* codes tracked as held
  release_times,  \* when each code was last released, None if never
  modifiers,      \* the report being processed, or processed last
  keys,
  now,            \* the time it is processed at
  stage,          \* what process_report_at emits next
  down,           \* keys held on the virtual keyboard
  up_at,          \* history: when each code's release was last emitted
  clock

processor == <<prev_modifiers, prev_keys, release_times, modifiers, keys, now,
               stage, down, up_at, clock>>

Time   == 0 .. MaxTime
None   == -1
Stages == {"read", "modifiers up", "modifiers down", "keys up", "keys down", "released"}

Keycode(code)  == HID_TO_LINUX[code]
KeycodesOf(cs) == {Keycode(c) : c \in cs} \ {Unmapped}
Never == [c \in Codes |-> None]

\* InputProcessor::new, for a session that was just opened.
ProcessorInit ==
  /\ prev_modifiers = {}
  /\ prev_keys = {}
  /\ release_times = Never
  /\ modifiers = {}
  /\ keys = {}
  /\ now = 0
  /\ stage = "read"
  /\ down = {}
  /\ up_at = Never
  /\ clock = 0

Reaches(s) == stage' = s

----------------------------------------------------------------------------

(* One call of process_report_at. *)

\* A full report; a short one is counted and otherwise ignored.
Report(ms, ks) ==
  /\ stage = "read"
  /\ modifiers' = ms
  /\ keys' = ks
  /\ now' = clock
  /\ Reaches("modifiers up")
  /\ UNCHANGED <<prev_modifiers, prev_keys, release_times, down, up_at, clock>>

ReleaseModifiers ==
  /\ stage = "modifiers up"
  /\ down' = down \ (prev_modifiers \ modifiers)
  /\ Reaches("modifiers down")
  /\ UNCHANGED <<prev_modifiers, prev_keys, release_times, modifiers, keys, now, up_at, clock>>

PressModifiers ==
  /\ stage = "modifiers down"
  /\ down' = down \cup (modifiers \ prev_modifiers)
  /\ Reaches("keys up")
  /\ UNCHANGED <<prev_modifiers, prev_keys, release_times, modifiers, keys, now, up_at, clock>>

Left == prev_keys \ keys

ReleaseKeys ==
  /\ stage = "keys up"
  /\ down' = down \ KeycodesOf(Left)
  /\ release_times' = [c \in Codes |-> IF c \in Left THEN now ELSE release_times[c]]
  /\ up_at' = [c \in Codes |-> IF c \in Left THEN now ELSE up_at[c]]
  /\ Reaches("keys down")
  /\ UNCHANGED <<prev_modifiers, prev_keys, modifiers, keys, now, clock>>

\* Mutant of Suppressed: the window is one unit short.
SuppressedAtEnd(code) ==
  /\ Keycode(code) # Unmapped
  /\ DEBOUNCE_MS > 0
  /\ release_times[code] # None
  /\ now - release_times[code] < DEBOUNCE_MS - 1

\* A code that comes back within the window is not pressed, and not tracked
\* either, so that the next report looks at it again.  An unmapped code is
\* tracked whenever it comes.
Suppressed(code) ==
  /\ Keycode(code) # Unmapped
  /\ DEBOUNCE_MS > 0
  /\ release_times[code] # None
  /\ now - release_times[code] < DEBOUNCE_MS

Pressed == {c \in keys \ prev_keys : ~ Suppressed(c)}

\* Mutant of PressKeys: a suppressed code is tracked as if it were held.
PressKeysTracksAll ==
  /\ stage = "keys down"
  /\ down' = down \cup KeycodesOf(Pressed)
  /\ prev_keys' = keys
  /\ prev_modifiers' = modifiers
  /\ Reaches("read")
  /\ UNCHANGED <<release_times, modifiers, keys, now, up_at, clock>>

\* Mutant of PressKeys: the codes carried over are not tracked any more.
PressKeysRepeats ==
  /\ stage = "keys down"
  /\ down' = down \cup KeycodesOf(Pressed)
  /\ prev_keys' = Pressed
  /\ prev_modifiers' = modifiers
  /\ Reaches("read")
  /\ UNCHANGED <<release_times, modifiers, keys, now, up_at, clock>>

PressKeys ==
  /\ stage = "keys down"
  /\ down' = down \cup KeycodesOf(Pressed)
  /\ prev_keys' = (keys \cap prev_keys) \cup Pressed
  /\ prev_modifiers' = modifiers
  /\ Reaches("read")
  /\ UNCHANGED <<release_times, modifiers, keys, now, up_at, clock>>

----------------------------------------------------------------------------

\* release_all_keys, called when the worker is told to stop or loses the
\* keyboard; its processor is not used after that.
ReleaseAll ==
  /\ stage = "read"
  /\ down' = down \ (KeycodesOf(prev_keys) \cup prev_modifiers)
  /\ prev_modifiers' = {}
  /\ prev_keys' = {}
  /\ release_times' = Never
  /\ Reaches("released")
  /\ UNCHANGED <<modifiers, keys, now, up_at, clock>>

Tick ==
  /\ clock < MaxTime
  /\ stage \in {"read", "released"}
  /\ clock' = clock + 1
  /\ UNCHANGED <<prev_modifiers, prev_keys, release_times, modifiers, keys, now,
                 stage, down, up_at>>

ProcessorNext ==
  \/ \E ms \in SUBSET Modifiers, ks \in SUBSET Codes : Report(ms, ks)
  \/ ReleaseModifiers
  \/ PressModifiers
  \/ ReleaseKeys
  \/ PressKeys
  \/ ReleaseAll
  \/ Tick

ProcessorSpec == ProcessorInit /\ [][ProcessorNext]_processor

----------------------------------------------------------------------------

ProcessorTypeOK ==
  /\ prev_modifiers \in SUBSET Modifiers
  /\ prev_keys \in SUBSET Codes
  /\ release_times \in [Codes -> Time \cup {None}]
  /\ modifiers \in SUBSET Modifiers
  /\ keys \in SUBSET Codes
  /\ now \in Time
  /\ stage \in Stages
  /\ down \in SUBSET (Modifiers \cup Keycodes)
  /\ up_at \in [Codes -> Time \cup {None}]
  /\ clock \in Time

\* Between reports the virtual keyboard holds no key that the last report did
\* not hold, and after release_all_keys it holds none: no key sticks, also
\* when two codes share a keycode or the keyboard reported too many keys.
NoGhostKeys ==
  /\ stage = "read" => down \subseteq modifiers \cup KeycodesOf(keys)
  /\ stage = "released" => down = {}

\* The only code to have its keycode.
Unshared(code) ==
  /\ Keycode(code) # Unmapped
  /\ \A c \in Codes \ {code} : Keycode(c) # Keycode(code)

\* Between reports every key of the last report is held, but for one whose
\* release was emitted less than the window before it: debouncing may delay a
\* press to the first report after the window and never loses it for longer.
\* (A code that shares its keycode is let go with the other one.)
HeldKeysAreDown ==
  stage = "read" =>
    /\ modifiers \subseteq down
    /\ \A c \in keys :
         Unshared(c) =>
           \/ Keycode(c) \in down
           \/ up_at[c] # None /\ now - up_at[c] < DEBOUNCE_MS

\* A key goes down while exactly the modifiers of its report are held, so that
\* a letter typed as a modifier goes up or down is shifted as the keyboard
\* reported it; and not within the window after its own release.
PressesAreClean ==
  [][\A c \in Codes :
       Unshared(c) /\ Keycode(c) \in down' \ down =>
         /\ down' \cap Modifiers = modifiers
         /\ up_at[c] # None => now - up_at[c] >= DEBOUNCE_MS]_processor
=============================================================================

------------------------------ MODULE Custody ------------------------------
(***************************************************************************)
(* What a takeover promises the owner of the client configuration files:   *)
(* a file is diverted to the proxy only after it has been saved, the saved *)
(* copy stays as long as the file is diverted, and only a switch of        *)
(* provider changes what the owner has.  A switch saves no file, gives     *)
(* none back, and diverts one only if a copy of it is saved already and    *)
(* its application is one that switches divert; nobody else saves, diverts *)
(* or gives back a file while its provider is being switched.  The promise *)
(* for a file may be released.                                             *)
(***************************************************************************)
CONSTANTS
    Apps,
    Following   \* the applications whose file a switch diverts

VARIABLES
    place,      \* place[a]: where the owner's settings are
    replaced,   \* replaced[a]: a switch has replaced them by a provider's
    switching   \* switching[a]: a switch of its provider is under way

Init ==
    /\ place = [a \in Apps |-> "own"]
    /\ replaced = [a \in Apps |-> FALSE]
    /\ switching = [a \in Apps |-> FALSE]

Move(S, from, to) ==
    /\ S # {} /\ \A a \in S : place[a] = from /\ ~switching[a]
    /\ place' = [a \in Apps |-> IF a \in S THEN to ELSE place[a]]
    /\ UNCHANGED <<replaced, switching>>

Save(a) == Move({a}, "own", "saved")
Divert(a) == Move({a}, "saved", "diverted")
Restore(a) == Move({a}, "diverted", "saved")
\* The copy is written back and dropped at once.
RollBack(a) == Move({a}, "diverted", "own")
\* Copies of files that are not diverted are dropped, several in one step.
Forget(S) == Move(S, "saved", "own")

Released(a) == [place EXCEPT ![a] = "released"]

BeginSwitch(a) ==
    /\ ~switching[a]
    /\ switching' = [switching EXCEPT ![a] = TRUE]
    /\ place' \in {place, Released(a)}
    /\ UNCHANGED replaced

\* What is being switched may be settings that are saved or in place; the step
\* may be the last one of the switch.
Replace(a) ==
    /\ switching[a]
    /\ switching' \in {switching, [switching EXCEPT ![a] = FALSE]}
    /\ replaced' = [replaced EXCEPT ![a] = TRUE]
    /\ UNCHANGED place

\* The switch ends by diverting a file that is saved.
Follow(a) ==
    /\ switching[a] /\ a \in Following
    /\ replaced[a] /\ place[a] = "saved"
    /\ place' = [place EXCEPT ![a] = "diverted"]
    /\ switching' = [switching EXCEPT ![a] = FALSE]
    /\ UNCHANGED replaced

\* Switches end without moving anything; a crash ends all of them at once.
EndSwitches(S) ==
    /\ S # {} /\ \A a \in S : switching[a]
    /\ switching' = [a \in Apps |-> switching[a] /\ a \notin S]
    /\ UNCHANGED <<place, replaced>>

Release(a) ==
    /\ place' = Released(a)
    /\ UNCHANGED <<replaced, switching>>

Next ==
    \/ \E a \in Apps :
          \/ Save(a) \/ Divert(a) \/ Restore(a) \/ RollBack(a) \/ Release(a)
          \/ BeginSwitch(a) \/ Replace(a) \/ Follow(a)
    \/ \E S \in SUBSET Apps : Forget(S) \/ EndSwitches(S)

Spec == Init /\ [][Next]_<<place, replaced, switching>>
=============================================================================

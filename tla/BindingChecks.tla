------------------------------ MODULE BindingChecks ---------------------------
(***************************************************************************)
(* What the host can ask of a binding without planning: to validate its    *)
(* raw input and to have Doctor look into it.  Both handlers read the very *)
(* same input, in either order, and Doctor as often as the host likes.     *)
(***************************************************************************)
EXTENDS InputValidation, DoctorHandler

CONSTANT Meaning  \* of the raw inputs that Doctor sees: what they name

\* The input as the handlers read it.
Parsed(input) ==
    LET in == ParseInputs(input) IN
    [Meaning[input] EXCEPT !.parsed = in.ok,
                           !.problems = IF in.ok THEN ValidateInputs(in) ELSE {}]

ASSUME MeaningAssumption ==
    /\ DOMAIN Meaning \subseteq RawInputs
    /\ \A input \in DOMAIN Meaning : Meaning[input] \in Inputs
    /\ DoctorInputs = {Parsed(input) : input \in DOMAIN Meaning}

vars == <<inputVars, doctorVars>>

Init == RawInit /\ DoctorInit

HostValidates == Validate /\ UNCHANGED doctorVars

HostCallsDoctor == /\ raw \in DOMAIN Meaning
                   /\ Doctor(Parsed(raw))
                   /\ UNCHANGED inputVars

\* The remote of an input that Doctor never sees stays as it is.
DoctorGoesOn == /\ raw \in DOMAIN Meaning
                /\ DoctorStep
                /\ UNCHANGED inputVars

Next == HostValidates \/ HostCallsDoctor \/ DoctorGoesOn

Spec == Init /\ [][Next]_vars

\* The two handlers keep their types side by side.
TypeOK == ValidateTypeOK /\ DoctorTypeOK

===============================================================================

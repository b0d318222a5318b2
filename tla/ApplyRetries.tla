------------------------------ MODULE ApplyRetries ----------------------------
(***************************************************************************)
(* A host that applies the plans it was given in any order, again and      *)
(* again: an action of one plan may come with another, a call may be       *)
(* retried after its reply was lost, and an abandoned one may arrive when  *)
(* a later plan has been applied already.                                  *)
(***************************************************************************)
EXTENDS ApplyHandler, Functions

CONSTANT Plans  \* the action lists of the plans the host may bind

ASSUME PlansAssumption ==
    Plans \subseteq Seq(AnyAction) /\ HandedActions \subseteq AnyAction

vars == <<setupVars, applyVars>>

Init == SetupTypeOK /\ ApplyInit

HostApply == /\ \E actions \in Plans :
                  \E action \in (UNION {Range(a) : a \in Plans}) \cup HandedActions :
                    ApplyAction(actions, action)
             /\ UNCHANGED setupVars

Proceed == ApplyStep /\ UNCHANGED setupVars

Next == HostApply \/ Proceed

Spec == Init /\ [][Next]_vars

-------------------------------------------------------------------------------

Authored == {Proposal(a) : a \in {b \in UNION {Range(actions) : actions \in Plans} :
                                    b.type = "PROJECT_OUTPUT"}}

\* Whatever is committed, and whenever it arrives, is a proposal that a plan
\* carried: an action that was forged or altered after planning never reaches an
\* output (apply.go:45-48, 88-97).
OutputsAreAuthored ==
    \A c \in committed :
      [contract |-> c.contract, target |-> c.target, values |-> c.values]
        \in Authored

-------------------------------------------------------------------------------

Recorded(c) == /\ held.contract = c
               /\ held.generation = outputs[c].generation

\* The host repeats the call whose commit it has no record of.
HostRetries(c) ==
    /\ outputs[c] # NoOutput /\ ~Recorded(c)
    /\ \E actions \in Plans : \E action \in Range(actions) :
         /\ Proposal(action) = [contract |-> c, target |-> outputs[c].target,
                                values |-> outputs[c].values]
         /\ ApplyAction(actions, action)
    /\ UNCHANGED setupVars

\* The host answers proposals, the provider finishes its calls, and a call that
\* was not acknowledged is retried in the end.
FairSpec == /\ Spec
            /\ WF_vars(AnswerProposal /\ UNCHANGED setupVars)
            /\ WF_vars(FinishApply /\ UNCHANGED setupVars)
            /\ \A c \in Contracts : SF_vars(HostRetries(c))

CanRecord == hosted /\ (held.kind = "v1" \/ (held = NoState /\ named))

\* A commit whose reply was lost, or that an abandoned call brought late, is
\* recorded on the state in the end: the retry is harmless and tells what was
\* committed.
CommitsAreRecorded ==
    CanRecord => \A c \in Contracts : []<>(outputs[c] = NoOutput \/ Recorded(c))

===============================================================================

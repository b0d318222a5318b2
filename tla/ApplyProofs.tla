------------------------------ MODULE ApplyProofs -----------------------------
(***************************************************************************)
(* The safety of ApplyAction under retries, lost replies, abandoned calls  *)
(* and late proposals.  What ties a receipt and a state to a commit is the *)
(* call in between: a proposal under way was authored, and a durable reply *)
(* names an entry of the commit history that no later step removes.        *)
(***************************************************************************)
EXTENDS ApplyRetries, TLAPS

Entry(c, output) == [contract |-> c, target |-> output.target,
                     generation |-> output.generation, values |-> output.values]

ProposalType == [contract : Contracts, target : Nat \ {0},
                 values : SUBSET OutputValue]

\* The host never numbers an output below the generation it was proposed for.
OutputType == {o \in [target : Nat, generation : Nat, values : SUBSET OutputValue] :
                 o.generation >= o.target}

ReplyType == [kind : {"none", "durable", "undurable", "failed"},
              generation : Nat, digest : SUBSET OutputValue]

StateType == [kind : {"none", "bare", "v1"}, contract : Contracts,
              generation : Nat, digest : SUBSET OutputValue]

\* Every action that a caller may hand.
Acts == (UNION {Range(actions) : actions \in Plans}) \cup HandedActions
          \cup {NoAction}

\* As much of the types as the proofs need.
Shape == /\ apply \in [pc : {"idle", "proposing", "replied"}, action : Acts,
                       reply : ReplyType]
         /\ held \in StateType
         /\ outputs \in [Contracts -> OutputType]

\* A proposal that is on its way was authored.
Underway == /\ apply.pc # "idle" =>
                 /\ apply.action.type = "PROJECT_OUTPUT"
                 /\ Proposal(apply.action) \in Authored \cap ProposalType
            /\ late \subseteq Authored \cap ProposalType

\* The latest outputs are in the history, which holds nothing unauthored.
History == /\ \A c \in Contracts :
                outputs[c] = NoOutput \/ Entry(c, outputs[c]) \in committed
           /\ OutputsAreAuthored

\* A durable reply names the output committed for the call's own proposal.
RepliesAreOfCommits ==
    apply.pc = "replied" =>
      /\ apply.reply.kind # "none"
      /\ apply.reply.kind = "durable" =>
           /\ [contract |-> apply.action.contract,
               target |-> apply.action.generation,
               generation |-> apply.reply.generation,
               values |-> apply.action.values] \in committed
           /\ apply.reply.digest = apply.action.values
           /\ apply.reply.generation > 0
           /\ apply.reply.generation <= outputs[apply.action.contract].generation

\* What is recorded is no later than what was committed, nor than a reply since.
RecordedInOrder ==
    held.generation > 0 =>
      /\ held.generation <= outputs[held.contract].generation
      /\ apply.pc = "replied" /\ apply.reply.kind = "durable"
           /\ apply.action.contract = held.contract =>
             held.generation <= apply.reply.generation

IInv == /\ Shape /\ Underway /\ History /\ RepliesAreOfCommits
        /\ ReceiptsAreOfCommits /\ StateRecordsOneCommit /\ RecordedInOrder

-------------------------------------------------------------------------------
(* What the host's fence lets through. *)

\* A result of the fence either leaves the last output of the contract or puts
\* the proposed one, of a later generation, in its place; a durable reply names
\* the output that results.
LEMMA FencedResult ==
  ASSUME outputs \in [Contracts -> OutputType],
         NEW p \in ProposalType, NEW r \in Fenced(p)
  PROVE  /\ r.output \in OutputType /\ r.reply \in ReplyType
         /\ r.output.generation >= outputs[p.contract].generation
         /\ \/ r.output = outputs[p.contract]
            \/ r.output.target = p.target /\ r.output.values = p.values
         /\ r.reply.kind # "none"
         /\ r.reply.kind = "durable" =>
              /\ r.output.target = p.target /\ r.output.values = p.values
              /\ r.reply.generation = r.output.generation
              /\ r.reply.generation > 0 /\ r.reply.digest = p.values
              /\ r.output # NoOutput
<1> DEFINE last == outputs[p.contract]
<1>1. last \in OutputType /\ p.target \in Nat /\ p.target > 0
        /\ p.values \in SUBSET OutputValue
  BY DEF ProposalType
<1>2. last.generation \in Nat /\ last.target \in Nat
  BY <1>1 DEF OutputType
<1>3. CASE p.target = last.target /\ p.values = last.values
  <2>1. r = Result(last, Reply("durable", last.generation, last.values))
    BY <1>3 DEF Fenced
  <2>2. r.output = last /\ r.reply = Reply("durable", last.generation, last.values)
    BY <2>1 DEF Result
  <2>3. last # NoOutput /\ last.generation > 0
    BY <1>1, <1>3 DEF NoOutput, OutputType
  <2> HIDE DEF last
  <2>4. r.reply \in ReplyType
    BY <1>1, <2>2 DEF ReplyType, Reply, OutputType
  <2> QED
    BY <1>1, <1>2, <1>3, <2>2, <2>3, <2>4 DEF Reply, last
<1>4. CASE ~(p.target = last.target /\ p.values = last.values)
             /\ p.target > last.generation
  <2>1. PICK g \in (p.target..(p.target + MaxSkip)) \cap (1..MaxGeneration) :
          r = Result([target |-> p.target, generation |-> g, values |-> p.values],
                     Reply("durable", g, p.values))
    BY <1>4 DEF Fenced
  <2>2. r.output = [target |-> p.target, generation |-> g, values |-> p.values]
          /\ r.reply = Reply("durable", g, p.values)
    BY <2>1 DEF Result
  <2>3. g \in Nat /\ g >= p.target /\ g >= last.generation /\ g > 0
    BY <1>1, <1>2, <1>4, ApplyAssumption
  <2>4. r.output # NoOutput
    BY <1>1, <2>2 DEF NoOutput
  <2> HIDE DEF last
  <2>5. r.output \in OutputType /\ r.reply \in ReplyType
    BY <1>1, <2>2, <2>3 DEF OutputType, ReplyType, Reply
  <2> QED
    BY <2>2, <2>3, <2>4, <2>5 DEF Reply, last
<1>5. CASE ~(p.target = last.target /\ p.values = last.values)
             /\ ~(p.target > last.generation)
  <2>1. r = Result(last, Reply("failed", 0, {}))
    BY <1>5 DEF Fenced
  <2>2. r.output = last /\ r.reply = Reply("failed", 0, {})
    BY <2>1 DEF Result
  <2> HIDE DEF last
  <2>3. r.reply \in ReplyType
    BY <2>2 DEF ReplyType, Reply
  <2> QED
    BY <1>1, <1>2, <2>2, <2>3 DEF Reply, last
<1> QED
  BY <1>3, <1>4, <1>5

\* So it is for a failing commit, except that its reply is never durable.
LEMMA FailingResult ==
  ASSUME outputs \in [Contracts -> OutputType],
         NEW p \in ProposalType, NEW r \in Failing(p)
  PROVE  /\ r.output \in OutputType /\ r.reply \in ReplyType
         /\ r.output.generation >= outputs[p.contract].generation
         /\ \/ r.output = outputs[p.contract]
            \/ r.output.target = p.target /\ r.output.values = p.values
         /\ r.reply.kind \notin {"durable", "none"}
<1>1. CASE \E q \in Fenced(p) : r = Result(q.output, Reply("failed", 0, {}))
  <2>1. PICK q \in Fenced(p) : r = Result(q.output, Reply("failed", 0, {}))
    BY <1>1
  <2>2. r.output = q.output /\ r.reply = Reply("failed", 0, {})
    BY <2>1 DEF Result
  <2>3. r.reply \in ReplyType /\ r.reply.kind \notin {"durable", "none"}
    BY <2>2 DEF ReplyType, Reply
  <2> QED
    BY <2>2, <2>3, FencedResult
<1>2. CASE \E kind \in {"failed", "undurable"} :
             r = Result(outputs[p.contract], Reply(kind, 0, {}))
  <2>1. PICK kind \in {"failed", "undurable"} :
          r = Result(outputs[p.contract], Reply(kind, 0, {}))
    BY <1>2
  <2>2. r.output = outputs[p.contract] /\ r.reply = Reply(kind, 0, {})
    BY <2>1 DEF Result
  <2>3. r.reply \in ReplyType /\ r.reply.kind \notin {"durable", "none"}
    BY <2>2 DEF ReplyType, Reply
  <2>4. outputs[p.contract] \in OutputType
    BY DEF ProposalType
  <2>5. outputs[p.contract].generation \in Nat
    BY <2>4 DEF OutputType
  <2> QED
    BY <2>2, <2>3, <2>4, <2>5
<1> QED
  BY <1>1, <1>2 DEF Failing

\* A commit extends the history by an authored entry and keeps its agreement
\* with the latest outputs, whose generations never fall.
LEMMA CommitExtends ==
  ASSUME outputs \in [Contracts -> OutputType], History,
         NEW p \in Authored \cap ProposalType, NEW output \in OutputType,
         output.generation >= outputs[p.contract].generation,
         \/ output = outputs[p.contract]
         \/ output.target = p.target /\ output.values = p.values,
         Commit(p, output)
  PROVE  /\ outputs' \in [Contracts -> OutputType]
         /\ committed \subseteq committed'
         /\ History'
         /\ output # NoOutput => Entry(p.contract, output) \in committed'
         /\ \A c \in Contracts : outputs'[c].generation >= outputs[c].generation
<1>1. p.contract \in Contracts
  BY DEF ProposalType
<1>2. /\ outputs' = [outputs EXCEPT ![p.contract] = output]
      /\ committed' = IF output = NoOutput THEN committed
                      ELSE committed \cup {Entry(p.contract, output)}
  BY DEF Commit, Entry
<1>3. outputs' \in [Contracts -> OutputType] /\ outputs'[p.contract] = output
        /\ \A c \in Contracts \ {p.contract} : outputs'[c] = outputs[c]
  BY <1>1, <1>2
<1>4. committed \subseteq committed'
  BY <1>2
<1>5. output # NoOutput => Entry(p.contract, output) \in committed'
  BY <1>2
<1>6. \A c \in Contracts : outputs'[c] = NoOutput \/ Entry(c, outputs'[c]) \in committed'
  BY <1>3, <1>4, <1>5 DEF History
<1>7. OutputsAreAuthored'
  <2> SUFFICES ASSUME NEW e \in committed'
               PROVE  [contract |-> e.contract, target |-> e.target,
                       values |-> e.values] \in Authored
    BY DEF OutputsAreAuthored
  <2>1. CASE e \in committed
    BY <2>1 DEF History, OutputsAreAuthored
  <2>2. CASE output # NoOutput /\ e = Entry(p.contract, output)
    <3>1. CASE output = outputs[p.contract]
      BY <1>1, <2>2, <3>1 DEF History, OutputsAreAuthored
    <3>2. CASE output.target = p.target /\ output.values = p.values
      <4>1. e.contract = p.contract /\ e.target = p.target /\ e.values = p.values
        BY <2>2, <3>2 DEF Entry
      <4>2. p = [contract |-> p.contract, target |-> p.target, values |-> p.values]
        BY DEF ProposalType
      <4> QED
        BY <4>1, <4>2
    <3> QED
      BY <3>1, <3>2
  <2> QED
    BY <1>2, <2>1, <2>2
<1>8. \A c \in Contracts : outputs'[c].generation >= outputs[c].generation
  <2> TAKE c \in Contracts
  <2>1. outputs[c].generation \in Nat
    BY DEF OutputType
  <2> QED
    BY <1>3, <2>1
<1> QED
  BY <1>3, <1>4, <1>5, <1>6, <1>7, <1>8 DEF History

-------------------------------------------------------------------------------
(* The inductive invariant. *)

\* The action of an idle host is of no type the provider knows.
LEMMA NoActionIsInert == NoAction.type = "NONE" /\ NoAction \in Acts
<1>1. NoAction.type = "NONE"
  BY DEF NoAction, Action
<1>2. NoAction \in Acts
  BY DEF Acts
<1> QED
  BY <1>1, <1>2

\* Nothing was applied yet.
LEMMA InitIInv == Init => IInv
<1> SUFFICES ASSUME Init PROVE IInv
  OBVIOUS
<1> USE DEF Init, ApplyInit
<1>1. Shape
  <2>1. apply = [pc |-> "idle", action |-> NoAction, reply |-> NoReply]
    BY DEF NoApply
  <2>2. NoReply \in ReplyType
    BY DEF NoReply, Reply, ReplyType
  <2>3. NoAction \in Acts
    BY NoActionIsInert
  <2>4. held \in StateType
    BY DEF PriorStates, NoState, ProviderState, StateType, Contracts
  <2>5. NoOutput \in OutputType
    BY DEF NoOutput, OutputType
  <2> QED
    BY <2>1, <2>2, <2>3, <2>4, <2>5 DEF Shape
<1>2. Underway /\ RepliesAreOfCommits
  BY DEF Underway, RepliesAreOfCommits, NoApply
<1>3. History
  BY DEF History, OutputsAreAuthored
<1>4. ReceiptsAreOfCommits
  BY NoActionIsInert DEF ReceiptsAreOfCommits, Returned
<1>5. StateRecordsOneCommit /\ RecordedInOrder
  BY DEF StateRecordsOneCommit, RecordedInOrder, PriorStates, NoState, ProviderState
<1> QED
  BY <1>1, <1>2, <1>3, <1>4, <1>5 DEF IInv

\* Nothing but a receipt of "no action" comes with a refusal.
LEMMA RefuseKeeps ==
  ASSUME IInv, NEW code, Refuse(code),
         UNCHANGED <<named, outputs, committed, late, mishaps>>
  PROVE  IInv'
<1>1. apply' = NoApply /\ held' = held /\ applied'.receipt = NoAction
  BY DEF Refuse, Returned
<1>2. NoApply \in [pc : {"idle", "proposing", "replied"}, action : Acts,
                   reply : ReplyType]
  BY NoActionIsInert DEF NoApply, NoReply, Reply, ReplyType
<1>3. Shape'
  BY <1>1, <1>2 DEF IInv, Shape
<1>4. Underway' /\ RepliesAreOfCommits'
  BY <1>1 DEF IInv, Underway, RepliesAreOfCommits, NoApply
<1>5. History'
  BY DEF IInv, History, OutputsAreAuthored
<1>6. ReceiptsAreOfCommits'
  BY <1>1, NoActionIsInert DEF ReceiptsAreOfCommits
<1>7. StateRecordsOneCommit' /\ RecordedInOrder'
  BY <1>1 DEF IInv, StateRecordsOneCommit, RecordedInOrder, NoApply
<1> QED
  BY <1>3, <1>4, <1>5, <1>6, <1>7 DEF IInv

\* A projection that gets as far as the host is one of the bound plan's.
LEMMA ProposalsAreAuthored ==
  ASSUME NEW actions \in Plans, NEW action,
         action.type = "PROJECT_OUTPUT",
         ActionInPlan(actions, action), HasProposal(action)
  PROVE  Proposal(action) \in Authored \cap ProposalType
<1>1. PICK i \in DOMAIN actions : actions[i] = action
  BY DEF ActionInPlan
<1>2. action \in Range(actions)
  BY <1>1 DEF Range
<1>3. Proposal(action) \in Authored
  BY <1>2 DEF Authored
<1>4. actions \in Seq(AnyAction)
  BY PlansAssumption
<1>5. action \in AnyAction
  BY <1>1, <1>4
<1>6. Proposal(action) \in ProposalType
  BY <1>5 DEF AnyAction, Proposal, ProposalType, HasProposal
<1> QED
  BY <1>3, <1>6

\* A call proposes only what a plan authored.
LEMMA HostApplyKeeps == IInv /\ HostApply => IInv'
<1> SUFFICES ASSUME IInv, HostApply PROVE IInv'
  OBVIOUS
<1>1. PICK actions \in Plans,
           action \in (UNION {Range(a) : a \in Plans}) \cup HandedActions :
        ApplyAction(actions, action)
  BY DEF HostApply
<1>2. action \in Acts
  BY DEF Acts
<1>3. UNCHANGED <<named, outputs, committed, late, mishaps>>
  BY <1>1 DEF ApplyAction
<1>4. ASSUME NEW code, Refuse(code) PROVE IInv'
  BY <1>3, <1>4, RefuseKeeps
<1>5. CASE /\ action.type = "PROJECT_OUTPUT"
           /\ ActionInPlan(actions, action) /\ HasProposal(action)
           /\ apply' = [pc |-> "proposing", action |-> action, reply |-> NoReply]
           /\ UNCHANGED <<held, applied>>
  <2>1. Proposal(action) \in Authored \cap ProposalType
    BY <1>5, ProposalsAreAuthored
  <2>2. NoReply \in ReplyType
    BY DEF NoReply, Reply, ReplyType
  <2>3. Shape'
    BY <1>2, <1>3, <1>5, <2>2 DEF IInv, Shape
  <2>4. Underway' /\ RepliesAreOfCommits'
    BY <1>3, <1>5, <2>1 DEF IInv, Underway, RepliesAreOfCommits, Proposal
  <2>5. History'
    BY <1>3 DEF IInv, History, OutputsAreAuthored
  <2>6. ReceiptsAreOfCommits' /\ StateRecordsOneCommit'
    BY <1>3, <1>5 DEF IInv, ReceiptsAreOfCommits, StateRecordsOneCommit
  <2>7. RecordedInOrder'
    BY <1>3, <1>5 DEF IInv, RecordedInOrder
  <2> QED
    BY <2>3, <2>4, <2>5, <2>6, <2>7 DEF IInv
<1>6. CASE action.type = "NO_OP" /\ ApplyInert(action)
  <2>1. UNCHANGED <<held, apply>> /\ applied'.receipt.type = "NO_OP"
    BY <1>6 DEF ApplyInert, Returned
  <2>2. Shape' /\ Underway' /\ RepliesAreOfCommits'
    BY <1>3, <2>1 DEF IInv, Shape, Underway, RepliesAreOfCommits
  <2>3. History'
    BY <1>3 DEF IInv, History, OutputsAreAuthored
  <2>4. ReceiptsAreOfCommits'
    BY <2>1 DEF ReceiptsAreOfCommits
  <2>5. StateRecordsOneCommit' /\ RecordedInOrder'
    BY <1>3, <2>1 DEF IInv, StateRecordsOneCommit, RecordedInOrder
  <2> QED
    BY <2>2, <2>3, <2>4, <2>5 DEF IInv
<1>7. CASE action.type = "PROJECT_OUTPUT" /\ ApplyProjectOutput(actions, action)
  BY <1>4, <1>5, <1>7 DEF ApplyProjectOutput
<1> QED
  BY <1>1, <1>4, <1>6, <1>7 DEF ApplyAction

\* The provider ends a call: it takes an entry of the history, or fails.
LEMMA FinishKeeps == IInv /\ FinishApply => IInv'
<1> SUFFICES ASSUME IInv, FinishApply PROVE IInv'
  OBVIOUS
<1>1. UNCHANGED <<named, outputs, committed, late, mishaps>>
  BY DEF FinishApply
<1>2. ASSUME NEW code, Refuse(code) PROVE IInv'
  BY <1>1, <1>2, RefuseKeeps
<1>3. CASE /\ apply.pc = "replied" /\ apply.reply.kind \notin {"failed", "undurable"}
           /\ applied' = Returned("OK", apply.action)
           /\ held' = ProjectedState(apply.action, apply.reply)
           /\ apply' = NoApply
  <2> DEFINE c == [contract |-> apply.action.contract,
                   target |-> apply.action.generation,
                   generation |-> apply.reply.generation,
                   values |-> apply.action.values]
  <2>1. apply.reply \in ReplyType /\ apply.action \in Acts
    BY DEF IInv, Shape
  <2>2. apply.reply.kind = "durable"
    BY <1>3, <2>1 DEF IInv, RepliesAreOfCommits, ReplyType
  <2>3. /\ c \in committed /\ apply.reply.digest = apply.action.values
        /\ apply.reply.generation > 0
        /\ apply.reply.generation <= outputs[apply.action.contract].generation
    BY <1>3, <2>2 DEF IInv, RepliesAreOfCommits
  <2>4. Proposal(apply.action) \in ProposalType
    BY <1>3 DEF IInv, Underway
  <2>5. apply.action.contract \in Contracts
    BY <2>4 DEF Proposal, ProposalType
  <2>6. \/ held' = held
        \/ held' = [kind |-> "v1", contract |-> apply.action.contract,
                    generation |-> apply.reply.generation,
                    digest |-> apply.reply.digest]
    BY <1>3 DEF ProjectedState, ProviderState
  <2>7. applied'.receipt = apply.action /\ apply' = NoApply
    BY <1>3 DEF Returned
  <2>8. Shape'
    <3>1. held' \in StateType
      BY <2>1, <2>5, <2>6 DEF IInv, Shape, StateType, ReplyType
    <3>2. apply' \in [pc : {"idle", "proposing", "replied"}, action : Acts,
                      reply : ReplyType]
      BY <2>7, NoActionIsInert DEF NoApply, NoReply, Reply, ReplyType
    <3> QED
      BY <1>1, <3>1, <3>2 DEF IInv, Shape
  <2>9. Underway' /\ RepliesAreOfCommits'
    BY <1>1, <2>7 DEF IInv, Underway, RepliesAreOfCommits, NoApply
  <2>10. History'
    BY <1>1 DEF IInv, History, OutputsAreAuthored
  <2>11. ReceiptsAreOfCommits'
    <3>1. c \in committed' /\ c.contract = applied'.receipt.contract
            /\ c.target = applied'.receipt.generation
            /\ c.values = applied'.receipt.values
      BY <1>1, <2>3, <2>7
    <3> HIDE DEF c
    <3> QED
      BY <3>1 DEF ReceiptsAreOfCommits
  <2>12. StateRecordsOneCommit'
    <3>1. CASE held' = held
      BY <1>1, <3>1 DEF IInv, StateRecordsOneCommit
    <3>2. CASE held' = [kind |-> "v1", contract |-> apply.action.contract,
                        generation |-> apply.reply.generation,
                        digest |-> apply.reply.digest]
      <4>1. c \in committed' /\ c.contract = held'.contract
              /\ c.generation = held'.generation /\ c.values = held'.digest
        BY <1>1, <2>3, <3>2
      <4> HIDE DEF c
      <4> QED
        BY <4>1 DEF StateRecordsOneCommit
    <3> QED
      BY <2>6, <3>1, <3>2
  <2>13. RecordedInOrder'
    <3>1. apply'.pc = "idle"
      BY <2>7 DEF NoApply
    <3>2. CASE held' = held
      BY <1>1, <3>1, <3>2 DEF IInv, RecordedInOrder
    <3>3. CASE held' = [kind |-> "v1", contract |-> apply.action.contract,
                        generation |-> apply.reply.generation,
                        digest |-> apply.reply.digest]
      BY <1>1, <2>3, <3>1, <3>3 DEF RecordedInOrder
    <3> QED
      BY <2>6, <3>2, <3>3
  <2> QED
    BY <2>8, <2>9, <2>10, <2>11, <2>12, <2>13 DEF IInv
<1> QED
  BY <1>2, <1>3 DEF FinishApply

\* What every commit keeps, whichever call it belongs to.
LEMMA CommitKeeps ==
  ASSUME IInv, outputs' \in [Contracts -> OutputType], committed \subseteq committed',
         \A c \in Contracts : outputs'[c].generation >= outputs[c].generation,
         UNCHANGED <<held, applied>>
  PROVE  /\ ReceiptsAreOfCommits' /\ StateRecordsOneCommit'
         /\ held'.generation > 0 =>
              held'.generation <= outputs'[held'.contract].generation
<1>1. ReceiptsAreOfCommits' /\ StateRecordsOneCommit'
  BY DEF IInv, ReceiptsAreOfCommits, StateRecordsOneCommit
<1>2. held.contract \in Contracts /\ held.generation \in Nat
  BY DEF IInv, Shape, StateType
<1>3. outputs[held.contract].generation \in Nat
        /\ outputs'[held.contract].generation \in Nat
  BY <1>2 DEF IInv, Shape, OutputType
<1>4. held.generation > 0 => held.generation <= outputs[held.contract].generation
  BY DEF IInv, RecordedInOrder
<1>5. held.generation > 0 => held.generation <= outputs'[held.contract].generation
  BY <1>2, <1>3, <1>4
<1> QED
  BY <1>1, <1>5

\* The host answers a proposal, and may commit it.
LEMMA AnswerKeeps == IInv /\ AnswerProposal => IInv'
<1> SUFFICES ASSUME IInv, AnswerProposal PROVE IInv'
  OBVIOUS
<1> DEFINE p == Proposal(apply.action)
<1>1. apply.pc = "proposing" /\ UNCHANGED <<named, applied, held, late>>
  BY DEF AnswerProposal
<1>2. PICK r \in Fenced(p) \cup Failing(p) :
        /\ Commit(p, r.output)
        /\ apply' = [apply EXCEPT !.pc = "replied", !.reply = r.reply]
  BY DEF AnswerProposal
<1>3. p \in Authored \cap ProposalType /\ apply.action.type = "PROJECT_OUTPUT"
  BY <1>1 DEF IInv, Underway
<1>4. outputs \in [Contracts -> OutputType] /\ History
        /\ apply \in [pc : {"idle", "proposing", "replied"}, action : Acts,
                      reply : ReplyType]
        /\ held \in StateType
  BY DEF IInv, Shape
<1>5. /\ p.contract = apply.action.contract /\ p.target = apply.action.generation
      /\ p.values = apply.action.values
  BY DEF Proposal
<1> HIDE DEF p
<1>6. /\ r.output \in OutputType /\ r.reply \in ReplyType
      /\ r.output.generation >= outputs[p.contract].generation
      /\ \/ r.output = outputs[p.contract]
         \/ r.output.target = p.target /\ r.output.values = p.values
      /\ r.reply.kind # "none"
      /\ r.reply.kind = "durable" =>
           /\ r.output.target = p.target /\ r.output.values = p.values
           /\ r.reply.generation = r.output.generation
           /\ r.reply.generation > 0 /\ r.reply.digest = p.values
           /\ r.output # NoOutput
  BY <1>2, <1>3, <1>4, FencedResult, FailingResult
<1>7. /\ outputs' \in [Contracts -> OutputType]
      /\ committed \subseteq committed'
      /\ History'
      /\ r.output # NoOutput => Entry(p.contract, r.output) \in committed'
      /\ \A c \in Contracts : outputs'[c].generation >= outputs[c].generation
  BY <1>2, <1>3, <1>4, <1>6, CommitExtends
<1>8. /\ apply'.pc = "replied" /\ apply'.action = apply.action
      /\ apply'.reply = r.reply
      /\ apply' \in [pc : {"idle", "proposing", "replied"}, action : Acts,
                     reply : ReplyType]
  BY <1>2, <1>4, <1>6
<1>9. outputs'[p.contract] = r.output
  BY <1>2, <1>3, <1>4 DEF Commit, ProposalType
<1>10. Shape'
  BY <1>1, <1>4, <1>7, <1>8 DEF Shape
<1>11. Underway'
  BY <1>1, <1>3, <1>8 DEF IInv, Underway, Proposal, p
<1>12. RepliesAreOfCommits'
  <2>1. apply'.reply.kind # "none"
    BY <1>6, <1>8
  <2>2. ASSUME r.reply.kind = "durable"
        PROVE  /\ [contract |-> apply.action.contract,
                   target |-> apply.action.generation,
                   generation |-> r.reply.generation,
                   values |-> apply.action.values] \in committed'
               /\ r.reply.digest = apply.action.values
               /\ r.reply.generation > 0
               /\ r.reply.generation <= outputs'[apply.action.contract].generation
    <3>1. r.output.generation \in Nat
      BY <1>6 DEF OutputType
    <3> QED
      BY <1>5, <1>6, <1>7, <1>9, <2>2, <3>1 DEF Entry
  <2> QED
    BY <1>8, <2>1, <2>2 DEF RepliesAreOfCommits
<1>13. ReceiptsAreOfCommits' /\ StateRecordsOneCommit'
         /\ (held'.generation > 0 =>
               held'.generation <= outputs'[held'.contract].generation)
  BY <1>1, <1>7, CommitKeeps
<1>14. RecordedInOrder'
  <2>1. ASSUME held'.generation > 0, r.reply.kind = "durable",
               apply.action.contract = held'.contract
        PROVE  held'.generation <= r.reply.generation
    BY <1>5, <1>6, <1>9, <1>13, <2>1
  <2> QED
    BY <1>8, <1>13, <2>1 DEF RecordedInOrder
<1> QED
  BY <1>7, <1>10, <1>11, <1>12, <1>13, <1>14 DEF IInv

\* A call given up leaves its proposal behind.
LEMMA AbandonKeeps == IInv /\ AbandonApply => IInv'
<1> SUFFICES ASSUME IInv, AbandonApply PROVE IInv'
  OBVIOUS
<1>1. /\ apply.pc # "idle" /\ apply' = NoApply
      /\ late' \subseteq late \cup {Proposal(apply.action)}
      /\ applied'.receipt = NoAction
      /\ UNCHANGED <<named, held, outputs, committed>>
  BY DEF AbandonApply, Returned
<1>2. NoApply \in [pc : {"idle", "proposing", "replied"}, action : Acts,
                   reply : ReplyType]
  BY NoActionIsInert DEF NoApply, NoReply, Reply, ReplyType
<1>3. Shape'
  BY <1>1, <1>2 DEF IInv, Shape
<1>4. Underway' /\ RepliesAreOfCommits'
  BY <1>1 DEF IInv, Underway, RepliesAreOfCommits, NoApply
<1>5. History'
  BY <1>1 DEF IInv, History, OutputsAreAuthored
<1>6. ReceiptsAreOfCommits'
  BY <1>1, NoActionIsInert DEF ReceiptsAreOfCommits
<1>7. StateRecordsOneCommit' /\ RecordedInOrder'
  BY <1>1 DEF IInv, StateRecordsOneCommit, RecordedInOrder, NoApply
<1> QED
  BY <1>3, <1>4, <1>5, <1>6, <1>7 DEF IInv

\* A proposal left behind arrives after all.
LEMMA LateKeeps == IInv /\ LateProposal => IInv'
<1> SUFFICES ASSUME IInv, LateProposal PROVE IInv'
  OBVIOUS
<1>1. UNCHANGED <<named, apply, applied, held, mishaps>> /\ late' \subseteq late
  BY DEF LateProposal
<1>2. outputs \in [Contracts -> OutputType] /\ History
  BY DEF IInv, Shape
<1>3. /\ outputs' \in [Contracts -> OutputType]
      /\ committed \subseteq committed'
      /\ History'
      /\ \A c \in Contracts : outputs'[c].generation >= outputs[c].generation
  <2>1. CASE UNCHANGED <<outputs, committed>>
    <3>1. \A c \in Contracts : outputs[c].generation \in Nat
      BY <1>2 DEF OutputType
    <3>2. History'
      BY <1>2, <2>1 DEF History, OutputsAreAuthored
    <3> QED
      BY <1>2, <2>1, <3>1, <3>2
  <2>2. CASE \E p \in late : \E r \in Fenced(p) : Commit(p, r.output)
    <3>1. PICK p \in late : \E r \in Fenced(p) : Commit(p, r.output)
      BY <2>2
    <3>2. PICK r \in Fenced(p) : Commit(p, r.output)
      BY <3>1
    <3>3. p \in Authored \cap ProposalType
      BY DEF IInv, Underway
    <3> QED
      BY <1>2, <3>2, <3>3, FencedResult, CommitExtends
  <2> QED
    BY <2>1, <2>2 DEF LateProposal
<1>4. Shape'
  BY <1>1, <1>3 DEF IInv, Shape
<1>5. Underway'
  BY <1>1 DEF IInv, Underway
<1>6. RepliesAreOfCommits'
  <2>1. ASSUME apply.pc = "replied", apply.reply.kind = "durable"
        PROVE  apply.reply.generation <= outputs'[apply.action.contract].generation
    <3>1. Proposal(apply.action) \in ProposalType
      BY <2>1 DEF IInv, Underway
    <3>2. apply.action.contract \in Contracts
      BY <3>1 DEF Proposal, ProposalType
    <3>3. apply.reply.generation <= outputs[apply.action.contract].generation
      BY <2>1 DEF IInv, RepliesAreOfCommits
    <3>4. apply.reply.generation \in Nat
            /\ outputs[apply.action.contract].generation \in Nat
            /\ outputs'[apply.action.contract].generation \in Nat
      BY <1>3, <3>2 DEF IInv, Shape, OutputType, ReplyType
    <3> QED
      BY <1>3, <3>2, <3>3, <3>4
  <2> QED
    BY <1>1, <1>3, <2>1 DEF IInv, RepliesAreOfCommits
<1>7. ReceiptsAreOfCommits' /\ StateRecordsOneCommit'
         /\ (held'.generation > 0 =>
               held'.generation <= outputs'[held'.contract].generation)
  BY <1>1, <1>3, CommitKeeps
<1>8. RecordedInOrder'
  BY <1>1, <1>7 DEF IInv, RecordedInOrder
<1> QED
  BY <1>3, <1>4, <1>5, <1>6, <1>7, <1>8 DEF IInv

\* So every step keeps the invariant.
LEMMA NextKeeps == IInv /\ [Next]_vars => IInv'
<1>1. IInv /\ UNCHANGED vars => IInv'
  BY DEF IInv, Shape, Underway, History, OutputsAreAuthored, RepliesAreOfCommits,
         ReceiptsAreOfCommits, StateRecordsOneCommit, RecordedInOrder,
         vars, setupVars, applyVars
<1> QED
  BY <1>1, HostApplyKeeps, FinishKeeps, AnswerKeeps, AbandonKeeps, LateKeeps
     DEF Next, Proceed, ApplyStep

-------------------------------------------------------------------------------
(* The types, which rest on the invariant: a reply finds the call it is of.    *)

EntryType == [contract : Contracts, target : Nat, generation : Nat,
              values : SUBSET OutputValue]

Typed == /\ SetupTypeOK /\ named \in BOOLEAN
         /\ apply.pc # "idle" => hosted
         /\ applied \in [status : Codes, receipt : Acts]
         /\ committed \subseteq EntryType
         /\ mishaps \in 0..MaxMishaps

\* No action at all is an action of the type, an inert one.
LEMMA NoActionTyped == NoAction \in AnyAction
<1>1. NoAction = [type |-> "NONE", id |-> "none", remoteID |-> NoText,
                  contract |-> "other", generation |-> 0, values |-> {}]
  BY DEF NoAction, Action
<1>2. NoText \in Optional(KeyIds \cup Projects)
  BY DEF Optional
<1>3. "other" \in Contracts
  BY DEF Contracts
<1> QED
  BY <1>1, <1>2, <1>3 DEF AnyAction

\* Whatever a caller may hand is an action.
LEMMA ActsTyped == Acts \subseteq AnyAction
<1>1. ASSUME NEW actions \in Plans, NEW a \in Range(actions) PROVE a \in AnyAction
  <2>1. actions \in Seq(AnyAction)
    BY PlansAssumption
  <2>2. PICK i \in DOMAIN actions : a = actions[i]
    BY DEF Range
  <2> QED
    BY <2>1, <2>2
<1> QED
  BY <1>1, NoActionTyped, PlansAssumption DEF Acts

\* A commit puts an entry of the type into the history.
LEMMA CommitTyped ==
  ASSUME NEW p \in ProposalType, NEW output \in OutputType,
         Commit(p, output), committed \subseteq EntryType
  PROVE  committed' \subseteq EntryType
<1>1. [contract |-> p.contract, target |-> output.target,
       generation |-> output.generation, values |-> output.values] \in EntryType
  BY DEF ProposalType, OutputType, EntryType
<1> QED
  BY <1>1 DEF Commit

\* What the host holds at the start is of its type.
LEMMA InitTyped == Init => Typed
<1> SUFFICES ASSUME Init PROVE Typed
  OBVIOUS
<1>1. applied \in [status : Codes, receipt : Acts]
  BY NoActionIsInert DEF Init, ApplyInit, Returned, Codes
<1>2. mishaps \in 0..MaxMishaps
  BY ApplyAssumption DEF Init, ApplyInit
<1> QED
  BY <1>1, <1>2 DEF Init, ApplyInit, Typed, NoApply

\* Every step keeps it so, as what is proposed and replied is typed.
LEMMA StepTyped == IInv /\ Typed /\ [Next]_vars => Typed'
<1> SUFFICES ASSUME IInv, Typed, [Next]_vars PROVE Typed'
  OBVIOUS
<1>1. apply.action \in Acts /\ outputs \in [Contracts -> OutputType]
  BY DEF IInv, Shape
<1>2. UNCHANGED vars => Typed'
  BY DEF vars, setupVars, applyVars, Typed, SetupTypeOK
<1>3. ASSUME NEW code \in Codes, Refuse(code),
             UNCHANGED <<named, outputs, committed, late, mishaps>>,
             UNCHANGED setupVars
      PROVE  Typed'
  BY <1>3, NoActionIsInert
     DEF Refuse, Returned, NoApply, setupVars, Typed, SetupTypeOK
<1>4. HostApply => Typed'
  <2> SUFFICES ASSUME HostApply PROVE Typed'
    OBVIOUS
  <2>1. PICK actions \in Plans,
             action \in (UNION {Range(a) : a \in Plans}) \cup HandedActions :
          ApplyAction(actions, action)
    BY DEF HostApply
  <2>2. action \in Acts
    BY DEF Acts
  <2>3. UNCHANGED setupVars /\ UNCHANGED <<named, outputs, committed, late, mishaps>>
    BY <2>1 DEF HostApply, ApplyAction
  <2>4. /\ "InvalidArgument" \in Codes /\ "FailedPrecondition" \in Codes
        /\ "Unavailable" \in Codes /\ "OK" \in Codes
    BY DEF Codes
  <2>5. CASE hosted /\ apply' = [pc |-> "proposing", action |-> action,
                                 reply |-> NoReply]
                    /\ UNCHANGED <<held, applied>>
    BY <2>3, <2>5 DEF setupVars, Typed, SetupTypeOK
  <2>6. CASE ApplyInert(action)
    BY <2>2, <2>3, <2>4, <2>6 DEF ApplyInert, Returned, setupVars, Typed, SetupTypeOK
  <2> QED
    BY <2>1, <2>3, <2>4, <2>5, <2>6, <1>3 DEF ApplyAction, ApplyProjectOutput
<1>5. FinishApply /\ UNCHANGED setupVars => Typed'
  <2> SUFFICES ASSUME FinishApply, UNCHANGED setupVars PROVE Typed'
    OBVIOUS
  <2>1. "HostError" \in Codes /\ "Unavailable" \in Codes /\ "OK" \in Codes
    BY DEF Codes
  <2>2. UNCHANGED <<named, outputs, committed, late, mishaps>>
    BY DEF FinishApply
  <2>3. CASE applied' = Returned("OK", apply.action) /\ apply' = NoApply
    BY <1>1, <2>1, <2>2, <2>3
       DEF Returned, NoApply, setupVars, Typed, SetupTypeOK
  <2> QED
    BY <2>1, <2>2, <2>3, <1>3 DEF FinishApply
<1>6. AnswerProposal /\ UNCHANGED setupVars => Typed'
  <2> SUFFICES ASSUME AnswerProposal, UNCHANGED setupVars PROVE Typed'
    OBVIOUS
  <2> DEFINE p == Proposal(apply.action)
  <2>1. /\ apply.pc = "proposing" /\ UNCHANGED <<named, applied, held, late>>
        /\ mishaps' \in {mishaps, mishaps + 1} /\ (mishaps' # mishaps => mishaps < MaxMishaps)
    BY DEF AnswerProposal, Mishap
  <2>2. PICK r \in Fenced(p) \cup Failing(p) : Commit(p, r.output)
    BY DEF AnswerProposal
  <2>3. p \in ProposalType
    BY <2>1 DEF IInv, Underway
  <2> HIDE DEF p
  <2>4. r.output \in OutputType
    BY <1>1, <2>2, <2>3, FencedResult, FailingResult
  <2>5. committed' \subseteq EntryType
    BY <2>2, <2>3, <2>4, CommitTyped DEF Typed
  <2>6. mishaps' \in 0..MaxMishaps
    BY <2>1, ApplyAssumption DEF Typed
  <2> QED
    BY <2>1, <2>5, <2>6 DEF setupVars, Typed, SetupTypeOK
<1>7. AbandonApply /\ UNCHANGED setupVars => Typed'
  <2> SUFFICES ASSUME AbandonApply, UNCHANGED setupVars PROVE Typed'
    OBVIOUS
  <2>1. mishaps' \in 0..MaxMishaps
    BY ApplyAssumption DEF AbandonApply, Mishap, Typed
  <2>2. applied' \in [status : Codes, receipt : Acts]
    BY NoActionIsInert DEF AbandonApply, Returned, Codes
  <2> QED
    BY <2>1, <2>2 DEF AbandonApply, NoApply, setupVars, Typed, SetupTypeOK
<1>8. LateProposal /\ UNCHANGED setupVars => Typed'
  <2> SUFFICES ASSUME LateProposal, UNCHANGED setupVars PROVE Typed'
    OBVIOUS
  <2>1. UNCHANGED <<named, apply, applied, held, mishaps>>
    BY DEF LateProposal
  <2>2. committed' \subseteq EntryType
    <3>1. CASE UNCHANGED <<outputs, committed>>
      BY <3>1 DEF Typed
    <3>2. CASE \E p \in late : \E r \in Fenced(p) : Commit(p, r.output)
      <4>1. PICK p \in late : \E r \in Fenced(p) : Commit(p, r.output)
        BY <3>2
      <4>2. PICK r \in Fenced(p) : Commit(p, r.output)
        BY <4>1
      <4>3. p \in ProposalType
        BY DEF IInv, Underway
      <4>4. r.output \in OutputType
        BY <1>1, <4>2, <4>3, FencedResult
      <4> QED
        BY <4>2, <4>3, <4>4, CommitTyped DEF Typed
    <3> QED
      BY <3>1, <3>2 DEF LateProposal
  <2> QED
    BY <2>1, <2>2 DEF setupVars, Typed, SetupTypeOK
<1> QED
  BY <1>2, <1>4, <1>5, <1>6, <1>7, <1>8 DEF Next, Proceed, ApplyStep

-------------------------------------------------------------------------------
(* The theorems. *)

\* The invariant holds in every state of every behaviour.
LEMMA Inductive == Spec => []IInv
BY InitIInv, NextKeeps, PTL DEF Spec

\* A receipt of a projection is only ever given for what the host committed
\* (apply.go:66-86).
THEOREM ReceiptsOnlyOfCommits == Spec => []ReceiptsAreOfCommits
<1>1. IInv => ReceiptsAreOfCommits
  BY DEF IInv
<1> QED
  BY <1>1, Inductive, PTL

\* The provider state never mixes two commits (apply.go:123-148).
THEOREM StateOfOneCommit == Spec => []StateRecordsOneCommit
<1>1. IInv => StateRecordsOneCommit
  BY DEF IInv
<1> QED
  BY <1>1, Inductive, PTL

\* Nothing is committed but what a plan carried (apply.go:91-100).
THEOREM OnlyAuthoredOutputs == Spec => []OutputsAreAuthored
<1>1. IInv => OutputsAreAuthored
  BY DEF IInv, History
<1> QED
  BY <1>1, Inductive, PTL

\* No step drops a recorded generation or lets it fall (apply.go:117-121).
THEOREM GenerationsNeverFall == Spec => RecordedGenerationNeverFalls
<1> DEFINE Rises == held.generation > 0 =>
                      /\ held'.generation > 0
                      /\ held'.contract = held.contract =>
                           held'.generation >= held.generation
<1>1. IInv /\ held' = held => Rises
  BY DEF IInv, Shape, StateType
<1>2. IInv /\ FinishApply => Rises
  <2> SUFFICES ASSUME IInv, FinishApply PROVE Rises
    OBVIOUS
  <2>1. held \in StateType /\ apply.reply \in ReplyType
    BY DEF IInv, Shape
  <2>2. CASE held' = held
    BY <1>1, <2>2
  <2>3. CASE /\ apply.pc = "replied"
             /\ apply.reply.kind \notin {"failed", "undurable"}
             /\ held' = ProviderState("v1", apply.action.contract,
                          apply.reply.generation, apply.reply.digest)
    <3>1. apply.reply.kind = "durable" /\ apply.reply.generation > 0
      BY <2>1, <2>3 DEF IInv, RepliesAreOfCommits, ReplyType
    <3>2. held'.generation = apply.reply.generation
            /\ held'.contract = apply.action.contract
      BY <2>3 DEF ProviderState
    <3>3. held.generation > 0 /\ apply.action.contract = held.contract =>
            held.generation <= apply.reply.generation
      BY <2>3, <3>1 DEF IInv, RecordedInOrder
    <3>4. held.generation \in Nat /\ apply.reply.generation \in Nat
      BY <2>1 DEF StateType, ReplyType
    <3> QED
      BY <3>1, <3>2, <3>3, <3>4
  <2> QED
    BY <2>2, <2>3 DEF FinishApply, Refuse, ProjectedState
<1>3. IInv /\ HostApply => held' = held
  BY DEF HostApply, ApplyAction, Refuse, ApplyProjectOutput, ApplyInert
<1>4. AnswerProposal \/ AbandonApply \/ LateProposal => held' = held
  BY DEF AnswerProposal, AbandonApply, LateProposal
<1>5. IInv /\ [Next]_vars => Rises \/ UNCHANGED applyVars
  BY <1>1, <1>2, <1>3, <1>4 DEF Next, Proceed, ApplyStep, vars
<1>6. IInv /\ [Next]_vars => [Rises]_applyVars
  BY <1>5
<1> QED
  BY <1>6, Inductive, PTL DEF Spec, RecordedGenerationNeverFalls

\* The handler's and the host's variables keep their types: among them, that a
\* call under way was made to a server with a host and for a generation that
\* the host may commit (apply.go:41-64).
THEOREM ApplyTypeCorrect == Spec => []ApplyTypeOK
<1>1. IInv /\ Typed => ApplyTypeOK
  <2> SUFFICES ASSUME IInv, Typed PROVE ApplyTypeOK
    OBVIOUS
  <2>1. /\ apply \in [pc : {"idle", "proposing", "replied"}, action : Acts,
                       reply : ReplyType]
        /\ held \in StateType /\ outputs \in [Contracts -> OutputType]
    BY DEF IInv, Shape
  <2>2. apply \in [pc : {"idle", "proposing", "replied"}, action : AnyAction,
                   reply : ReplyType]
    BY <2>1, ActsTyped
  <2>3. applied \in [status : Codes, receipt : AnyAction]
    BY ActsTyped DEF Typed
  <2>4. outputs \in [Contracts -> [target : Nat, generation : Nat,
                                   values : SUBSET OutputValue]]
    BY <2>1 DEF OutputType
  <2>5. late \subseteq [contract : Contracts, target : Nat,
                        values : SUBSET OutputValue]
    <3>1. ProposalType \subseteq [contract : Contracts, target : Nat,
                                  values : SUBSET OutputValue]
      BY DEF ProposalType
    <3> QED
      BY <3>1 DEF IInv, Underway
  <2>6. apply.pc # "idle" => hosted /\ Proposal(apply.action).target > 0
    BY DEF IInv, Underway, Typed, ProposalType
  <2> QED
    BY <2>1, <2>2, <2>3, <2>4, <2>5, <2>6
       DEF ApplyTypeOK, Typed, StateType, ReplyType, EntryType
<1> QED
  BY <1>1, Inductive, InitTyped, StepTyped, PTL DEF Spec

===============================================================================

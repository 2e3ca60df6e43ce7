---------------------------- MODULE ChatAloneProofs ----------------------------
(***************************************************************************)
(* What a chat of a shared session can rely on, for any number of chats,   *)
(* datasets, steps and calls: its table while no other chat overlaps it,   *)
(* the columns its steps are told of, and the contents of its answer.      *)
(***************************************************************************)
EXTENDS ChatProofs, WellFoundedInduction

\* Two chats that are under way have met.
Met == \A c, e \in Chats : c # e /\ Open(c) /\ Open(e) => c \in overlapped

\* The steps of a plan: nothing runs without one, the table is described only while
\* every step rests, and a dependent step begins after the ones before it.
Ordered(c) ==
  /\ pc[c] = "closed" => ~Executing(c)
  /\ pc[c] = "running" => Executing(c)
  /\ ~Executing(c) =>
       \A i \in Steps : step[c][i] = "ended" /\ context[c][i] = NoContext
  /\ Executing(c) /\ pc[c] \in {"looking", "describing"} => Rested(c) /\ Waiting(c)
  /\ \A i, j \in Steps : Informed(c, i) /\ j < i => step[c][j] = "ended"

\* A chat that has met no other one keeps the pin and, unless the session was
\* retargeted, the table.
Alone(c) == c \notin overlapped /\ Open(c)

OnTable(c) ==
  /\ pc[c] = "describing" => named[c] = table /\ table # NoTable
  /\ pc[c] = "asking" \/ Executing(c) => base[c].table = table /\ table # NoTable
  /\ Executing(c) =>
       /\ pc[c] # "looking"
       /\ \A i \in Steps :
            /\ step[c][i] # "ensuring"
            /\ context[c][i] # NoContext => context[c][i].table = base[c].table

Steady(c) ==
  Alone(c) =>
    /\ Executing(c) => pinned /\ \A i \in Steps : step[c][i] # "moving"
    /\ ~strayed => OnTable(c)

\* Until it has a plan a chat has called nothing; then what the session has recorded is
\* its own; and what it has answered stays true of it.
Entered(c) == Executing(c) \/ pc[c] \in {"describing", "asking"}

OwnResults(c) ==
  answer[c].kind = "answer" =>
    /\ answer[c].records = OfChat(c, done)
    /\ answer[c].frames \subseteq answer[c].records
    /\ OfChat(c, plots) \subseteq answer[c].plots

Answering(c) ==
  /\ ~Executing(c) /\ pc[c] # "closed" => OfChat(c, done) = {} /\ OfChat(c, plots) = {}
  /\ pc[c] # "closed" => answer[c] = NoAnswer
  /\ c \notin overlapped /\ Entered(c) =>
       records = OfChat(c, done) /\ frames \subseteq records
  /\ c \notin overlapped /\ pc[c] = "closed" => OwnResults(c)

\* Columns are put into the dataset of the tools only, and a dependent step is told of
\* those the steps before it have put there.
OneSource == ~strayed => \A d \in Datasets \ {ToolData} : cols[d] = {}
Told(c) == \A i \in Steps :
  ~strayed /\ Informed(c, i) /\ context[c][i].table[2] = "upload" => KnowsEarlier(c, i)

ChatKeeps(c) == Ordered(c) /\ Steady(c) /\ Answering(c) /\ Told(c)
AloneInv == Met /\ OneSource /\ \A c \in Chats : ChatKeeps(c)

-----------------------------------------------------------------------------
(* Facts the actions share. *)

\* A set of numbers has a least one.
LEMMA Least ==
  ASSUME NEW T, T \subseteq Nat, T # {} PROVE \E x \in T : \A y \in T : x <= y
<1>1. PICK x \in T : \A y \in T : ~(<<y, x>> \in OpToRel(<, Nat))
  BY NatLessThanWellFounded, WFMin
<1>2. ASSUME NEW y \in T PROVE x <= y
  <2>1. ~(y < x)
    BY <1>1 DEF OpToRel
  <2> QED
    BY <2>1
<1> QED
  BY <1>2

\* The next dependent step is the first of those that wait.
LEMMA NextType ==
  ASSUME NEW c \in Chats, Waiting(c)
  PROVE /\ NextDependent(c) \in Steps /\ step[c][NextDependent(c)] = "waiting"
        /\ \A j \in Steps : step[c][j] = "waiting" => NextDependent(c) <= j
<1> DEFINE T == {i \in Steps : step[c][i] = "waiting"}
<1>1. T # {} /\ T \subseteq Nat
  BY BoundsAssumption DEF BoundsAssumption, Waiting, Steps
<1>2. \E i \in T : \A j \in T : i <= j
  BY <1>1, Least
<1>3. \E i \in Steps : /\ step[c][i] = "waiting"
                       /\ \A j \in Steps : step[c][j] = "waiting" => i <= j
  BY <1>2
<1> QED
  BY <1>3 DEF NextDependent

\* A step takes a turn.
StepTurn(c, i) ==
  \/ \E k \in Tools[c] : CallTool(c, i, k)
  \/ EnsureTable(c, i) \/ Work(c, i) \/ FailTool(c, i) \/ Move(c, i)
  \/ \E d \in Datasets : UseTable(c, i, d)
  \/ EndStep(c, i)

\* It changes its own state among the steps, and nothing its chat keeps for itself.
LEMMA StepFrame ==
  ASSUME IInv, NEW c \in Chats, NEW i \in Steps, StepTurn(c, i)
  PROVE /\ UNCHANGED <<pc, looking, named, plan, base, context, answer, pinned,
                       overlapped, ops>>
        /\ step[c][i] \notin {"waiting", "ended"}
        /\ \E s \in {"thinking", "ensuring", "working", "moving", "ended"} :
             step' = [step EXCEPT ![c][i] = s]
<1> USE DEF session, stash, asked, steps, Recorded
<1>1. CASE \E k \in Tools[c] : CallTool(c, i, k)
  BY <1>1 DEF CallTool
<1>2. CASE EnsureTable(c, i) \/ FailTool(c, i) \/ Move(c, i) \/ EndStep(c, i)
  BY <1>2 DEF EnsureTable, FailTool, Move, EndStep
<1>3. CASE Work(c, i)
  BY <1>3 DEF Work
<1>4. CASE \E d \in Datasets : UseTable(c, i, d)
  BY <1>4 DEF UseTable
<1> QED
  BY <1>1, <1>2, <1>3, <1>4 DEF StepTurn

\* It moves the table only if that was started or nothing is pinned, and looks for one
\* only if there is none.
LEMMA TurnEffects ==
  ASSUME IInv, NEW c \in Chats, NEW i \in Steps, StepTurn(c, i)
  PROVE /\ step'[c][i] = "moving" => ~pinned
        /\ step'[c][i] = "ensuring" => table = NoTable
        /\ table' = table \/ step[c][i] \in {"ensuring", "moving"} \/ strayed' = TRUE
        /\ strayed' = strayed \/ strayed' = TRUE
<1> USE DEF session, stash, asked, steps, IInv, TypeOK, StepTypes
<1>1. CASE \E k \in Tools[c] : CallTool(c, i, k)
  BY <1>1 DEF CallTool
<1>2. CASE EnsureTable(c, i) \/ Move(c, i) \/ EndStep(c, i)
  BY <1>2 DEF EnsureTable, Move, EndStep, Recorded
<1>3. CASE Work(c, i)
  BY <1>3 DEF Work, Advances, Recorded
<1>4. CASE FailTool(c, i)
  BY <1>4 DEF FailTool, Recorded
<1>5. CASE \E d \in Datasets : UseTable(c, i, d)
  BY <1>5 DEF UseTable, Recorded
<1> QED
  BY <1>1, <1>2, <1>3, <1>4, <1>5 DEF StepTurn

\* What other chats leave alone.
Locals(c) == <<pc[c], looking[c], named[c], plan[c], base[c], step[c], context[c],
               answer[c], OfChat(c, done), OfChat(c, plots)>>
Acts(e) == Start(e) \/ ChatNext(e) \/ Cancel(e)

LEMMA OthersStep ==
  ASSUME IInv, NEW e \in Chats, NEW i \in Steps, StepTurn(e, i), NEW c \in Chats \ {e}
  PROVE /\ UNCHANGED Locals(c)
        /\ \A d \in Datasets : OfChat(c, cols'[d]) = OfChat(c, cols[d])
<1>1. UNCHANGED <<pc[c], looking[c], named[c], plan[c], base[c], step[c], context[c],
                  answer[c]>>
  <2>1. PICK s : step' = [step EXCEPT ![e][i] = s]
    BY StepFrame
  <2>2. step'[c] = step[c]
    BY <2>1 DEF IInv, TypeOK, StepTypes
  <2>3. UNCHANGED <<pc, looking, named, plan, base, context, answer>>
    BY StepFrame
  <2> QED
    BY <2>2, <2>3
<1>2. ThisCall(e, i)[1] # c
  BY DEF ThisCall
<1>3. done' = done \/ done' = done \cup {ThisCall(e, i)}
  BY DEF StepTurn, CallTool, EnsureTable, Work, FailTool, Move, UseTable, EndStep, Recorded
<1>4. plots' = plots \/ plots' = plots \cup {ThisCall(e, i)}
  BY DEF StepTurn, CallTool, EnsureTable, Work, FailTool, Move, UseTable, EndStep, stash
<1>5. \/ cols' = cols
      \/ cols' = [cols EXCEPT ![target[e][i]] = @ \cup {ThisCall(e, i)}]
  BY DEF StepTurn, CallTool, EnsureTable, Work, FailTool, Move, UseTable, EndStep
<1>6. ASSUME NEW d \in Datasets PROVE OfChat(c, cols'[d]) = OfChat(c, cols[d])
  <2>1. cols'[d] = cols[d] \/ cols'[d] = cols[d] \cup {ThisCall(e, i)}
    BY <1>5 DEF IInv, TypeOK, SessionTypes
  <2> QED
    BY <2>1, <1>2 DEF OfChat
<1>7. OfChat(c, done)' = OfChat(c, done) /\ OfChat(c, plots)' = OfChat(c, plots)
  BY <1>2, <1>3, <1>4 DEF OfChat
<1> QED
  BY <1>1, <1>6, <1>7 DEF Locals

LEMMA OthersKeep ==
  ASSUME IInv, NEW e \in Chats, Acts(e), NEW c \in Chats \ {e}
  PROVE /\ UNCHANGED Locals(c)
        /\ \A d \in Datasets : OfChat(c, cols'[d]) = OfChat(c, cols[d])
<1> USE DEF session, stash, asked, steps
<1>1. CASE StepNext(e)
  BY <1>1, OthersStep DEF StepNext, StepTurn
<1>2. CASE Close(e) /\ (UNCHANGED answer \/ Package(e)
                        \/ answer' = [answer EXCEPT ![e] = [NoAnswer EXCEPT !.kind = "refusal"]])
  <2>1. answer'[c] = answer[c]
    BY <1>2 DEF Package, IInv, TypeOK, ChatTypes
  <2>2. UNCHANGED <<pc[c], looking[c], named[c], plan[c], base[c], step[c], context[c]>>
    BY <1>2 DEF Close, IInv, TypeOK, ChatTypes, StepTypes
  <2>3. UNCHANGED <<done, plots, cols>>
    BY <1>2 DEF Close
  <2> QED
    BY <2>1, <2>2, <2>3 DEF Locals, OfChat
<1>3. CASE Refuse(e) \/ PlanNothing(e) \/ Finish(e) \/ FailLookup(e) \/ Cancel(e)
  BY <1>2, <1>3 DEF Refuse, PlanNothing, Finish, FailLookup, Cancel, Leave
<1>4. CASE Start(e) \/ Enter(e) \/ Look(e) \/ Found(e) \/ Refresh(e)
  BY <1>4 DEF Start, Enter, EnterWith, Look, Found, Refresh, Locals, OfChat, IInv,
     TypeOK, ChatTypes, StepTypes
<1>5. CASE DescribeBase(e) \/ DescribeStep(e)
  BY <1>5 DEF DescribeBase, DescribeStep, Locals, OfChat, IInv, TypeOK, ChatTypes, StepTypes
<1>6. CASE Plan(e)
  BY <1>6 DEF Plan, Locals, OfChat, IInv, TypeOK, ChatTypes, StepTypes
<1> QED
  BY <1>1, <1>3, <1>4, <1>5, <1>6 DEF Acts, ChatNext
\* Only a chat that has begun goes on.
LEMMA ActorOpen ==
  ASSUME IInv, \A c \in Chats : Ordered(c), NEW e \in Chats, ChatNext(e) \/ Cancel(e)
  PROVE Open(e)
<1>1. ASSUME NEW i \in Steps, StepTurn(e, i) PROVE Open(e)
  <2>1. Executing(e)
    BY <1>1, StepFrame DEF Ordered
  <2> QED
    BY <2>1 DEF Open, Executing, Ordered, IInv, Located, ChatAt, Asked
<1>2. CASE StepNext(e)
  BY <1>1, <1>2 DEF StepNext, StepTurn
<1> QED
  BY <1>2 DEF ChatNext, Cancel, Open, Enter, Look, Found, DescribeBase, DescribeStep,
     Refuse, PlanNothing, Plan, Refresh, Finish, FailLookup

\* Nobody acts beside a chat that stays alone.
LEMMA NobodyBeside ==
  ASSUME IInv, AloneInv, NEW e \in Chats, Acts(e), NEW c \in Chats \ {e}, Alone(c)'
  PROVE FALSE
<1>1. pc'[c] = pc[c] /\ overlapped \subseteq overlapped'
  <2>1. ASSUME NEW i \in Steps, StepTurn(e, i) PROVE overlapped' = overlapped
    BY <2>1, StepFrame
  <2>2. overlapped \subseteq overlapped'
    BY <2>1 DEF Acts, ChatNext, StepNext, StepTurn, Start, Enter, Look, Found, DescribeBase,
       DescribeStep, Refuse, PlanNothing, Plan, Refresh, Finish, FailLookup, Cancel,
       Leave, Close
  <2> QED
    BY <2>2, OthersKeep DEF Locals
<1>2. Open(c) /\ c \notin overlapped
  BY <1>1 DEF Alone, Open
<1>3. CASE Start(e)
  BY <1>2, <1>3 DEF Start, Alone
<1>4. CASE ChatNext(e) \/ Cancel(e)
  <2>1. Open(e)
    BY <1>4, ActorOpen DEF AloneInv, ChatKeeps
  <2> QED
    BY <1>2, <2>1 DEF AloneInv, Met
<1> QED
  BY <1>3, <1>4 DEF Acts

\* History is only added to.
Grown == /\ overlapped \subseteq overlapped'
         /\ \/ strayed' = strayed \/ strayed' = TRUE
            \/ strayed' = (strayed \/ ops = NoData)

LEMMA HistoryGrows ==
  ASSUME [Next]_vars PROVE overlapped \subseteq overlapped' /\ (strayed => strayed')
<1> USE DEF session, stash, asked, steps, Grown
<1>1. UNCHANGED vars => Grown
  BY DEF vars
<1>8. (\E d \in Datasets : SetActive(d)) => Grown
  BY DEF SetActive
<1>2. ASSUME NEW c \in Chats, NEW i \in Steps, StepTurn(c, i) PROVE Grown
  <2>1. CASE \E k \in Tools[c] : CallTool(c, i, k)
    BY <2>1 DEF CallTool
  <2>2. CASE EnsureTable(c, i) \/ Work(c, i) \/ FailTool(c, i) \/ Move(c, i) \/ EndStep(c, i)
    BY <2>2 DEF EnsureTable, Work, FailTool, Move, EndStep
  <2>3. CASE \E d \in Datasets : UseTable(c, i, d)
    BY <2>3 DEF UseTable
  <2> QED
    BY <1>2, <2>1, <2>2, <2>3 DEF StepTurn
<1>3. ASSUME NEW c \in Chats, StepNext(c) PROVE Grown
  BY <1>2, <1>3 DEF StepNext, StepTurn
<1>4. ASSUME NEW c \in Chats,
             \/ Refuse(c) \/ PlanNothing(c) \/ Finish(c) \/ FailLookup(c) \/ Cancel(c)
      PROVE Grown
  BY <1>4 DEF Refuse, PlanNothing, Finish, FailLookup, Cancel, Leave, Close
<1>5. ASSUME NEW c \in Chats, Start(c) PROVE Grown
  BY <1>5 DEF Start
<1>6. ASSUME NEW c \in Chats,
             \/ Enter(c) \/ Look(c) \/ Found(c) \/ DescribeBase(c)
             \/ DescribeStep(c) \/ Plan(c) \/ Refresh(c)
      PROVE Grown
  BY <1>6 DEF Enter, Look, Found, DescribeBase, DescribeStep, Plan, Refresh
<1>7. Grown
  <2> HIDE DEF session, stash, asked, steps, Grown
  <2> QED
    BY <1>1, <1>3, <1>4, <1>5, <1>6, <1>8 DEF Next, ChatNext
<1>9. CASE strayed' = strayed
  BY <1>7, <1>9
<1>10. CASE strayed' = TRUE
  BY <1>7, <1>10
<1>11. CASE strayed' = (strayed \/ ops = NoData)
  <2>1. strayed => strayed'
    BY <1>11, Zenon
  <2> QED
    BY <1>7, <2>1
<1> QED
  BY <1>7, <1>9, <1>10, <1>11

\* So the others keep what they rely on.
LEMMA OthersRely ==
  ASSUME IInv, AloneInv, Next, NEW e \in Chats, Acts(e), NEW c \in Chats \ {e}
  PROVE ChatKeeps(c)'
<1>1. UNCHANGED Locals(c)
  BY OthersKeep
<1>2. UNCHANGED <<pc[c], looking[c], named[c], plan[c], base[c], step[c], context[c],
                  answer[c], OfChat(c, done), OfChat(c, plots)>>
  BY <1>1 DEF Locals
<1>3. ~Alone(c)'
  BY NobodyBeside
<1>4. ChatKeeps(c) /\ overlapped \subseteq overlapped' /\ (strayed => strayed')
  BY HistoryGrows DEF AloneInv
<1>5. Ordered(c)'
  BY <1>2, <1>4 DEF ChatKeeps, Ordered, Executing, Rested, Waiting, Informed
<1>6. Steady(c)'
  BY <1>3 DEF Steady
<1>7. Answering(c)'
  <2>1. c \notin overlapped' => ~Entered(c)'
    <3>1. Executing(c)' => Open(c)'
      BY <1>2, <1>4 DEF Executing, Open, ChatKeeps, Ordered, IInv, Located, ChatAt, Asked
    <3> QED
      BY <1>3, <3>1 DEF Alone, Entered, Open
  <2> QED
    BY <1>2, <1>4, <2>1 DEF ChatKeeps, Answering, Executing, OwnResults
<1>8. Told(c)'
  <2> SUFFICES ASSUME NEW i \in Steps, ~strayed', Informed(c, i)',
                      context'[c][i].table[2] = "upload",
                      NEW d \in Datasets, NEW x \in OfChat(c, cols'[d]), x[2] < i
               PROVE x \in context'[c][i].cols
    BY DEF Told, KnowsEarlier, OfChat
  <2>1. x \in OfChat(c, cols[d])
    BY OthersKeep
  <2>2. KnowsEarlier(c, i)
    BY <1>2, <1>4 DEF ChatKeeps, Told, Informed
  <2> QED
    BY <1>2, <2>1, <2>2 DEF KnowsEarlier, OfChat
<1> QED
  BY <1>5, <1>6, <1>7, <1>8 DEF ChatKeeps
-----------------------------------------------------------------------------
(* The chat that acts keeps it too. *)

\* It begins.
LEMMA StartRelies ==
  ASSUME IInv, AloneInv, NEW c \in Chats, Start(c) PROVE ChatKeeps(c)'
<1> USE DEF session, stash, asked, steps
<1>1. /\ pc'[c] = "entering" /\ pc[c] = "idle" /\ plan' = plan /\ plan[c] = <<>>
      /\ UNCHANGED <<step, context, answer, done, plots, cols, strayed, base>>
  BY DEF Start, IInv, TypeOK, ChatTypes, Located, ChatAt, Asked
<1>2. Ordered(c)'
  BY <1>1 DEF AloneInv, ChatKeeps, Ordered, Executing, Informed
<1>3. Steady(c)'
  BY <1>1 DEF Steady, OnTable, Executing
<1>4. Answering(c)'
  BY <1>1 DEF AloneInv, ChatKeeps, Answering, Executing, Entered
<1>5. Told(c)'
  BY <1>1 DEF Told, Informed, BoundsAssumption
<1> QED
  BY <1>2, <1>3, <1>4, <1>5 DEF ChatKeeps

\* The session's results are emptied, and the table is going to be described.
LEMMA EnterRelies ==
  ASSUME IInv, AloneInv, NEW c \in Chats,
         pc[c] \in {"entering", "looking"}, plan[c] = <<>>,
         pc' = [pc EXCEPT ![c] = "describing"], named' = [named EXCEPT ![c] = table'],
         table' # NoTable, records' = {}, frames' = {},
         UNCHANGED <<plan, base, step, context, answer, done, plots, cols, overlapped,
                     strayed, pinned>>
  PROVE ChatKeeps(c)'
<1>1. pc'[c] = "describing" /\ named'[c] = table' /\ ~Executing(c) /\ ~Executing(c)'
  BY DEF IInv, TypeOK, ChatTypes, Executing
<1>2. Ordered(c)'
  BY <1>1 DEF AloneInv, ChatKeeps, Ordered, Executing, Informed
<1>3. Steady(c)'
  BY <1>1 DEF Steady, OnTable, Executing
<1>4. Answering(c)'
  BY <1>1 DEF AloneInv, ChatKeeps, Answering, Executing, Entered
<1>5. Told(c)'
  BY DEF Told, Informed
<1> QED
  BY <1>2, <1>3, <1>4, <1>5 DEF ChatKeeps

\* It looks for its table: none is there yet, so that it executes nothing or another
\* chat, or use_table, has been there.
LEMMA LookRelies ==
  ASSUME IInv, AloneInv, NEW c \in Chats, Look(c) PROVE ChatKeeps(c)'
<1> USE DEF session, stash, asked, steps
<1>1. /\ pc'[c] = "looking" /\ pc[c] = "entering" /\ plan' = plan /\ plan[c] = <<>>
      /\ UNCHANGED <<step, context, answer, done, plots, cols, strayed, base, overlapped>>
  BY DEF Look, IInv, TypeOK, ChatTypes, Located, ChatAt, Asked
<1>2. Ordered(c)'
  BY <1>1 DEF AloneInv, ChatKeeps, Ordered, Executing, Informed
<1>3. Steady(c)'
  BY <1>1 DEF Steady, OnTable, Executing
<1>4. Answering(c)'
  BY <1>1 DEF AloneInv, ChatKeeps, Answering, Executing, Entered
<1>5. Told(c)'
  BY <1>1 DEF Told, Informed
<1> QED
  BY <1>2, <1>3, <1>4, <1>5 DEF ChatKeeps

\* Found between two steps of a plan: the session was retargeted, or is shared.
LEMMA FoundRelies ==
  ASSUME IInv, AloneInv, NEW c \in Chats, Found(c) PROVE ChatKeeps(c)'
<1> USE DEF session, stash, asked, steps
<1>1. looking[c] \in Datasets /\ table' = Upload(looking[c]) /\ table' # NoTable
  BY TablesOf, NoTableAssumption
     DEF NoTableAssumption, Found, IInv, Located, ChatAt, Tables
<1>2. CASE plan[c] = <<>>
  BY <1>1, <1>2, EnterRelies DEF Found, EnterWith
<1>3. CASE plan[c] # <<>>
  <2>1. /\ pc'[c] = "describing" /\ pc[c] = "looking" /\ Executing(c)
        /\ UNCHANGED <<plan, base, step, context, answer, done, plots, cols, overlapped,
                       strayed, pinned, records, frames>>
    BY <1>3 DEF Found, IInv, TypeOK, ChatTypes, Executing
  <2>2. Ordered(c)'
    BY <2>1 DEF AloneInv, ChatKeeps, Ordered, Executing, Informed, Rested, Waiting
  <2>3. Steady(c)'
    <3>1. Alone(c)' => Alone(c) /\ strayed
      BY <2>1 DEF AloneInv, ChatKeeps, Steady, OnTable, Alone, Open
    <3> QED
      BY <2>1, <3>1 DEF AloneInv, ChatKeeps, Steady, Executing
  <2>4. Answering(c)'
    BY <2>1 DEF AloneInv, ChatKeeps, Answering, Executing, Entered, OwnResults
  <2>5. Told(c)'
    BY <2>1 DEF AloneInv, ChatKeeps, Told, Informed, KnowsEarlier
  <2> QED
    BY <2>2, <2>3, <2>4, <2>5 DEF ChatKeeps
<1> QED
  BY <1>2, <1>3

\* It is told about its table.
LEMMA DescribeBaseRelies ==
  ASSUME IInv, AloneInv, NEW c \in Chats, DescribeBase(c) PROVE ChatKeeps(c)'
<1> USE DEF session, stash, asked, steps
<1>1. /\ pc'[c] = "asking" /\ pc[c] = "describing" /\ plan' = plan /\ plan[c] = <<>>
      /\ base'[c].table = named[c]
      /\ UNCHANGED <<step, context, answer, done, plots, cols, strayed, overlapped, table,
                     records, frames, pinned>>
  BY DEF DescribeBase, IInv, TypeOK, ChatTypes, Description
<1>2. Ordered(c)'
  BY <1>1 DEF AloneInv, ChatKeeps, Ordered, Executing, Informed
<1>3. Steady(c)'
  BY <1>1 DEF AloneInv, ChatKeeps, Steady, Alone, Open, OnTable, Executing
<1>4. Answering(c)'
  BY <1>1 DEF AloneInv, ChatKeeps, Answering, Executing, Entered
<1>5. Told(c)'
  BY <1>1 DEF Told, Informed
<1> QED
  BY <1>2, <1>3, <1>4, <1>5 DEF ChatKeeps

\* A dependent step is told about the table as it is now: the steps before it have ended.
LEMMA DescribeStepRelies ==
  ASSUME IInv, AloneInv, NEW c \in Chats, DescribeStep(c) PROVE ChatKeeps(c)'
<1> USE DEF session, stash, asked, steps
<1> DEFINE n == NextDependent(c)
<1>1. /\ pc'[c] = "running" /\ pc[c] = "describing" /\ plan' = plan /\ Executing(c)
      /\ UNCHANGED <<base, answer, done, plots, cols, strayed, overlapped, table,
                     records, frames, pinned, ops, active>>
  BY DEF DescribeStep, IInv, TypeOK, ChatTypes, Executing
<1>2. Ordered(c) /\ Rested(c) /\ Waiting(c)
  BY <1>1 DEF AloneInv, ChatKeeps, Ordered
<1>3. n \in Steps /\ step[c][n] = "waiting" /\ \A j \in Steps : step[c][j] = "waiting" => n <= j
  BY <1>2, NextType
<1>4. ASSUME NEW i \in Steps
      PROVE /\ step'[c][i] = IF i = n THEN "thinking" ELSE step[c][i]
            /\ context'[c][i] = IF i = n THEN Description(c) ELSE context[c][i]
  BY DEF DescribeStep, IInv, TypeOK, StepTypes
<1>5. ASSUME NEW j \in Steps, j < n PROVE step[c][j] = "ended"
  <2>1. j \in Nat /\ n \in Nat
    BY <1>3, BoundsAssumption DEF Steps, BoundsAssumption
  <2>2. step[c][j] # "waiting"
    BY <1>3, <1>5, <2>1
  <2> QED
    BY <1>2, <2>2 DEF Rested
<1>6. Ordered(c)'
  <2>1. ASSUME NEW i \in Steps, NEW j \in Steps, Informed(c, i)', j < i
        PROVE step'[c][j] = "ended"
    <3>1. CASE i = n
      BY <1>3, <1>4, <1>5, <2>1, <3>1, BoundsAssumption DEF Steps, BoundsAssumption
    <3>2. CASE i # n
      <4>1. step[c][j] = "ended"
        BY <1>1, <1>2, <1>4, <2>1, <3>2 DEF Ordered, Informed
      <4> QED
        BY <1>3, <1>4, <4>1
    <3> QED
      BY <3>1, <3>2
  <2> QED
    BY <1>1, <2>1 DEF Ordered, Executing
<1>7. Steady(c)'
  <2>1. Alone(c)' => Alone(c) /\ pinned'
    BY <1>1 DEF AloneInv, ChatKeeps, Steady, Alone, Open
  <2>2. Description(c).table = named[c]
    BY DEF Description
  <2>3. ASSUME Alone(c) PROVE \A i \in Steps : step'[c][i] # "moving"
    BY <1>1, <1>4, <2>3 DEF AloneInv, ChatKeeps, Steady
  <2>4. ASSUME Alone(c), ~strayed PROVE OnTable(c)'
    <3>1. OnTable(c) /\ named[c] = table /\ base[c].table = table
      BY <1>1, <2>4 DEF AloneInv, ChatKeeps, Steady, OnTable
    <3> QED
      BY <1>1, <1>4, <2>2, <3>1 DEF OnTable, Executing
  <2> QED
    BY <1>1, <2>1, <2>3, <2>4 DEF Steady
<1>8. Answering(c)'
  BY <1>1 DEF AloneInv, ChatKeeps, Answering, Executing, Entered
<1>9. Told(c)'
  <2> SUFFICES ASSUME NEW i \in Steps, ~strayed, Informed(c, i)',
                      context'[c][i].table[2] = "upload",
                      NEW d \in Datasets, NEW x \in cols[d], x[1] = c, x[2] < i
               PROVE x \in context'[c][i].cols
    BY <1>1 DEF Told, KnowsEarlier, OfChat
  <2>1. CASE i = n
    <3>1. Own(named[c]) /\ named[c][2] = "upload"
      BY <1>1, <1>4, <2>1 DEF Description, IInv, Settled, ChatOwn
    <3>2. named[c] = Upload(ToolData)
      BY <3>1 DEF Own, Upload, Cache
    <3>3. d = ToolData
      BY DEF AloneInv, OneSource
    <3> QED
      BY <1>4, <2>1, <3>2, <3>3 DEF Description, Upload
  <2>2. CASE i # n
    <3>1. Informed(c, i) /\ context'[c][i] = context[c][i]
      BY <1>1, <1>4, <2>2 DEF Informed
    <3> QED
      BY <3>1 DEF AloneInv, ChatKeeps, Told, KnowsEarlier, OfChat
  <2> QED
    BY <2>1, <2>2
<1> QED
  BY <1>6, <1>7, <1>8, <1>9 DEF ChatKeeps
\* The pin is set on the table it was told about, and the independent steps begin.
LEMMA PlanRelies ==
  ASSUME IInv, AloneInv, NEW c \in Chats, Plan(c) PROVE ChatKeeps(c)'
<1> USE DEF session, stash, asked, steps
<1>1. PICK p \in Plans[c] :
        /\ plan' = [plan EXCEPT ![c] = p]
        /\ step' = [step EXCEPT ![c] = [i \in Steps |->
             IF i > Len(p) THEN "ended" ELSE IF p[i] THEN "waiting" ELSE "thinking"]]
        /\ context' = [context EXCEPT ![c] = [i \in Steps |->
             IF i \in Independent(p) THEN base[c] ELSE NoContext]]
  BY DEF Plan
<1>2. p # <<>> /\ Len(p) \in Nat
  BY PlansAssumption DEF PlansAssumption
<1>3. /\ pc'[c] = "running" /\ pc[c] = "asking" /\ plan'[c] = p /\ pinned' = TRUE
      /\ UNCHANGED <<base, answer, done, plots, cols, strayed, overlapped, table,
                     records, frames>>
  BY <1>1 DEF Plan, IInv, TypeOK, ChatTypes
<1>4. ASSUME NEW i \in Steps
      PROVE /\ step'[c][i] \in {"ended", "waiting", "thinking"}
            /\ context'[c][i] = IF i \in Independent(p) THEN base[c] ELSE NoContext
  BY <1>1 DEF IInv, TypeOK, StepTypes
<1>5. \A i \in Steps : ~Informed(c, i)'
  BY <1>3, <1>4 DEF Informed, Independent
<1>6. Ordered(c)'
  BY <1>2, <1>3, <1>5 DEF Ordered, Executing
<1>7. Steady(c)'
  <2>1. Alone(c)' => Alone(c)
    BY <1>3 DEF Alone, Open
  <2>2. ASSUME Alone(c), ~strayed PROVE OnTable(c)'
    <3>1. base[c].table = table /\ table # NoTable
      BY <1>3, <2>2 DEF AloneInv, ChatKeeps, Steady, OnTable
    <3> QED
      BY <1>3, <1>4, <3>1 DEF OnTable
  <2> QED
    BY <1>3, <1>4, <2>1, <2>2 DEF Steady
<1>8. Answering(c)'
  BY <1>2, <1>3 DEF AloneInv, ChatKeeps, Answering, Executing, Entered
<1>9. Told(c)'
  BY <1>5 DEF Told
<1> QED
  BY <1>6, <1>7, <1>8, <1>9 DEF ChatKeeps

\* The table is looked at again before a dependent step.
LEMMA RefreshRelies ==
  ASSUME IInv, AloneInv, NEW c \in Chats, Refresh(c) PROVE ChatKeeps(c)'
<1> USE DEF session, stash, asked, steps
<1>1. /\ pc[c] = "running" /\ pc'[c] \in {"describing", "looking"}
      /\ table # NoTable => pc'[c] = "describing" /\ named'[c] = table
      /\ Rested(c) /\ Waiting(c)
      /\ UNCHANGED <<plan, base, step, context, answer, done, plots, cols, strayed,
                     overlapped, table, records, frames, pinned>>
  BY DEF Refresh, IInv, TypeOK, ChatTypes
<1>2. Executing(c)
  BY <1>1 DEF AloneInv, ChatKeeps, Ordered, Waiting
<1>3. Ordered(c)'
  BY <1>1, <1>2 DEF AloneInv, ChatKeeps, Ordered, Executing, Informed, Rested, Waiting
<1>4. Steady(c)'
  <2>1. Alone(c)' => Alone(c)
    BY <1>1 DEF Alone, Open
  <2>2. ASSUME Alone(c), ~strayed PROVE OnTable(c)'
    <3>1. OnTable(c) /\ table # NoTable
      BY <1>2, <2>2 DEF AloneInv, ChatKeeps, Steady, OnTable
    <3> QED
      BY <1>1, <1>2, <3>1 DEF OnTable, Executing
  <2> QED
    BY <1>1, <1>2, <2>1, <2>2 DEF AloneInv, ChatKeeps, Steady, Executing
<1>5. Answering(c)'
  BY <1>1, <1>2 DEF AloneInv, ChatKeeps, Answering, Executing, Entered
<1>6. Told(c)'
  BY <1>1 DEF AloneInv, ChatKeeps, Told, Informed, KnowsEarlier
<1> QED
  BY <1>3, <1>4, <1>5, <1>6 DEF ChatKeeps

\* It ends: nothing runs on, and what was answered is answered.
LEMMA CloseRelies ==
  ASSUME IInv, AloneInv, NEW c \in Chats, Close(c),
         c \notin overlapped => OwnResults(c)'
  PROVE ChatKeeps(c)'
<1>1. /\ pc'[c] = "closed" /\ plan'[c] = <<>> /\ overlapped' = overlapped
      /\ \A i \in Steps : step'[c][i] = "ended" /\ context'[c][i] = NoContext
  BY DEF Close, IInv, TypeOK, ChatTypes, StepTypes
<1>2. Ordered(c)' /\ Told(c)'
  BY <1>1 DEF Ordered, Told, Executing, Informed
<1>3. Steady(c)'
  BY <1>1 DEF Steady, Alone, Open
<1>4. Answering(c)'
  BY <1>1 DEF Answering, Entered, Executing
<1> QED
  BY <1>2, <1>3, <1>4 DEF ChatKeeps

\* A packaged answer holds what the session has recorded of the chat, and no more.
LEMMA PackageRelies ==
  ASSUME IInv, AloneInv, NEW c \in Chats, Entered(c), Package(c), Close(c)
  PROVE ChatKeeps(c)'
<1>1. answer'[c] = [kind |-> "answer", records |-> records, frames |-> frames,
                    plots |-> plots]
  BY DEF Package, IInv, TypeOK, ChatTypes
<1>2. done' = done /\ plots' = plots
  BY DEF Close, stash
<1>3. c \notin overlapped => OwnResults(c)'
  BY <1>1, <1>2 DEF AloneInv, ChatKeeps, Answering, OwnResults, OfChat
<1> QED
  BY <1>3, CloseRelies

\* A refusal or an exception carries no results.
LEMMA LeaveRelies ==
  ASSUME IInv, AloneInv, NEW c \in Chats, pc[c] # "closed", Refuse(c) \/ Leave(c)
  PROVE ChatKeeps(c)'
<1>1. answer'[c].kind \in {"none", "refusal"}
  <2>1. CASE Refuse(c)
    BY <2>1 DEF Refuse, NoAnswer, IInv, TypeOK, ChatTypes
  <2>2. CASE Leave(c)
    BY <2>2 DEF AloneInv, ChatKeeps, Answering, Leave, NoAnswer
  <2> QED
    BY <2>1, <2>2
<1>2. Close(c)
  BY DEF Refuse, Leave
<1> QED
  BY <1>1, <1>2, CloseRelies DEF OwnResults

\* A step takes a turn: it is none of those that have ended, so no later step has been
\* told of its columns yet, and alone it records what it keeps.
LEMMA TurnRelies ==
  ASSUME IInv, AloneInv, NEW c \in Chats, NEW i \in Steps, StepTurn(c, i)
  PROVE ChatKeeps(c)'
<1> USE DEF session, stash, asked, steps
<1>1. /\ UNCHANGED <<pc, looking, named, plan, base, context, answer, pinned,
                     overlapped, ops>>
      /\ step[c][i] \notin {"waiting", "ended"}
  BY StepFrame
<1>2. ASSUME NEW j \in Steps, j # i PROVE step'[c][j] = step[c][j]
  <2>1. PICK s : step' = [step EXCEPT ![c][i] = s]
    BY StepFrame
  <2> QED
    BY <1>2, <2>1 DEF IInv, TypeOK, StepTypes
<1>3. Executing(c) /\ pc[c] \notin {"looking", "describing", "idle", "entering", "asking",
                                    "closed"}
  <2>1. Executing(c)
    BY <1>1 DEF AloneInv, ChatKeeps, Ordered
  <2> QED
    BY <1>1, <2>1
       DEF AloneInv, ChatKeeps, Ordered, Rested, Executing, IInv, Located, ChatAt, Asked
<1>4. Ordered(c)'
  <2>1. ASSUME NEW k \in Steps, NEW j \in Steps, Informed(c, k), j < k
        PROVE step'[c][j] = "ended"
    BY <1>1, <1>2, <2>1 DEF AloneInv, ChatKeeps, Ordered
  <2> QED
    BY <1>1, <1>3, <2>1 DEF Ordered, Executing, Informed
<1>5. Alone(c)' => Alone(c) /\ pinned
  BY <1>1, <1>3 DEF AloneInv, ChatKeeps, Steady, Alone, Open
<1>6. Steady(c)'
  <2>1. ASSUME Alone(c)' PROVE step'[c][i] # "moving"
    BY <1>5, <2>1, TurnEffects
  <2>2. ASSUME Alone(c)', ~strayed' PROVE OnTable(c)'
    <3>1. OnTable(c) /\ ~strayed
      BY <1>5, <2>2, TurnEffects DEF AloneInv, ChatKeeps, Steady
    <3>2. step[c][i] \notin {"ensuring", "moving"} /\ table # NoTable
      BY <1>3, <1>5, <2>2, <3>1 DEF OnTable, AloneInv, ChatKeeps, Steady
    <3>3. table' = table /\ step'[c][i] # "ensuring"
      BY <2>2, <3>2, TurnEffects
    <3> QED
      BY <1>1, <1>2, <1>3, <3>1, <3>3 DEF OnTable, Executing
  <2>3. ASSUME Alone(c)', NEW j \in Steps PROVE step'[c][j] # "moving"
    BY <1>2, <1>3, <1>5, <2>1, <2>3 DEF AloneInv, ChatKeeps, Steady
  <2> QED
    BY <1>1, <1>3, <1>5, <2>2, <2>3 DEF Steady, Executing
<1>7. Answering(c)'
  <2>1. ASSUME c \notin overlapped
        PROVE records' = OfChat(c, done)' /\ frames' \subseteq records'
    <3>1. records = OfChat(c, done) /\ frames \subseteq records
      BY <1>3, <2>1 DEF AloneInv, ChatKeeps, Answering, Entered
    <3>2. pinned /\ step[c][i] # "moving"
      BY <1>3, <2>1 DEF AloneInv, ChatKeeps, Steady, Alone, Open
    <3>3. \/ UNCHANGED <<records, done, frames>>
          \/ /\ records' = records \cup {ThisCall(c, i)}
             /\ done' = done \cup {ThisCall(c, i)}
             /\ frames' = frames \/ frames' = frames \cup {ThisCall(c, i)}
      BY <3>2 DEF StepTurn, CallTool, EnsureTable, Work, FailTool, Move, UseTable,
         EndStep, Recorded, Advances
    <3> QED
      BY <3>1, <3>3 DEF OfChat, ThisCall
  <2> QED
    BY <1>1, <1>3, <2>1 DEF AloneInv, ChatKeeps, Answering, Executing, Entered
<1>8. Told(c)'
  <2> SUFFICES ASSUME NEW k \in Steps, ~strayed', Informed(c, k)',
                      context'[c][k].table[2] = "upload",
                      NEW d \in Datasets, NEW x \in cols'[d], x[1] = c, x[2] < k
               PROVE x \in context'[c][k].cols
    BY DEF Told, KnowsEarlier, OfChat
  <2>1. ~strayed /\ Informed(c, k) /\ context' = context
    BY <1>1, TurnEffects DEF Informed
  <2>2. KnowsEarlier(c, k)
    BY <2>1 DEF AloneInv, ChatKeeps, Told
  <2>3. ~(i < k)
    BY <1>1, <2>1 DEF AloneInv, ChatKeeps, Ordered
  <2>4. x # ThisCall(c, i)
    BY <2>3 DEF ThisCall
  <2>5. x \in cols[d]
    <3>1. \/ cols' = cols
          \/ cols' = [cols EXCEPT ![target[c][i]] = @ \cup {ThisCall(c, i)}]
      BY DEF StepTurn, CallTool, EnsureTable, Work, FailTool, Move, UseTable, EndStep
    <3> QED
      BY <2>4, <3>1 DEF IInv, TypeOK, SessionTypes
  <2> QED
    BY <2>1, <2>2, <2>5 DEF KnowsEarlier, OfChat
<1> QED
  BY <1>4, <1>6, <1>7, <1>8 DEF ChatKeeps

\* Whatever the chat does next.
LEMMA ActorRelies ==
  ASSUME IInv, AloneInv, NEW c \in Chats, Acts(c) PROVE ChatKeeps(c)'
<1> USE DEF session, stash, asked, steps
<1>1. CASE Start(c)
  BY <1>1, StartRelies
<1>2. CASE Enter(c)
  BY <1>2, EnterRelies
     DEF Enter, EnterWith, IInv, Located, ChatAt, Asked
<1>3. CASE Look(c) \/ Found(c) \/ DescribeBase(c) \/ DescribeStep(c) \/ Plan(c)
           \/ Refresh(c)
  BY <1>3, LookRelies, FoundRelies, DescribeBaseRelies, DescribeStepRelies, PlanRelies,
     RefreshRelies
<1>4. CASE PlanNothing(c)
  BY <1>4, PackageRelies DEF PlanNothing, Entered
<1>5. CASE Finish(c)
  BY <1>5, PackageRelies DEF Finish, Entered, AloneInv, ChatKeeps, Ordered
<1>6. CASE Refuse(c) \/ FailLookup(c) \/ Cancel(c)
  BY <1>6, LeaveRelies DEF Refuse, FailLookup, Cancel, Open
<1>7. CASE StepNext(c)
  BY <1>7, TurnRelies DEF StepNext, StepTurn
<1> QED
  BY <1>1, <1>2, <1>3, <1>4, <1>5, <1>6, <1>7 DEF Acts, ChatNext
-----------------------------------------------------------------------------
(* The whole invariant. *)

\* A chat is under way only if it was, or has just met those that are.
LEMMA MetStep == ASSUME IInv, AloneInv, Next, NEW e \in Chats, Acts(e) PROVE Met'
<1>1. overlapped \subseteq overlapped'
  BY HistoryGrows
<1>2. \A c \in Chats \ {e} : pc'[c] = pc[c]
  BY OthersKeep DEF Locals
<1>3. CASE Start(e)
  BY <1>1, <1>2, <1>3 DEF Start, Open, AloneInv, Met
<1>4. CASE ChatNext(e) \/ Cancel(e)
  <2>1. Open(e)
    BY <1>4, ActorOpen DEF AloneInv, ChatKeeps
  <2> QED
    BY <1>1, <1>2, <2>1 DEF Open, AloneInv, Met
<1> QED
  BY <1>3, <1>4 DEF Acts

\* A column goes where the tools are bound to.
LEMMA SourceStep == ASSUME IInv, AloneInv, Next, NEW e \in Chats, Acts(e) PROVE OneSource'
<1> USE DEF session, stash, asked, steps
<1>1. ASSUME NEW i \in Steps, Work(e, i) PROVE OneSource'
  <2>1. UNCHANGED <<ops, active, strayed>> /\ step[e][i] = "working"
    BY <1>1 DEF Work
  <2>2. ~strayed => target[e][i] = ToolData
    BY <2>1 DEF IInv, Settled, StepOwn, Busy
  <2>3. \/ cols' = cols
        \/ cols' = [cols EXCEPT ![target[e][i]] = @ \cup {ThisCall(e, i)}]
    BY <1>1 DEF Work
  <2>4. ToolData' = ToolData
    BY <2>1 DEF ToolData, FirstOf
  <2> QED
    BY <2>1, <2>2, <2>3, <2>4 DEF AloneInv, OneSource, IInv, TypeOK, SessionTypes
<1>2. ASSUME NEW i \in Steps, StepTurn(e, i), ~Work(e, i)
      PROVE cols' = cols /\ (strayed' = TRUE \/ UNCHANGED <<ops, active, strayed>>)
  BY <1>2 DEF StepTurn, CallTool, EnsureTable, FailTool, Move, UseTable, EndStep
<1>3. ASSUME cols' = cols, strayed' = TRUE \/ UNCHANGED <<ops, active, strayed>>
      PROVE OneSource'
  BY <1>3 DEF AloneInv, OneSource, ToolData, FirstOf
<1>4. CASE StepNext(e)
  BY <1>1, <1>2, <1>3, <1>4 DEF StepNext, StepTurn
<1>5. CASE Refuse(e) \/ PlanNothing(e) \/ Finish(e) \/ FailLookup(e) \/ Cancel(e)
  BY <1>3, <1>5 DEF Refuse, PlanNothing, Finish, FailLookup, Cancel, Leave, Close
<1>6. CASE Start(e) \/ Enter(e) \/ Look(e) \/ Found(e) \/ DescribeBase(e)
           \/ DescribeStep(e) \/ Plan(e) \/ Refresh(e)
  BY <1>3, <1>6 DEF Start, Enter, EnterWith, Look, Found, DescribeBase, DescribeStep, Plan,
     Refresh
<1> QED
  BY <1>4, <1>5, <1>6 DEF Acts, ChatNext

\* A change of the active dataset touches no chat.
LEMMA SetActiveRelies ==
  ASSUME IInv, AloneInv, NEW d \in Datasets, SetActive(d) PROVE AloneInv'
<1> USE DEF session, stash, asked, steps
<1>1. /\ UNCHANGED <<session, stash, ops, cols, pc, looking, named, asked, steps, context,
                     answer, done, overlapped>>
      /\ ~strayed' => ~strayed /\ ToolData' = ToolData
  BY DEF SetActive, ToolData, FirstOf
<1>2. Met'
  BY <1>1 DEF AloneInv, Met, Open
<1>3. OneSource'
  BY <1>1 DEF AloneInv, OneSource
<1>4. ASSUME NEW c \in Chats PROVE ChatKeeps(c)'
  <2>1. ChatKeeps(c)
    BY DEF AloneInv
  <2>2. Ordered(c)'
    BY <1>1, <2>1 DEF ChatKeeps, Ordered, Executing, Rested, Waiting, Informed
  <2>3. Steady(c)'
    BY <1>1, <2>1 DEF ChatKeeps, Steady, Alone, Open, Executing, OnTable
  <2>4. Answering(c)'
    BY <1>1, <2>1 DEF ChatKeeps, Answering, Executing, Entered, OwnResults, OfChat
  <2>5. Told(c)'
    BY <1>1, <2>1 DEF ChatKeeps, Told, Informed, KnowsEarlier, OfChat
  <2> QED
    BY <2>2, <2>3, <2>4, <2>5 DEF ChatKeeps
<1> QED
  BY <1>2, <1>3, <1>4 DEF AloneInv

\* Every step keeps it.
LEMMA AloneStep == ASSUME IInv, AloneInv, [Next]_vars PROVE AloneInv'
<1>1. CASE UNCHANGED vars
  BY <1>1
     DEF vars, session, stash, asked, steps, AloneInv, Met, OneSource, ChatKeeps, Ordered,
         Steady, Answering, Told, Alone, Open, Executing, OnTable, Entered, OwnResults,
         Rested, Waiting, Informed, KnowsEarlier, OfChat, ToolData, FirstOf
<1>2. ASSUME Next, NEW e \in Chats, Acts(e) PROVE AloneInv'
  BY <1>2, MetStep, SourceStep, OthersRely, ActorRelies DEF AloneInv
<1> QED
  BY <1>1, <1>2, SetActiveRelies DEF Next, Acts

\* It holds of a fresh session.
LEMMA InitAlone == Init => AloneInv
<1> SUFFICES ASSUME Init PROVE AloneInv
  OBVIOUS
<1>1. \A c \in Chats : ~Executing(c) /\ pc[c] = "idle"
  BY DEF Init, Executing
<1>2. ASSUME NEW c \in Chats PROVE ChatKeeps(c)
  <2>1. OfChat(c, done) = {} /\ OfChat(c, plots) = {}
    BY DEF Init, OfChat
  <2>2. Ordered(c) /\ Told(c)
    BY <1>1 DEF Init, Ordered, Told, Informed
  <2>3. Steady(c) /\ Answering(c)
    BY <1>1, <2>1 DEF Init, Steady, Alone, Open, Answering, Entered
  <2> QED
    BY <2>2, <2>3 DEF ChatKeeps
<1>3. Met /\ OneSource
  BY DEF Init, Met, Open, OneSource
<1> QED
  BY <1>2, <1>3 DEF AloneInv

-----------------------------------------------------------------------------
(* The results. *)

\* The invariant the results rest on, for every number of chats and datasets.
THEOREM AloneInvariant == Spec => []AloneInv
<1>1. IInv /\ AloneInv /\ [Next]_vars => AloneInv'
  BY AloneStep
<1> QED
  BY <1>1, InitAlone, ChatInvariant, PTL DEF Spec

\* While it runs alone and nothing retargets the session, every step of a chat is given
\* the table the chat began with.
THEOREM SameTableSafety == Spec => []SameTable
<1>1. IInv /\ AloneInv => SameTable
  <2> SUFFICES ASSUME IInv, AloneInv, NEW c \in Chats \ overlapped, NEW i \in Steps, ~strayed,
                      context[c][i] # NoContext
               PROVE context[c][i].table = base[c].table
    BY DEF SameTable
  <2>1. Executing(c)
    BY DEF AloneInv, ChatKeeps, Ordered
  <2>2. ChatKeeps(c)
    BY DEF AloneInv
  <2>3. CASE Open(c)
    BY <2>1, <2>2, <2>3 DEF ChatKeeps, Steady, Alone, OnTable
  <2>4. pc[c] # "idle"
    BY <2>1 DEF IInv, Located, ChatAt, Asked, Executing
  <2> QED
    BY <2>1, <2>2, <2>3, <2>4 DEF ChatKeeps, Ordered, Open
<1> QED
  BY <1>1, AloneInvariant, ChatInvariant, PTL

\* A dependent step that is told about the table of its dataset knows of every column the
\* steps before it have added, also when chats overlap.
THEOREM SeesEarlierSafety == Spec => []SeesEarlier
<1>1. AloneInv => SeesEarlier
  BY DEF AloneInv, ChatKeeps, Told, SeesEarlier
<1> QED
  BY <1>1, AloneInvariant, PTL

\* A chat that met no other one answers with its own calls, frames and plots.
THEOREM OwnAnswerSafety == Spec => []OwnAnswer
<1>1. AloneInv => OwnAnswer
  <2> SUFFICES ASSUME AloneInv, NEW c \in Chats \ overlapped, answer[c].kind = "answer"
               PROVE OwnResults(c)
    BY DEF OwnAnswer, OwnResults
  <2>1. pc[c] = "closed"
    BY DEF AloneInv, ChatKeeps, Answering, NoAnswer
  <2> QED
    BY <2>1 DEF AloneInv, ChatKeeps, Answering
<1> QED
  BY <1>1, AloneInvariant, PTL
================================================================================

------------------------------ MODULE ChatProofs ------------------------------
(***************************************************************************)
(* Sessions with any number of chats, datasets, steps and calls, the chats *)
(* overlapping as they like: types, the pin, and the dataset of the tools. *)
(***************************************************************************)
EXTENDS Chat, TLAPS

Asked == {"idle", "entering", "asking"}
Busy == {"ensuring", "working", "moving"}

\* Where a chat is tells what its locals hold.
ChatAt(c) ==
  /\ pc[c] \in Asked => plan[c] = <<>>
  /\ pc[c] = "looking" => looking[c] \in Datasets
  /\ pc[c] = "describing" => named[c] \in Tables
StepAt(c, i) == step[c][i] \in Busy => made[c][i] \in 1..MaxCalls /\ target[c][i] \in Datasets
Located == \A c \in Chats : ChatAt(c) /\ \A i \in Steps : StepAt(c, i)

\* As long as nothing has retargeted the session, every dataset it looks up, describes
\* or works on is the one of its tools.
Own(t) == t \in {Upload(ToolData), Cache(ToolData)}
ChatOwn(c) ==
  /\ pc[c] = "looking" => looking[c] = ToolData
  /\ pc[c] = "describing" => Own(named[c])
  /\ pc[c] = "asking" => Own(base[c].table)
StepOwn(c, i) == step[c][i] \notin {"waiting", "ended"} =>
  /\ Own(context[c][i].table)
  /\ step[c][i] \in Busy => target[c][i] = ToolData
Settled ==
  ~strayed =>
    /\ data = NoData
    /\ table = NoTable \/ Own(table)
    /\ \A c \in Chats : ChatOwn(c) /\ \A i \in Steps : StepOwn(c, i)

IInv == TypeOK /\ Located /\ Released /\ Settled

-----------------------------------------------------------------------------
(* Facts the actions share. *)

\* An id is found wherever one is looked for.
LEMMA ResolvedType == TypeOK => Resolved \in Datasets /\ ToolData \in Datasets
  BY DEF TypeOK, SessionTypes, Resolved, ToolData, FirstOf

\* Without use_table the session looks up what its tools work on.
LEMMA ResolvedOwn == data = NoData => Resolved = ToolData
  BY DEF Resolved, ToolData, FirstOf

\* A dataset has both tables.
LEMMA TablesOf == \A d \in Datasets : Upload(d) \in Tables /\ Cache(d) \in Tables
  BY DEF Upload, Cache, Tables

\* A fault is counted within its bound.
LEMMA FaultType == TypeOK /\ Fault => faults' \in 0..MaxFaults
<1> SUFFICES ASSUME TypeOK, Fault PROVE faults' \in 0..MaxFaults
  OBVIOUS
<1>1. faults \in 0..MaxFaults /\ faults < MaxFaults /\ faults' = faults + 1
  BY DEF TypeOK, SessionTypes, Fault
<1> QED
  BY <1>1, BoundsAssumption DEF BoundsAssumption

\* The columns of a dataset's table are calls.
LEMMA DescriptionType ==
  ASSUME TypeOK, NEW c \in Chats, named[c] \in Tables
  PROVE Description(c) \in Contexts /\ Description(c).table = named[c]
<1>1. named[c][1] \in Datasets
  BY DEF Tables
<1>2. cols[named[c][1]] \in SUBSET Calls
  BY <1>1 DEF TypeOK, SessionTypes
<1> QED
  BY <1>2 DEF Description, Contexts

\* No description is a description of no table.
LEMMA NoContextType == NoContext \in Contexts
  BY DEF NoContext, Contexts

\* No plan is one of the plans.
LEMMA NoPlanType == <<>> \in AllPlans
  BY DEF AllPlans

\* What is left of a chat that is over has its types.
LEMMA CloseTypes ==
  ASSUME TypeOK, NEW c \in Chats, Close(c) PROVE StepTypes'
<1> USE DEF TypeOK, StepTypes, Close
<1>1. step' \in [Chats -> [Steps -> {"waiting", "thinking", "ensuring", "working",
                                     "moving", "ended"}]]
  OBVIOUS
<1>2. context' \in [Chats -> [Steps -> Contexts]]
  BY NoContextType
<1>3. kind' \in [Chats -> [Steps -> ToolKinds \cup {NoTool}]]
  OBVIOUS
<1>4. made' \in [Chats -> [Steps -> 0..MaxCalls]]
  BY BoundsAssumption DEF BoundsAssumption
<1>5. target' \in [Chats -> [Steps -> Datasets \cup {NoData}]]
  OBVIOUS
<1> QED
  BY <1>1, <1>2, <1>3, <1>4, <1>5

-----------------------------------------------------------------------------
(* The actions keep the invariant. *)

\* A chat begins, beside others or alone.
LEMMA StartKeeps == ASSUME IInv, NEW c \in Chats, Start(c) PROVE IInv'
<1> USE DEF session, stash, asked, steps
<1>1. TypeOK'
  <2>1. SessionTypes'
    BY DEF IInv, TypeOK, SessionTypes, Start, Open
  <2>2. ChatTypes'
    BY DEF IInv, TypeOK, SessionTypes, ChatTypes, Start, Open
  <2>3. StepTypes'
    BY DEF IInv, TypeOK, ChatTypes, StepTypes, Start, Open
  <2> QED
    BY <2>1, <2>2, <2>3 DEF TypeOK
<1>2. Located'
  BY DEF IInv, TypeOK, SessionTypes, ChatTypes, StepTypes, Located, ChatAt, StepAt,
         Asked, Busy, Start, Open
<1>3. Released'
  BY DEF IInv, TypeOK, SessionTypes, ChatTypes, Released, Executing, Located, ChatAt,
         Asked, Start, Open
<1>4. ToolData' = ToolData
  BY DEF ToolData, FirstOf, Start, Open
<1>5. Settled'
  BY <1>4
     DEF IInv, TypeOK, ChatTypes, StepTypes, Settled, ChatOwn, StepOwn, Own, Busy, Start,
         Open
<1> QED
  BY <1>1, <1>2, <1>3, <1>5 DEF IInv

\* The table the session has is the one described.
LEMMA EnterKeeps == ASSUME IInv, NEW c \in Chats, Enter(c) PROVE IInv'
<1> USE DEF session, stash, asked, steps
<1>1. TypeOK'
  <2>1. SessionTypes'
    BY DEF IInv, TypeOK, SessionTypes, Enter, EnterWith
  <2>2. ChatTypes'
    BY DEF IInv, TypeOK, SessionTypes, ChatTypes, Enter, EnterWith
  <2>3. StepTypes'
    BY DEF IInv, TypeOK, ChatTypes, StepTypes, Enter, EnterWith
  <2> QED
    BY <2>1, <2>2, <2>3 DEF TypeOK
<1>2. Located'
  BY DEF IInv, TypeOK, SessionTypes, ChatTypes, StepTypes, Located, ChatAt, StepAt,
         Asked, Busy, Enter, EnterWith
<1>3. Released'
  BY DEF IInv, TypeOK, SessionTypes, ChatTypes, Released, Executing, Located, ChatAt,
         Asked, Enter, EnterWith
<1>4. ToolData' = ToolData
  BY DEF ToolData, FirstOf, Enter, EnterWith
<1>5. Settled'
  BY <1>4
     DEF IInv, TypeOK, ChatTypes, StepTypes, Settled, ChatOwn, StepOwn, Own, Busy, Enter,
         EnterWith
<1> QED
  BY <1>1, <1>2, <1>3, <1>5 DEF IInv

\* An id is picked.
LEMMA LookKeeps == ASSUME IInv, NEW c \in Chats, Look(c) PROVE IInv'
<1> USE DEF session, stash, asked, steps
<1>0. looking'[c] = Resolved
  BY DEF IInv, TypeOK, ChatTypes, Look
<1>6. ~strayed => looking'[c] = ToolData
  BY <1>0, ResolvedOwn DEF IInv, Settled
<1>1. TypeOK'
  <2>1. SessionTypes'
    BY ResolvedType DEF IInv, TypeOK, SessionTypes, Look
  <2>2. ChatTypes'
    BY ResolvedType DEF IInv, TypeOK, SessionTypes, ChatTypes, Look
  <2>3. StepTypes'
    BY ResolvedType DEF IInv, TypeOK, ChatTypes, StepTypes, Look
  <2> QED
    BY <2>1, <2>2, <2>3 DEF TypeOK
<1>2. Located'
  BY ResolvedType
     DEF IInv, TypeOK, SessionTypes, ChatTypes, StepTypes, Located, ChatAt, StepAt,
         Asked, Busy, Look
<1>3. Released'
  BY DEF IInv, TypeOK, SessionTypes, ChatTypes, Released, Executing, Located, ChatAt,
         Asked, Look
<1>4. ToolData' = ToolData
  BY DEF ToolData, FirstOf, Look
<1>5. Settled'
  BY <1>6, <1>4
     DEF IInv, TypeOK, ChatTypes, StepTypes, Settled, ChatOwn, StepOwn, Own, Busy, Look
<1> QED
  BY <1>1, <1>2, <1>3, <1>5 DEF IInv

\* The table of that id becomes the session's.
LEMMA FoundKeeps == ASSUME IInv, NEW c \in Chats, Found(c) PROVE IInv'
<1> USE DEF session, stash, asked, steps
<1>0. looking[c] \in Datasets
  BY DEF IInv, Located, ChatAt, Found
<1>1. TypeOK'
  <2>1. SessionTypes'
    BY TablesOf, <1>0 DEF IInv, TypeOK, SessionTypes, Found, EnterWith
  <2>2. ChatTypes'
    BY TablesOf, <1>0 DEF IInv, TypeOK, SessionTypes, ChatTypes, Found, EnterWith
  <2>3. StepTypes'
    BY TablesOf, <1>0 DEF IInv, TypeOK, ChatTypes, StepTypes, Found, EnterWith
  <2> QED
    BY <2>1, <2>2, <2>3 DEF TypeOK
<1>2. Located'
  BY TablesOf, <1>0
     DEF IInv, TypeOK, SessionTypes, ChatTypes, StepTypes, Located, ChatAt, StepAt,
         Asked, Busy, Found, EnterWith
<1>3. Released'
  BY DEF IInv, TypeOK, SessionTypes, ChatTypes, Released, Executing, Located, ChatAt,
         Asked, Found, EnterWith
<1>4. ToolData' = ToolData
  BY DEF ToolData, FirstOf, Found, EnterWith
<1>5. Settled'
  BY <1>0, <1>4
     DEF IInv, TypeOK, ChatTypes, StepTypes, Settled, ChatOwn, StepOwn, Own, Busy, Found,
         EnterWith
<1> QED
  BY <1>1, <1>2, <1>3, <1>5 DEF IInv

\* The chat is told about its table.
LEMMA DescribeBaseKeeps == ASSUME IInv, NEW c \in Chats, DescribeBase(c) PROVE IInv'
<1> USE DEF session, stash, asked, steps
<1>0. Description(c) \in Contexts /\ Description(c).table = named[c]
  BY DescriptionType DEF IInv, Located, ChatAt, DescribeBase
<1>1. TypeOK'
  <2>1. SessionTypes'
    BY <1>0 DEF IInv, TypeOK, SessionTypes, DescribeBase
  <2>2. ChatTypes'
    BY <1>0 DEF IInv, TypeOK, SessionTypes, ChatTypes, DescribeBase
  <2>3. StepTypes'
    BY <1>0 DEF IInv, TypeOK, ChatTypes, StepTypes, DescribeBase
  <2> QED
    BY <2>1, <2>2, <2>3 DEF TypeOK
<1>2. Located'
  BY DEF IInv, TypeOK, SessionTypes, ChatTypes, StepTypes, Located, ChatAt, StepAt,
         Asked, Busy, DescribeBase
<1>3. Released'
  BY DEF IInv, TypeOK, SessionTypes, ChatTypes, Released, Executing, Located, ChatAt,
         Asked, DescribeBase
<1>4. ToolData' = ToolData
  BY DEF ToolData, FirstOf, DescribeBase
<1>5. Settled'
  BY <1>0, <1>4
     DEF IInv, TypeOK, ChatTypes, StepTypes, Settled, ChatOwn, StepOwn, Own, Busy,
         DescribeBase
<1> QED
  BY <1>1, <1>2, <1>3, <1>5 DEF IInv

\* A dependent step is told about the table, and begins.
LEMMA DescribeStepKeeps == ASSUME IInv, NEW c \in Chats, DescribeStep(c) PROVE IInv'
<1> USE DEF session, stash, asked, steps
<1>0. Description(c) \in Contexts /\ Description(c).table = named[c]
  BY DescriptionType DEF IInv, Located, ChatAt, DescribeStep
<1>1. TypeOK'
  <2>1. SessionTypes'
    BY <1>0 DEF IInv, TypeOK, SessionTypes, DescribeStep
  <2>2. ChatTypes'
    BY <1>0 DEF IInv, TypeOK, SessionTypes, ChatTypes, DescribeStep
  <2>3. StepTypes'
    BY <1>0 DEF IInv, TypeOK, ChatTypes, StepTypes, DescribeStep
  <2> QED
    BY <2>1, <2>2, <2>3 DEF TypeOK
<1>2. Located'
  BY DEF IInv, TypeOK, SessionTypes, ChatTypes, StepTypes, Located, ChatAt, StepAt,
         Asked, Busy, DescribeStep
<1>3. Released'
  BY DEF IInv, TypeOK, SessionTypes, ChatTypes, Released, Executing, Located, ChatAt,
         Asked, DescribeStep
<1>4. ToolData' = ToolData
  BY DEF ToolData, FirstOf, DescribeStep
<1>5. Settled'
  BY <1>0, <1>4
     DEF IInv, TypeOK, ChatTypes, StepTypes, Settled, ChatOwn, StepOwn, Own, Busy,
         DescribeStep
<1> QED
  BY <1>1, <1>2, <1>3, <1>5 DEF IInv

\* A refusal.
LEMMA RefuseKeeps == ASSUME IInv, NEW c \in Chats, Refuse(c) PROVE IInv'
<1> USE DEF session, stash, asked, steps
<1>1. TypeOK'
  <2>1. SessionTypes'
    BY NoContextType, NoPlanType DEF IInv, TypeOK, SessionTypes, Refuse, Close, NoAnswer
  <2>2. ChatTypes'
    BY NoContextType, NoPlanType
       DEF IInv, TypeOK, SessionTypes, ChatTypes, Refuse, Close, NoAnswer
  <2>3. StepTypes'
    BY CloseTypes DEF IInv, Refuse
  <2> QED
    BY <2>1, <2>2, <2>3 DEF TypeOK
<1>2. Located'
  BY DEF IInv, TypeOK, SessionTypes, ChatTypes, StepTypes, Located, ChatAt, StepAt,
         Asked, Busy, Refuse, Close, NoAnswer
<1>3. Released'
  BY DEF IInv, TypeOK, SessionTypes, ChatTypes, Released, Executing, Located, ChatAt,
         Asked, Refuse, Close, NoAnswer
<1>4. ToolData' = ToolData
  BY DEF ToolData, FirstOf, Refuse, Close, NoAnswer
<1>5. Settled'
  BY <1>4
     DEF IInv, TypeOK, ChatTypes, StepTypes, Settled, ChatOwn, StepOwn, Own, Busy,
         Refuse, Close, NoAnswer
<1> QED
  BY <1>1, <1>2, <1>3, <1>5 DEF IInv

\* An answer without a plan.
LEMMA PlanNothingKeeps == ASSUME IInv, NEW c \in Chats, PlanNothing(c) PROVE IInv'
<1> USE DEF session, stash, asked, steps
<1>1. TypeOK'
  <2>1. SessionTypes'
    BY NoContextType, NoPlanType
       DEF IInv, TypeOK, SessionTypes, PlanNothing, Close, Package
  <2>2. ChatTypes'
    BY NoContextType, NoPlanType
       DEF IInv, TypeOK, SessionTypes, ChatTypes, PlanNothing, Close, Package
  <2>3. StepTypes'
    BY CloseTypes DEF IInv, PlanNothing
  <2> QED
    BY <2>1, <2>2, <2>3 DEF TypeOK
<1>2. Located'
  BY DEF IInv, TypeOK, SessionTypes, ChatTypes, StepTypes, Located, ChatAt, StepAt,
         Asked, Busy, PlanNothing, Close, Package
<1>3. Released'
  BY DEF IInv, TypeOK, SessionTypes, ChatTypes, Released, Executing, Located, ChatAt,
         Asked, PlanNothing, Close, Package
<1>4. ToolData' = ToolData
  BY DEF ToolData, FirstOf, PlanNothing, Close, Package
<1>5. Settled'
  BY <1>4
     DEF IInv, TypeOK, ChatTypes, StepTypes, Settled, ChatOwn, StepOwn, Own, Busy,
         PlanNothing, Close, Package
<1> QED
  BY <1>1, <1>2, <1>3, <1>5 DEF IInv

\* The pin is set and the independent steps begin.
LEMMA PlanKeeps == ASSUME IInv, NEW c \in Chats, Plan(c) PROVE IInv'
<1> USE DEF session, stash, asked, steps
<1>0. PICK p \in Plans[c] :
        /\ plan' = [plan EXCEPT ![c] = p]
        /\ step' = [step EXCEPT ![c] = [i \in Steps |->
             IF i > Len(p) THEN "ended" ELSE IF p[i] THEN "waiting" ELSE "thinking"]]
        /\ context' = [context EXCEPT ![c] = [i \in Steps |->
             IF i \in Independent(p) THEN base[c] ELSE NoContext]]
  BY DEF Plan
<1>6. p \in AllPlans /\ p # <<>> /\ Len(p) \in Nat
  BY PlansAssumption DEF PlansAssumption, AllPlans
<1>7. ASSUME NEW i \in Steps, step'[c][i] \notin {"waiting", "ended"}
      PROVE context'[c][i] = base[c] /\ step'[c][i] = "thinking"
  <2>1. i \in Nat /\ i >= 1
    BY DEF Steps
  <2>2. step'[c][i] = IF i > Len(p) THEN "ended" ELSE IF p[i] THEN "waiting" ELSE "thinking"
    BY <1>0 DEF IInv, TypeOK, StepTypes
  <2>3. ~(i > Len(p)) /\ ~p[i] /\ step'[c][i] = "thinking"
    BY <1>7, <2>2
  <2>4. i \in Independent(p)
    BY <1>6, <2>1, <2>3 DEF Independent
  <2> QED
    BY <1>0, <2>3, <2>4 DEF IInv, TypeOK, StepTypes
<1>1. TypeOK'
  <2>1. SessionTypes'
    BY NoContextType, <1>0, <1>6 DEF IInv, TypeOK, SessionTypes, Plan
  <2>2. ChatTypes'
    BY NoContextType, <1>0, <1>6 DEF IInv, TypeOK, SessionTypes, ChatTypes, Plan
  <2>3. StepTypes'
    BY NoContextType, <1>0, <1>6 DEF IInv, TypeOK, ChatTypes, StepTypes, Plan
  <2> QED
    BY <2>1, <2>2, <2>3 DEF TypeOK
<1>2. Located'
  BY DEF IInv, TypeOK, SessionTypes, ChatTypes, StepTypes, Located, ChatAt, StepAt,
         Asked, Busy, Plan
<1>3. Released'
  BY <1>0, <1>6
     DEF IInv, TypeOK, SessionTypes, ChatTypes, Released, Executing, Located, ChatAt,
         Asked, Plan
<1>4. ToolData' = ToolData
  BY DEF ToolData, FirstOf, Plan
<1>5. Settled'
  BY <1>0, <1>7, <1>4
     DEF IInv, TypeOK, ChatTypes, StepTypes, Settled, ChatOwn, StepOwn, Own, Busy, Plan
<1> QED
  BY <1>1, <1>2, <1>3, <1>5 DEF IInv

\* A dependent step asks for the table.
LEMMA RefreshKeeps == ASSUME IInv, NEW c \in Chats, Refresh(c) PROVE IInv'
<1> USE DEF session, stash, asked, steps
<1>1. TypeOK'
  <2>1. SessionTypes'
    BY ResolvedType DEF IInv, TypeOK, SessionTypes, Refresh
  <2>2. ChatTypes'
    BY ResolvedType DEF IInv, TypeOK, SessionTypes, ChatTypes, Refresh
  <2>3. StepTypes'
    BY ResolvedType DEF IInv, TypeOK, ChatTypes, StepTypes, Refresh
  <2> QED
    BY <2>1, <2>2, <2>3 DEF TypeOK
<1>2. Located'
  BY ResolvedType
     DEF IInv, TypeOK, SessionTypes, ChatTypes, StepTypes, Located, ChatAt, StepAt,
         Asked, Busy, Refresh
<1>3. Released'
  BY DEF IInv, TypeOK, SessionTypes, ChatTypes, Released, Executing, Located, ChatAt,
         Asked, Refresh
<1>4. ToolData' = ToolData
  BY DEF ToolData, FirstOf, Refresh
<1>5. Settled'
  BY ResolvedOwn, <1>4
     DEF IInv, TypeOK, ChatTypes, StepTypes, Settled, ChatOwn, StepOwn, Own, Busy, Refresh
<1> QED
  BY <1>1, <1>2, <1>3, <1>5 DEF IInv

\* The pin is taken away and the answer packaged.
LEMMA FinishKeeps == ASSUME IInv, NEW c \in Chats, Finish(c) PROVE IInv'
<1> USE DEF session, stash, asked, steps
<1>1. TypeOK'
  <2>1. SessionTypes'
    BY NoContextType, NoPlanType DEF IInv, TypeOK, SessionTypes, Finish, Close, Package
  <2>2. ChatTypes'
    BY NoContextType, NoPlanType
       DEF IInv, TypeOK, SessionTypes, ChatTypes, Finish, Close, Package
  <2>3. StepTypes'
    BY CloseTypes DEF IInv, Finish
  <2> QED
    BY <2>1, <2>2, <2>3 DEF TypeOK
<1>2. Located'
  BY DEF IInv, TypeOK, SessionTypes, ChatTypes, StepTypes, Located, ChatAt, StepAt,
         Asked, Busy, Finish, Close, Package
<1>3. Released'
  BY DEF IInv, TypeOK, SessionTypes, ChatTypes, Released, Executing, Located, ChatAt,
         Asked, Finish, Close, Package
<1>4. ToolData' = ToolData
  BY DEF ToolData, FirstOf, Finish, Close, Package
<1>5. Settled'
  BY <1>4
     DEF IInv, TypeOK, ChatTypes, StepTypes, Settled, ChatOwn, StepOwn, Own, Busy,
         Finish, Close, Package
<1> QED
  BY <1>1, <1>2, <1>3, <1>5 DEF IInv

\* A chat raises or is cancelled.
LEMMA LeaveKeeps == ASSUME IInv, NEW c \in Chats, Leave(c) PROVE IInv'
<1> USE DEF session, stash, asked, steps
<1>1. TypeOK'
  <2>1. SessionTypes'
    BY NoContextType, NoPlanType, FaultType
       DEF IInv, TypeOK, SessionTypes, Leave, Close, Executing
  <2>2. ChatTypes'
    BY NoContextType, NoPlanType, FaultType
       DEF IInv, TypeOK, SessionTypes, ChatTypes, Leave, Close, Executing
  <2>3. StepTypes'
    BY CloseTypes DEF IInv, Leave
  <2> QED
    BY <2>1, <2>2, <2>3 DEF TypeOK
<1>2. Located'
  BY DEF IInv, TypeOK, SessionTypes, ChatTypes, StepTypes, Located, ChatAt, StepAt,
         Asked, Busy, Leave, Close, Executing
<1>3. Released'
  BY DEF IInv, TypeOK, SessionTypes, ChatTypes, Released, Executing, Located, ChatAt,
         Asked, Leave, Close, Executing
<1>4. ToolData' = ToolData
  BY DEF ToolData, FirstOf, Leave, Close, Executing
<1>5. Settled'
  BY <1>4
     DEF IInv, TypeOK, ChatTypes, StepTypes, Settled, ChatOwn, StepOwn, Own, Busy, Leave,
         Close, Executing
<1> QED
  BY <1>1, <1>2, <1>3, <1>5 DEF IInv

\* A tool is called.
LEMMA CallToolKeeps ==
  ASSUME IInv, NEW c \in Chats, NEW i \in Steps, NEW k \in Tools[c], CallTool(c, i, k)
  PROVE IInv'
<1> USE DEF session, stash, asked, steps
<1>0. /\ k \in ToolKinds
      /\ made[c][i] + 1 \in 0..MaxCalls /\ made[c][i] + 1 \in 1..MaxCalls
      /\ turns' \in 0..MaxTurns
  BY ToolsAssumption, BoundsAssumption
     DEF ToolsAssumption, BoundsAssumption, IInv, TypeOK, SessionTypes, StepTypes, CallTool
<1>6. PICK s \in {"ensuring", "working"}, d \in Datasets :
        /\ step' = [step EXCEPT ![c][i] = s]
        /\ target' = [target EXCEPT ![c][i] = d]
        /\ data = NoData => d = ToolData
  <2>1. CASE k = "plot" /\ table = NoTable
    BY <2>1, ResolvedType, ResolvedOwn DEF IInv, CallTool
  <2>2. CASE ~(k = "plot" /\ table = NoTable)
    BY <2>2, ResolvedType DEF IInv, CallTool
  <2> QED
    BY <2>1, <2>2
<1>7. /\ step[c][i] = "thinking"
      /\ made' = [made EXCEPT ![c][i] = @ + 1] /\ kind' = [kind EXCEPT ![c][i] = k]
      /\ UNCHANGED <<session, stash, ops, active, cols, pc, looking, named, asked, context,
                     answer, done, overlapped, strayed, faults>>
  BY DEF CallTool
<1>1. TypeOK'
  <2>1. SessionTypes'
    BY <1>0, <1>6, <1>7 DEF IInv, TypeOK, SessionTypes
  <2>2. ChatTypes'
    BY <1>0, <1>6, <1>7 DEF IInv, TypeOK, SessionTypes, ChatTypes
  <2>3. StepTypes'
    BY <1>0, <1>6, <1>7 DEF IInv, TypeOK, ChatTypes, StepTypes
  <2> QED
    BY <2>1, <2>2, <2>3 DEF TypeOK
<1>2. Located'
  BY <1>0, <1>6, <1>7
     DEF IInv, TypeOK, SessionTypes, ChatTypes, StepTypes, Located, ChatAt, StepAt,
         Asked, Busy
<1>3. Released'
  BY <1>7
     DEF IInv, TypeOK, SessionTypes, ChatTypes, Released, Executing, Located, ChatAt,
         Asked
<1>4. ToolData' = ToolData
  BY <1>7 DEF ToolData, FirstOf
<1>5. Settled'
  BY <1>6, <1>7, <1>4
     DEF IInv, TypeOK, ChatTypes, StepTypes, Settled, ChatOwn, StepOwn, Own, Busy
<1> QED
  BY <1>1, <1>2, <1>3, <1>5 DEF IInv

\* A tool has made sure of the table.
LEMMA EnsureKeeps ==
  ASSUME IInv, NEW c \in Chats, NEW i \in Steps, EnsureTable(c, i)
  PROVE IInv'
<1> USE DEF session, stash, asked, steps
<1>0. ThisCall(c, i) \in Calls /\ target[c][i] \in Datasets
  BY DEF IInv, Located, StepAt, Busy, ThisCall, Calls, EnsureTable
<1>1. TypeOK'
  <2>1. SessionTypes'
    BY ResolvedType, TablesOf, <1>0 DEF IInv, TypeOK, SessionTypes, EnsureTable
  <2>2. ChatTypes'
    BY ResolvedType, TablesOf, <1>0 DEF IInv, TypeOK, SessionTypes, ChatTypes, EnsureTable
  <2>3. StepTypes'
    BY ResolvedType, TablesOf, <1>0 DEF IInv, TypeOK, ChatTypes, StepTypes, EnsureTable
  <2> QED
    BY <2>1, <2>2, <2>3 DEF TypeOK
<1>2. Located'
  BY ResolvedType, <1>0
     DEF IInv, TypeOK, SessionTypes, ChatTypes, StepTypes, Located, ChatAt, StepAt,
         Asked, Busy, EnsureTable
<1>3. Released'
  BY DEF IInv, TypeOK, SessionTypes, ChatTypes, Released, Executing, Located, ChatAt,
         Asked, EnsureTable
<1>4. ToolData' = ToolData
  BY DEF ToolData, FirstOf, EnsureTable
<1>5. Settled'
  BY <1>0, <1>4
     DEF IInv, TypeOK, ChatTypes, StepTypes, Settled, ChatOwn, StepOwn, Own, Busy,
         EnsureTable
<1> QED
  BY <1>1, <1>2, <1>3, <1>5 DEF IInv

\* An operation has run and the table is about to move.
LEMMA WorkMovesKeeps ==
  ASSUME IInv, NEW c \in Chats, NEW i \in Steps, Work(c, i), Advances(c, i)
  PROVE IInv'
<1> USE DEF session, stash, asked, steps
<1>0. ThisCall(c, i) \in Calls /\ target[c][i] \in Datasets
  BY DEF IInv, Located, StepAt, Busy, ThisCall, Calls, Work
<1>6. /\ step[c][i] = "working"
      /\ step' = [step EXCEPT ![c][i] = "moving"]
      /\ UNCHANGED <<records, done, kind, target>>
      /\ UNCHANGED <<session, ops, active, pc, looking, named, asked, made, context, answer,
                     overlapped, strayed, turns, faults>>
  BY DEF Work
<1>7. cols' \in [Datasets -> SUBSET Calls] /\ frames' \subseteq Calls /\ plots' \subseteq Calls
  BY <1>0 DEF IInv, TypeOK, SessionTypes, Work
<1>1. TypeOK'
  <2>1. SessionTypes'
    BY <1>0, <1>6, <1>7 DEF IInv, TypeOK, SessionTypes
  <2>2. ChatTypes'
    BY <1>0, <1>6 DEF IInv, TypeOK, SessionTypes, ChatTypes
  <2>3. StepTypes'
    BY <1>0, <1>6 DEF IInv, TypeOK, ChatTypes, StepTypes
  <2> QED
    BY <2>1, <2>2, <2>3 DEF TypeOK
<1>2. Located'
  BY <1>0, <1>6
     DEF IInv, TypeOK, SessionTypes, ChatTypes, StepTypes, Located, ChatAt, StepAt,
         Asked, Busy
<1>3. Released'
  BY <1>6
     DEF IInv, TypeOK, SessionTypes, ChatTypes, Released, Executing, Located, ChatAt,
         Asked
<1>4. ToolData' = ToolData
  BY <1>6 DEF ToolData, FirstOf
<1>5. Settled'
  BY <1>0, <1>6, <1>4
     DEF IInv, TypeOK, ChatTypes, StepTypes, Settled, ChatOwn, StepOwn, Own, Busy
<1> QED
  BY <1>1, <1>2, <1>3, <1>5 DEF IInv

\* An operation has run and its call is recorded.
LEMMA WorkLandsKeeps ==
  ASSUME IInv, NEW c \in Chats, NEW i \in Steps, Work(c, i), ~Advances(c, i)
  PROVE IInv'
<1> USE DEF session, stash, asked, steps
<1>0. ThisCall(c, i) \in Calls /\ target[c][i] \in Datasets
  BY DEF IInv, Located, StepAt, Busy, ThisCall, Calls, Work
<1>6. /\ step[c][i] = "working"
      /\ step' = [step EXCEPT ![c][i] = "thinking"]
      /\ kind' = [kind EXCEPT ![c][i] = NoTool] /\ target' = [target EXCEPT ![c][i] = NoData]
      /\ records' = records \cup {ThisCall(c, i)} /\ done' = done \cup {ThisCall(c, i)}
      /\ UNCHANGED <<session, ops, active, pc, looking, named, asked, made, context, answer,
                     overlapped, strayed, turns, faults>>
  BY DEF Work, Recorded
<1>7. cols' \in [Datasets -> SUBSET Calls] /\ frames' \subseteq Calls /\ plots' \subseteq Calls
  BY <1>0 DEF IInv, TypeOK, SessionTypes, Work
<1>1. TypeOK'
  <2>1. SessionTypes'
    BY <1>0, <1>6, <1>7 DEF IInv, TypeOK, SessionTypes
  <2>2. ChatTypes'
    BY <1>0, <1>6 DEF IInv, TypeOK, SessionTypes, ChatTypes
  <2>3. StepTypes'
    BY <1>0, <1>6 DEF IInv, TypeOK, ChatTypes, StepTypes
  <2> QED
    BY <2>1, <2>2, <2>3 DEF TypeOK
<1>2. Located'
  BY <1>0, <1>6
     DEF IInv, TypeOK, SessionTypes, ChatTypes, StepTypes, Located, ChatAt, StepAt,
         Asked, Busy
<1>3. Released'
  BY <1>6
     DEF IInv, TypeOK, SessionTypes, ChatTypes, Released, Executing, Located, ChatAt,
         Asked
<1>4. ToolData' = ToolData
  BY <1>6 DEF ToolData, FirstOf
<1>5. Settled'
  BY <1>0, <1>6, <1>4
     DEF IInv, TypeOK, ChatTypes, StepTypes, Settled, ChatOwn, StepOwn, Own, Busy
<1> QED
  BY <1>1, <1>2, <1>3, <1>5 DEF IInv

\* A failing call is recorded.
LEMMA FailToolKeeps ==
  ASSUME IInv, NEW c \in Chats, NEW i \in Steps, FailTool(c, i)
  PROVE IInv'
<1> USE DEF session, stash, asked, steps
<1>0. ThisCall(c, i) \in Calls /\ target[c][i] \in Datasets
  BY DEF IInv, Located, StepAt, Busy, ThisCall, Calls, FailTool
<1>1. TypeOK'
  <2>1. SessionTypes'
    BY FaultType, <1>0 DEF IInv, TypeOK, SessionTypes, FailTool, Recorded
  <2>2. ChatTypes'
    BY FaultType, <1>0 DEF IInv, TypeOK, SessionTypes, ChatTypes, FailTool, Recorded
  <2>3. StepTypes'
    BY FaultType, <1>0 DEF IInv, TypeOK, ChatTypes, StepTypes, FailTool, Recorded
  <2> QED
    BY <2>1, <2>2, <2>3 DEF TypeOK
<1>2. Located'
  BY DEF IInv, TypeOK, SessionTypes, ChatTypes, StepTypes, Located, ChatAt, StepAt,
         Asked, Busy, FailTool, Recorded
<1>3. Released'
  BY DEF IInv, TypeOK, SessionTypes, ChatTypes, Released, Executing, Located, ChatAt,
         Asked, FailTool, Recorded
<1>4. ToolData' = ToolData
  BY DEF ToolData, FirstOf, FailTool, Recorded
<1>5. Settled'
  BY <1>4
     DEF IInv, TypeOK, ChatTypes, StepTypes, Settled, ChatOwn, StepOwn, Own, Busy,
         FailTool, Recorded
<1> QED
  BY <1>1, <1>2, <1>3, <1>5 DEF IInv

\* The table moves to the cache.
LEMMA MoveKeeps == ASSUME IInv, NEW c \in Chats, NEW i \in Steps, Move(c, i) PROVE IInv'
<1> USE DEF session, stash, asked, steps
<1>0. ThisCall(c, i) \in Calls /\ target[c][i] \in Datasets
  BY DEF IInv, Located, StepAt, Busy, ThisCall, Calls, Move
<1>1. TypeOK'
  <2>1. SessionTypes'
    BY TablesOf, <1>0 DEF IInv, TypeOK, SessionTypes, Move, Recorded
  <2>2. ChatTypes'
    BY TablesOf, <1>0 DEF IInv, TypeOK, SessionTypes, ChatTypes, Move, Recorded
  <2>3. StepTypes'
    BY TablesOf, <1>0 DEF IInv, TypeOK, ChatTypes, StepTypes, Move, Recorded
  <2> QED
    BY <2>1, <2>2, <2>3 DEF TypeOK
<1>2. Located'
  BY DEF IInv, TypeOK, SessionTypes, ChatTypes, StepTypes, Located, ChatAt, StepAt,
         Asked, Busy, Move, Recorded
<1>3. Released'
  BY DEF IInv, TypeOK, SessionTypes, ChatTypes, Released, Executing, Located, ChatAt,
         Asked, Move, Recorded
<1>4. ToolData' = ToolData
  BY DEF ToolData, FirstOf, Move, Recorded
<1>5. Settled'
  BY <1>0, <1>4
     DEF IInv, TypeOK, ChatTypes, StepTypes, Settled, ChatOwn, StepOwn, Own, Busy, Move,
         Recorded
<1> QED
  BY <1>1, <1>2, <1>3, <1>5 DEF IInv

\* The session is retargeted from inside.
LEMMA UseTableKeeps ==
  ASSUME IInv, NEW c \in Chats, NEW i \in Steps, NEW d \in Datasets, UseTable(c, i, d)
  PROVE IInv'
<1> USE DEF session, stash, asked, steps
<1>0. ThisCall(c, i) \in Calls /\ target[c][i] \in Datasets
  BY DEF IInv, Located, StepAt, Busy, ThisCall, Calls, UseTable
<1>1. TypeOK'
  <2>1. SessionTypes'
    BY <1>0 DEF IInv, TypeOK, SessionTypes, UseTable, Recorded
  <2>2. ChatTypes'
    BY <1>0 DEF IInv, TypeOK, SessionTypes, ChatTypes, UseTable, Recorded
  <2>3. StepTypes'
    BY <1>0 DEF IInv, TypeOK, ChatTypes, StepTypes, UseTable, Recorded
  <2> QED
    BY <2>1, <2>2, <2>3 DEF TypeOK
<1>2. Located'
  BY DEF IInv, TypeOK, SessionTypes, ChatTypes, StepTypes, Located, ChatAt, StepAt,
         Asked, Busy, UseTable, Recorded
<1>3. Released'
  BY DEF IInv, TypeOK, SessionTypes, ChatTypes, Released, Executing, Located, ChatAt,
         Asked, UseTable, Recorded
<1>5. Settled'
  BY DEF IInv, TypeOK, SessionTypes, Settled, ChatOwn, StepOwn, Own, ToolData, FirstOf,
         UseTable, Recorded
<1> QED
  BY <1>1, <1>2, <1>3, <1>5 DEF IInv

\* A step ends.
LEMMA EndStepKeeps ==
  ASSUME IInv, NEW c \in Chats, NEW i \in Steps, EndStep(c, i)
  PROVE IInv'
<1> USE DEF session, stash, asked, steps
<1>1. TypeOK'
  <2>1. SessionTypes'
    BY DEF IInv, TypeOK, SessionTypes, EndStep
  <2>2. ChatTypes'
    BY DEF IInv, TypeOK, SessionTypes, ChatTypes, EndStep
  <2>3. StepTypes'
    BY DEF IInv, TypeOK, ChatTypes, StepTypes, EndStep
  <2> QED
    BY <2>1, <2>2, <2>3 DEF TypeOK
<1>2. Located'
  BY DEF IInv, TypeOK, SessionTypes, ChatTypes, StepTypes, Located, ChatAt, StepAt,
         Asked, Busy, EndStep
<1>3. Released'
  BY DEF IInv, TypeOK, SessionTypes, ChatTypes, Released, Executing, Located, ChatAt,
         Asked, EndStep
<1>4. ToolData' = ToolData
  BY DEF ToolData, FirstOf, EndStep
<1>5. Settled'
  BY <1>4
     DEF IInv, TypeOK, ChatTypes, StepTypes, Settled, ChatOwn, StepOwn, Own, Busy, EndStep
<1> QED
  BY <1>1, <1>2, <1>3, <1>5 DEF IInv

\* The active dataset changes outside the session.
LEMMA SetActiveKeeps == ASSUME IInv, NEW d \in Datasets, SetActive(d) PROVE IInv'
<1> USE DEF session, stash, asked, steps
<1>0. turns' \in 0..MaxTurns
  BY BoundsAssumption DEF BoundsAssumption, IInv, TypeOK, SessionTypes, SetActive
<1>1. TypeOK'
  <2>1. SessionTypes'
    BY <1>0 DEF IInv, TypeOK, SessionTypes, SetActive
  <2>2. ChatTypes'
    BY <1>0 DEF IInv, TypeOK, SessionTypes, ChatTypes, SetActive
  <2>3. StepTypes'
    BY <1>0 DEF IInv, TypeOK, ChatTypes, StepTypes, SetActive
  <2> QED
    BY <2>1, <2>2, <2>3 DEF TypeOK
<1>2. Located'
  BY DEF IInv, TypeOK, SessionTypes, ChatTypes, StepTypes, Located, ChatAt, StepAt,
         Asked, Busy, SetActive
<1>3. Released'
  BY DEF IInv, TypeOK, SessionTypes, ChatTypes, Released, Executing, Located, ChatAt,
         Asked, SetActive
<1>5. Settled'
  BY <1>0
     DEF IInv, TypeOK, SessionTypes, Settled, ChatOwn, StepOwn, Own, ToolData, FirstOf,
         SetActive
<1> QED
  BY <1>1, <1>2, <1>3, <1>5 DEF IInv

\* Every step keeps the invariant.
LEMMA NextKeeps == ASSUME IInv, [Next]_vars PROVE IInv'
<1>1. CASE UNCHANGED vars
  BY <1>1
     DEF IInv, TypeOK, SessionTypes, ChatTypes, StepTypes, Located, ChatAt, StepAt,
         Asked, Busy,
     Released, Executing, Settled, ChatOwn, StepOwn, Own, ToolData, FirstOf, vars,
     session, stash, asked, steps
<1>2. ASSUME NEW c \in Chats, NEW i \in Steps,
             \/ \E k \in Tools[c] : CallTool(c, i, k)
             \/ EnsureTable(c, i) \/ Work(c, i) \/ FailTool(c, i) \/ Move(c, i)
             \/ \E d \in Datasets : UseTable(c, i, d)
             \/ EndStep(c, i)
      PROVE IInv'
  BY <1>2, CallToolKeeps, EnsureKeeps, WorkMovesKeeps, WorkLandsKeeps, FailToolKeeps,
     MoveKeeps, UseTableKeeps, EndStepKeeps
<1>3. ASSUME NEW c \in Chats, ChatNext(c) PROVE IInv'
  <2>1. CASE FailLookup(c)
    BY <2>1, LeaveKeeps DEF FailLookup
  <2>2. CASE StepNext(c)
    BY <2>2, <1>2 DEF StepNext
  <2> QED
    BY <1>3, <2>1, <2>2, EnterKeeps, LookKeeps, FoundKeeps, DescribeBaseKeeps,
       DescribeStepKeeps,
       RefuseKeeps, PlanNothingKeeps, PlanKeeps, RefreshKeeps, FinishKeeps DEF ChatNext
<1>4. ASSUME NEW c \in Chats, Cancel(c) PROVE IInv'
  BY <1>4, LeaveKeeps DEF Cancel
<1> QED
  BY <1>1, <1>3, <1>4, StartKeeps, SetActiveKeeps DEF Next

\* It holds of a fresh session.
LEMMA InitInv == Init => IInv
<1> SUFFICES ASSUME Init PROVE IInv
  OBVIOUS
<1>1. SessionTypes
  <2>1. 0 \in 0..MaxTurns /\ 0 \in 0..MaxFaults
    BY BoundsAssumption DEF BoundsAssumption
  <2>2. cols \in [Datasets -> SUBSET Calls] /\ active \in Datasets
    BY NoDataAssumption DEF NoDataAssumption, Init
  <2> QED
    BY <2>1, <2>2 DEF Init, SessionTypes
<1>3. ChatTypes
  BY NoPlanType, NoContextType DEF Init, ChatTypes, NoAnswer
<1>4. StepTypes
  <2>1. made \in [Chats -> [Steps -> 0..MaxCalls]]
    BY BoundsAssumption DEF BoundsAssumption, Init
  <2>2. context \in [Chats -> [Steps -> Contexts]]
    BY NoContextType DEF Init
  <2>3. /\ step \in [Chats -> [Steps -> {"waiting", "thinking", "ensuring", "working",
                                        "moving", "ended"}]]
        /\ kind \in [Chats -> [Steps -> ToolKinds \cup {NoTool}]]
        /\ target \in [Chats -> [Steps -> Datasets \cup {NoData}]]
    BY DEF Init
  <2> QED
    BY <2>1, <2>2, <2>3 DEF StepTypes
<1>2. Located /\ Released /\ Settled
  BY DEF Init, Located, ChatAt, StepAt, Asked, Busy, Released, Settled, ChatOwn, StepOwn
<1> QED
  BY <1>1, <1>2, <1>3, <1>4 DEF IInv, TypeOK

-----------------------------------------------------------------------------
(* The results. *)

\* The invariant the results rest on, for every number of chats and datasets.
THEOREM ChatInvariant == Spec => []IInv
  BY InitInv, NextKeeps, PTL DEF Spec

\* Every variable keeps its type.
THEOREM ChatTypesHold == Spec => []TypeOK
<1>1. IInv => TypeOK
  BY DEF IInv
<1> QED
  BY <1>1, ChatInvariant, PTL

\* A session no chat executes a plan on is not pinned, however chats overlapped,
\* failed or were cancelled.
THEOREM ReleasedSafety == Spec => []Released
<1>1. IInv => Released
  BY DEF IInv
<1> QED
  BY <1>1, ChatInvariant, PTL

\* Unless use_table or, for the MemFrame's own session, aset_active retargets it, every
\* tool runs on the dataset its step was told about.
THEOREM OneDatasetSafety == Spec => []OnOneDataset
<1>1. IInv => OnOneDataset
  <2> SUFFICES ASSUME IInv, ~strayed, NEW c \in Chats, NEW i \in Steps,
                      step[c][i] \in {"working", "moving"}
               PROVE context[c][i].table[1] = target[c][i]
    BY DEF OnOneDataset
  <2>1. Own(context[c][i].table) /\ target[c][i] = ToolData
    BY DEF IInv, Settled, StepOwn, Busy
  <2> QED
    BY <2>1 DEF Own, Upload, Cache
<1> QED
  BY <1>1, ChatInvariant, PTL
=============================================================================

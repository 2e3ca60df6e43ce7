---------------------------------- MODULE Chat ----------------------------------
(***************************************************************************)
(* One chat session (memframe_ai/sessions.py) and the chats that run on it *)
(* (agents/analytics.py).  A session is shared: its default name is made   *)
(* of the MemFrame and the dataset (entrypoints.py:9-11), nothing takes    *)
(* its lock, so two chats of one dataset may overlap.  A chat resolves the *)
(* active table, describes it, asks a guardrail and a planner, runs the    *)
(* independent steps of the plan together and the dependent ones one after *)
(* the other, and packages what the session has recorded.                  *)
(*                                                                         *)
(* The models are external: the plan, the tools a step calls and where it  *)
(* stops are theirs to choose.  One tool of a step runs at a time.  The    *)
(* answer's wording, the rendering of frames and the cached contexts       *)
(* (every caller forces a refresh) are left out.                           *)
(***************************************************************************)
EXTENDS Integers, Sequences, FiniteSets

CONSTANTS Chats,      \* the calls of achat made on this session
          Datasets,   \* data_ids registered with the MemFrame
          FirstActive, \* the active one when the session is created
          NoData,     \* a data_id that is None
          NoTable,    \* a session without an active table
          Plans,      \* linked lists a chat may get: for each step, whether it
                      \* depends on a prior one
          Tools,      \* kinds of tools the specialists of a chat may call
          MaxSteps,   \* steps in the longest of them
          MaxCalls,   \* tools one step may call (_SPECIALIST_MAX_REQUESTS)
          MaxTurns,   \* times the active dataset is changed
          MaxFaults   \* failing lookups and tools, and cancelled chats

NoTool == "none"
ToolKinds == {"read", "add", "derive", "plot", "use"}

ASSUME NoDataAssumption == NoData \notin Datasets /\ FirstActive \in Datasets
ASSUME NoTableAssumption == NoTable \notin Datasets \X {"upload", "cache"}
\* The first step of a list never depends (_to_linkedlist).
ASSUME PlansAssumption ==
  \A c \in Chats : \A p \in Plans[c] :
    p \in Seq(BOOLEAN) /\ Len(p) \in 1..MaxSteps /\ ~p[1]
ASSUME ToolsAssumption == \A c \in Chats : Tools[c] \subseteq ToolKinds
ASSUME BoundsAssumption == MaxSteps \in Nat /\ MaxCalls \in Nat /\ MaxTurns \in Nat
                            /\ MaxFaults \in Nat

VARIABLES
  table, data, pinned,        \* session._table, .data_id, ._pinned
  records, frames, plots,     \* session._subquery_results, ._results, .plots
  ops,                        \* ops._data_id, fixed when the context is created
  active,                     \* memframe._active_id
  cols,                       \* columns the tools have put into each dataset's table
  pc, looking, named,         \* a chat: where it is, the id it looks up, the table it describes
  plan, base, step, context,  \*   its plan, first description, steps and what they are given
  kind, made, target,         \*   a step: its call, how many it made, the dataset the call runs on
  answer,                     \*   what achat returned
  done, overlapped, strayed,  \* history: calls answered, chats that met another, retargeted
  turns, faults               \* changes of the active dataset and faults so far

session == <<table, data, pinned>>
stash == <<records, frames, plots>>
asked == <<plan, base>>
steps == <<step, kind, made, target>>
vars == <<session, stash, ops, active, cols, pc, looking, named, asked, steps,
          context, answer, done, overlapped, strayed, turns, faults>>

Tables == Datasets \X {"upload", "cache"}
Upload(d) == <<d, "upload">>
Cache(d) == <<d, "cache">>
Steps == 1..MaxSteps
Calls == Chats \X Steps \X (1..MaxCalls)

NoContext == [table |-> NoTable, cols |-> {}]
NoAnswer == [kind |-> "none", records |-> {}, frames |-> {}, plots |-> {}]

\* `self.data_id or self.ops._data_id or self.memframe._active_id`
FirstOf(a, b) == IF a # NoData THEN a ELSE b
\* Mutant of Resolved: without the MemFrame's active dataset.
ResolvedHere == FirstOf(data, ops)
Resolved == FirstOf(data, FirstOf(ops, active))
\* Mutant of ToolData: the context is not bound to its dataset.
ToolDataActive == active
\* The wrappers the tools call are bound to session.ops, not to session.data_id.
ToolData == FirstOf(ops, active)

Open(c) == pc[c] \notin {"idle", "closed"}
Executing(c) == plan[c] # <<>>
ThisCall(c, i) == <<c, i, made[c][i]>>
OfChat(c, calls) == {x \in calls : x[1] = c}

Contexts == [table : Tables \cup {NoTable}, cols : SUBSET Calls]
AllPlans == (UNION {Plans[c] : c \in Chats}) \cup {<<>>}

SessionTypes ==
  /\ table \in Tables \cup {NoTable}
  /\ data \in Datasets \cup {NoData} /\ pinned \in BOOLEAN
  /\ records \subseteq Calls /\ frames \subseteq Calls /\ plots \subseteq Calls
  /\ ops \in Datasets \cup {NoData} /\ active \in Datasets
  /\ cols \in [Datasets -> SUBSET Calls]
  /\ done \subseteq Calls /\ overlapped \subseteq Chats /\ strayed \in BOOLEAN
  /\ turns \in 0..MaxTurns /\ faults \in 0..MaxFaults

ChatTypes ==
  /\ pc \in [Chats -> {"idle", "entering", "looking", "describing", "asking",
                       "running", "closed"}]
  /\ looking \in [Chats -> Datasets \cup {NoData}]
  /\ named \in [Chats -> Tables \cup {NoTable}]
  /\ plan \in [Chats -> AllPlans]
  /\ base \in [Chats -> Contexts]
  /\ answer \in [Chats -> [kind : {"none", "refusal", "answer"}, records : SUBSET Calls,
                           frames : SUBSET Calls, plots : SUBSET Calls]]

StepTypes ==
  /\ step \in [Chats -> [Steps -> {"waiting", "thinking", "ensuring", "working",
                                   "moving", "ended"}]]
  /\ context \in [Chats -> [Steps -> Contexts]]
  /\ kind \in [Chats -> [Steps -> ToolKinds \cup {NoTool}]]
  /\ made \in [Chats -> [Steps -> 0..MaxCalls]]
  /\ target \in [Chats -> [Steps -> Datasets \cup {NoData}]]

TypeOK == SessionTypes /\ ChatTypes /\ StepTypes

\* A fresh session of a context (ops # NoData) or of the MemFrame itself.
Init ==
  /\ table = NoTable /\ data = NoData /\ pinned = FALSE
  /\ records = {} /\ frames = {} /\ plots = {}
  /\ ops \in Datasets \cup {NoData} /\ active = FirstActive
  /\ cols = [d \in Datasets |-> {}]
  /\ pc = [c \in Chats |-> "idle"]
  /\ looking = [c \in Chats |-> NoData]
  /\ named = [c \in Chats |-> NoTable]
  /\ plan = [c \in Chats |-> <<>>]
  /\ base = [c \in Chats |-> NoContext]
  /\ step = [c \in Chats |-> [i \in Steps |-> "ended"]]
  /\ context = [c \in Chats |-> [i \in Steps |-> NoContext]]
  /\ kind = [c \in Chats |-> [i \in Steps |-> NoTool]]
  /\ made = [c \in Chats |-> [i \in Steps |-> 0]]
  /\ target = [c \in Chats |-> [i \in Steps |-> NoData]]
  /\ answer = [c \in Chats |-> NoAnswer]
  /\ done = {} /\ overlapped = {} /\ strayed = FALSE
  /\ turns = 0 /\ faults = 0

-----------------------------------------------------------------------------
(* The chat: achat, with the parts of Session it awaits. *)

\* achat is called; other chats of the session may be under way.
Start(c) ==
  /\ pc[c] = "idle"
  /\ pc' = [pc EXCEPT ![c] = "entering"]
  /\ LET met == {e \in Chats : Open(e)}
     IN overlapped' = overlapped \cup (IF met = {} THEN {} ELSE met \cup {c})
  /\ UNCHANGED <<session, stash, ops, active, cols, looking, named, asked, steps,
                 context, answer, done, strayed, turns, faults>>

\* Mutant of EnterWith: reset_results is forgotten.
EnterKeeping(c, t) ==
  /\ pc' = [pc EXCEPT ![c] = "describing"]
  /\ named' = [named EXCEPT ![c] = t]
  /\ records' = {} /\ UNCHANGED frames

\* ensure and reset_*, without an await between them, and domain_context
\* up to its first one: the table it will describe is read here.
EnterWith(c, t) ==
  /\ pc' = [pc EXCEPT ![c] = "describing"]
  /\ named' = [named EXCEPT ![c] = t]
  /\ records' = {} /\ frames' = {}

Enter(c) ==
  /\ pc[c] = "entering" /\ table # NoTable
  /\ EnterWith(c, table)
  /\ UNCHANGED <<session, plots, ops, active, cols, looking, asked, steps, context,
                 answer, done, overlapped, strayed, turns, faults>>

\* _resolve_active picks the id before it awaits the registry ...
Look(c) ==
  /\ pc[c] = "entering" /\ table = NoTable
  /\ pc' = [pc EXCEPT ![c] = "looking"]
  /\ looking' = [looking EXCEPT ![c] = Resolved]
  /\ UNCHANGED <<session, stash, ops, active, cols, named, asked, steps, context,
                 answer, done, overlapped, strayed, turns, faults>>

\* ... and ensure stores the table of that id afterwards.
Found(c) ==
  /\ pc[c] = "looking"
  /\ table' = Upload(looking[c])
  /\ looking' = [looking EXCEPT ![c] = NoData]
  /\ IF plan[c] = <<>>
     THEN EnterWith(c, table')
     ELSE /\ pc' = [pc EXCEPT ![c] = "describing"]
          /\ named' = [named EXCEPT ![c] = table']
          /\ UNCHANGED <<records, frames>>
  /\ UNCHANGED <<data, pinned, plots, ops, active, cols, asked, steps, context,
                 answer, done, overlapped, strayed, turns, faults>>

Independent(p) == {i \in 1..Len(p) : ~p[i]}
NextDependent(c) == CHOOSE i \in Steps :
  /\ step[c][i] = "waiting"
  /\ \A j \in Steps : step[c][j] = "waiting" => i <= j

\* Mutant of Description: the description of the chat is reused for its dependent steps.
DescriptionReused(c) ==
  IF Executing(c) THEN base[c]
  ELSE [table |-> named[c], cols |-> cols[named[c][1]]]

\* domain_context(force_refresh = True): for the chat, or for its next dependent step.
\* The columns of a cache table are not followed.
Description(c) ==
  [table |-> named[c],
   cols |-> IF named[c] = Upload(named[c][1]) THEN cols[named[c][1]] ELSE {}]

DescribeBase(c) ==
  /\ pc[c] = "describing" /\ plan[c] = <<>>
  /\ base' = [base EXCEPT ![c] = Description(c)]
  /\ pc' = [pc EXCEPT ![c] = "asking"]
  /\ UNCHANGED <<session, stash, ops, active, cols, looking, named, plan, steps,
                 context, answer, done, overlapped, strayed, turns, faults>>

DescribeStep(c) ==
  /\ pc[c] = "describing" /\ plan[c] # <<>>
  /\ LET i == NextDependent(c)
     IN /\ context' = [context EXCEPT ![c][i] = Description(c)]
        /\ step' = [step EXCEPT ![c][i] = "thinking"]
  /\ pc' = [pc EXCEPT ![c] = "running"]
  /\ UNCHANGED <<session, stash, ops, active, cols, looking, named, asked, kind, made,
                 target, answer, done, overlapped, strayed, turns, faults>>

\* achat returns or raises: its locals, and the runs of its steps, are gone.
Close(c) ==
  /\ pc' = [pc EXCEPT ![c] = "closed"]
  /\ looking' = [looking EXCEPT ![c] = NoData]
  /\ named' = [named EXCEPT ![c] = NoTable]
  /\ plan' = [plan EXCEPT ![c] = <<>>]
  /\ base' = [base EXCEPT ![c] = NoContext]
  /\ step' = [step EXCEPT ![c] = [i \in Steps |-> "ended"]]
  /\ context' = [context EXCEPT ![c] = [i \in Steps |-> NoContext]]
  /\ kind' = [kind EXCEPT ![c] = [i \in Steps |-> NoTool]]
  /\ made' = [made EXCEPT ![c] = [i \in Steps |-> 0]]
  /\ target' = [target EXCEPT ![c] = [i \in Steps |-> NoData]]
  /\ UNCHANGED <<table, data, stash, ops, active, cols, done, overlapped, strayed, turns>>

\* The guardrail blocks the request: a refusal, and no plan.
Refuse(c) ==
  /\ pc[c] = "asking"
  /\ answer' = [answer EXCEPT ![c] = [NoAnswer EXCEPT !.kind = "refusal"]]
  /\ Close(c) /\ UNCHANGED <<pinned, faults>>

\* _package reads what the session, not the chat, has collected.
Package(c) == answer' = [answer EXCEPT ![c] =
  [kind |-> "answer", records |-> records, frames |-> frames, plots |-> plots]]

\* The planner fails or plans nothing: the answer is packaged at once.
PlanNothing(c) ==
  /\ pc[c] = "asking"
  /\ Package(c) /\ Close(c) /\ UNCHANGED <<pinned, faults>>

\* pin_table, then gather starts the independent steps on the first description.
Plan(c) ==
  /\ pc[c] = "asking"
  /\ pc' = [pc EXCEPT ![c] = "running"]
  /\ pinned' = TRUE
  /\ \E p \in Plans[c] :
       /\ plan' = [plan EXCEPT ![c] = p]
       /\ step' = [step EXCEPT ![c] = [i \in Steps |->
            IF i > Len(p) THEN "ended" ELSE IF p[i] THEN "waiting" ELSE "thinking"]]
       /\ context' = [context EXCEPT ![c] = [i \in Steps |->
            IF i \in Independent(p) THEN base[c] ELSE NoContext]]
  /\ UNCHANGED <<table, data, stash, ops, active, cols, looking, named, base, kind,
                 made, target, answer, done, overlapped, strayed, turns, faults>>

\* Mutant of Rested: gather is given the dependent steps as well.
RestedAll(c) == \A i \in Steps : step[c][i] = "ended"

\* gather, or the last dependent step, has returned.
Rested(c) == \A i \in Steps : step[c][i] \in {"waiting", "ended"}
Waiting(c) == \E i \in Steps : step[c][i] = "waiting"

\* The next dependent step asks for a fresh description of the active table.
Refresh(c) ==
  /\ pc[c] = "running" /\ Rested(c) /\ Waiting(c)
  /\ IF table # NoTable
     THEN /\ pc' = [pc EXCEPT ![c] = "describing"]
          /\ named' = [named EXCEPT ![c] = table]
          /\ UNCHANGED looking
     ELSE /\ pc' = [pc EXCEPT ![c] = "looking"]
          /\ looking' = [looking EXCEPT ![c] = Resolved]
          /\ UNCHANGED named
  /\ UNCHANGED <<session, stash, ops, active, cols, asked, steps, context, answer,
                 done, overlapped, strayed, turns, faults>>

\* unpin_table and _package, no await between them.
Finish(c) ==
  /\ pc[c] = "running" /\ Rested(c) /\ ~Waiting(c)
  /\ pinned' = FALSE
  /\ Package(c) /\ Close(c) /\ UNCHANGED faults

Fault == faults < MaxFaults /\ faults' = faults + 1

\* Mutant of Leave: unpin_table outside `finally`.
LeavePinned(c) ==
  /\ Fault
  /\ Close(c) /\ UNCHANGED <<pinned, answer>>

\* achat raises; `finally` unpins if a plan was being executed.
Leave(c) ==
  /\ Fault
  /\ pinned' = IF Executing(c) THEN FALSE ELSE pinned
  /\ Close(c) /\ UNCHANGED answer

\* The registry or the described table cannot be read: the error reaches the caller.
FailLookup(c) == pc[c] \in {"looking", "describing"} /\ Leave(c)

\* The task of the chat is cancelled; gather cancels the steps with it.
Cancel(c) == Open(c) /\ Leave(c)

-----------------------------------------------------------------------------
(* A step: the specialist's run, with the tools it calls. *)

Recorded(c, i) ==
  /\ records' = records \cup {ThisCall(c, i)}
  /\ done' = done \cup {ThisCall(c, i)}
  /\ step' = [step EXCEPT ![c][i] = "thinking"]
  /\ kind' = [kind EXCEPT ![c][i] = NoTool]
  /\ target' = [target EXCEPT ![c][i] = NoData]

\* The model calls a tool: the wrappers it reaches take their dataset from ops.
CallTool(c, i, k) ==
  /\ step[c][i] = "thinking" /\ made[c][i] < MaxCalls
  /\ IF k = "use" THEN turns < MaxTurns /\ turns' = turns + 1 ELSE UNCHANGED turns
  /\ made' = [made EXCEPT ![c][i] = @ + 1]
  /\ kind' = [kind EXCEPT ![c][i] = k]
  /\ IF k = "plot" /\ table = NoTable
     THEN /\ step' = [step EXCEPT ![c][i] = "ensuring"]
          /\ target' = [target EXCEPT ![c][i] = Resolved]
     ELSE /\ step' = [step EXCEPT ![c][i] = "working"]
          /\ target' = [target EXCEPT ![c][i] = ToolData]
  /\ UNCHANGED <<session, stash, ops, active, cols, pc, looking, named, asked, context,
                 answer, done, overlapped, strayed, faults>>

\* plot and active_table await ensure first: its lookup ends.
EnsureTable(c, i) ==
  /\ step[c][i] = "ensuring"
  /\ table' = Upload(target[c][i])
  /\ step' = [step EXCEPT ![c][i] = "working"]
  /\ target' = [target EXCEPT ![c][i] = ToolData]
  /\ UNCHANGED <<data, pinned, stash, ops, active, cols, pc, looking, named, asked, kind,
                 made, context, answer, done, overlapped, strayed, turns, faults>>

\* The tool fails: the failure is recorded and the error goes to the model.
FailTool(c, i) ==
  /\ step[c][i] \in {"ensuring", "working"} /\ Fault
  /\ Recorded(c, i)
  /\ UNCHANGED <<session, frames, plots, ops, active, cols, pc, looking, named, asked,
                 made, context, answer, overlapped, strayed, turns>>

\* Mutant of Advances: advance_table ignores the pin.
AdvancesAnyway(c, i) == kind[c][i] = "derive"

\* advance_table returns at once when the session is pinned.
Advances(c, i) == kind[c][i] = "derive" /\ ~pinned

\* The operation has put its column into the source, or its table into the cache, and
\* normalize keeps the frame and offers the new table to advance_table.  The call is
\* recorded, unless advance_table has to await table_exists first.
Work(c, i) ==
  /\ step[c][i] = "working" /\ kind[c][i] # "use"
  /\ cols' = IF kind[c][i] = "add"
             THEN [cols EXCEPT ![target[c][i]] = @ \cup {ThisCall(c, i)}]
             ELSE cols
  /\ frames' = IF kind[c][i] \in {"read", "derive"} THEN frames \cup {ThisCall(c, i)} ELSE frames
  /\ plots' = IF kind[c][i] = "plot" THEN plots \cup {ThisCall(c, i)} ELSE plots
  /\ IF Advances(c, i)
     THEN step' = [step EXCEPT ![c][i] = "moving"] /\ UNCHANGED <<records, done, kind, target>>
     ELSE Recorded(c, i)
  /\ UNCHANGED <<session, ops, active, pc, looking, named, asked, made, context, answer,
                 overlapped, strayed, turns, faults>>

\* table_exists has answered: the table is moved, without a second look at the pin.
Move(c, i) ==
  /\ step[c][i] = "moving"
  /\ table' = Cache(target[c][i])
  /\ Recorded(c, i)
  /\ UNCHANGED <<data, pinned, frames, plots, ops, active, cols, pc, looking, named, asked,
                 made, context, answer, overlapped, strayed, turns, faults>>

\* use_table and the upload tools: when aset_active has returned, data_id is set and
\* the table forgotten (invalidate), pinned or not.
UseTable(c, i, d) ==
  /\ step[c][i] = "working" /\ kind[c][i] = "use"
  /\ active' = d /\ data' = d /\ table' = NoTable
  /\ Recorded(c, i)
  /\ strayed' = TRUE
  /\ UNCHANGED <<pinned, frames, plots, ops, cols, pc, looking, named, asked, made, context,
                 answer, overlapped, turns, faults>>

\* The specialist answers, runs out of requests or fails (swallowed), or there is
\* none of that name.
EndStep(c, i) ==
  /\ step[c][i] = "thinking"
  /\ step' = [step EXCEPT ![c][i] = "ended"]
  /\ UNCHANGED <<session, stash, ops, active, cols, pc, looking, named, asked, kind, made,
                 target, context, answer, done, overlapped, strayed, turns, faults>>

\* The user's own code calls aset_active between two steps.
SetActive(d) ==
  /\ turns < MaxTurns /\ turns' = turns + 1
  /\ d # active
  /\ active' = d
  /\ strayed' = (strayed \/ ops = NoData)
  /\ UNCHANGED <<session, stash, ops, cols, pc, looking, named, asked, steps, context,
                 answer, done, overlapped, faults>>

-----------------------------------------------------------------------------
(* What the module is for. *)

\* "the session reference never drifts, so every specialist sees the same schema"
\* (sessions.py:152-158): while it runs alone and no use_table is answered, every
\* step of a chat is given the table the chat began with, whatever the tools before
\* it and beside it have put into the cache.
SameTable == \A c \in Chats \ overlapped, i \in Steps :
  ~strayed /\ context[c][i] # NoContext => context[c][i].table = base[c].table

\* Step i of the chat waits for a prior one, and has been told about a table.
Informed(c, i) == i \in 1..Len(plan[c]) /\ plan[c][i] /\ context[c][i] # NoContext

\* It was told of every column the steps before it have added.
KnowsEarlier(c, i) == \A x \in OfChat(c, UNION {cols[d] : d \in Datasets}) :
  x[2] < i => x \in context[c][i].cols

\* A dependent step that is told about the table of its dataset sees the columns of
\* every step before it in the plan (analytics.py:265-273), also when chats overlap:
\* they have ended and its description is fresh.  What ran on another dataset, after
\* use_table or aset_active, is not asked for.
SeesEarlier == \A c \in Chats, i \in Steps :
  ~strayed /\ Informed(c, i) /\ context[c][i].table[2] = "upload" => KnowsEarlier(c, i)

\* A tool runs on the dataset its step was told about (context.py:51-53): the context
\* keeps its dataset when other code calls aset_active, also when chats overlap.
OnOneDataset == \A c \in Chats, i \in Steps :
  ~strayed /\ step[c][i] \in {"working", "moving"} =>
    context[c][i].table[1] = target[c][i]

\* A chat that met no other answers with all of its own calls and frames and with
\* nothing an earlier chat has left, and shows every plot it has made (analytics.py:
\* 196-197, 333-373).
OwnAnswer == \A c \in Chats \ overlapped :
  answer[c].kind = "answer" =>
    /\ answer[c].records = OfChat(c, done)
    /\ answer[c].frames \subseteq answer[c].records
    /\ OfChat(c, plots) \subseteq answer[c].plots

\* The pin never outlives the chats that execute a plan, however they end, also when
\* they overlap: a session left pinned would ignore every later table (analytics.py:
\* 237-242).
Released == pinned => \E c \in Chats : Executing(c)

\* Every chat ends, whatever its plan, its tools and the chats beside it do.
ChatsEnd == \A c \in Chats : pc[c] = "entering" ~> pc[c] = "closed"

-----------------------------------------------------------------------------
StepNext(c) == \E i \in Steps :
  \/ \E k \in Tools[c] : CallTool(c, i, k)
  \/ EnsureTable(c, i) \/ Work(c, i) \/ FailTool(c, i) \/ Move(c, i)
  \/ \E d \in Datasets : UseTable(c, i, d)
  \/ EndStep(c, i)

ChatNext(c) ==
  \/ Enter(c) \/ Look(c) \/ Found(c) \/ DescribeBase(c) \/ DescribeStep(c)
  \/ Refuse(c) \/ PlanNothing(c) \/ Plan(c) \/ Refresh(c) \/ Finish(c)
  \/ FailLookup(c) \/ StepNext(c)

Next ==
  \/ \E c \in Chats : Start(c) \/ ChatNext(c) \/ Cancel(c)
  \/ \E d \in Datasets : SetActive(d)

Spec == Init /\ [][Next]_vars

\* The event loop runs every task that can run; the models, the tools and the
\* database answer or fail.
FairSpec == Spec /\ \A c \in Chats : WF_vars(ChatNext(c))
=============================================================================

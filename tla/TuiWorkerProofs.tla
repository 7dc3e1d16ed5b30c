-------------------------- MODULE TuiWorkerProofs --------------------------
(***************************************************************************)
(* Proofs about TuiWorker for rings of any size and any number of turns,   *)
(* calls, questions and jobs.                                              *)
(***************************************************************************)
EXTENDS TuiWorker, TLAPS

-----------------------------------------------------------------------------
(* The inductive invariant                                                 *)

Committing == upc \in {"commit", "commitAlways"}

\* A queued question is the one the worker waits on, and it is queued once.
QueueSound ==
  /\ \A i \in 1 .. Len(evs) :
       /\ evs[i].kind \in RoundTrips <=> evs[i].p # 0
       /\ evs[i].p # 0 => Waiting /\ evs[i].p = cur /\ modal.p # cur
  /\ \A i, j \in 1 .. Len(evs) : evs[i].p # 0 /\ evs[j].p # 0 => i = j

\* So is the question in an open dialog, until it is answered.
ModalSound ==
  /\ modal.kind \in RoundTrips <=> modal.p # 0
  /\ modal.p # 0 /\ ~Committing => Waiting /\ modal.p = cur
  /\ modal.p # 0 /\ Committing => modal.p <= cur /\ ~(Waiting /\ modal.p = cur)

\* What the worker waits on is alive; what was answered is counted once.
PromptsSound ==
  /\ Asking => cur \in Prompts /\ prompts[cur].life = "live"
  /\ \A p \in Prompts : prompts[p].answers = 0 <=> prompts[p].answer = "none"
  /\ \A p \in Prompts : p > cur => prompts[p].answers = 0

\* While the worker is at a tool call, the response has one left; the UI thread
\* pushes a job that there is.
Underway ==
  /\ wpc \in {"approving", "denied", "execute", "executing", "asking", "toolEnd"} => calls > 0
  /\ upc = "submit" => job \in JobKinds

IInv == TypeOK /\ Underway /\ QueueSound /\ ModalSound /\ PromptsSound /\ QuestionHasOnePlace

-----------------------------------------------------------------------------
(* Types                                                                   *)

Kinds == {"chunk", "start", "end", "note", "fork", "history", "done", "error"}

\* What a push leaves behind.
LEMMA PushType ==
  ASSUME TypeOK, NEW k \in Kinds \cup RoundTrips, NEW p \in 0 .. MaxPrompts, Push(k, p)
  PROVE  /\ evs' \in Seq(Event) /\ Len(evs') <= EvCap /\ unwritten' \in BOOLEAN
         /\ wake' = wake /\ jobs' = jobs /\ jobWake' = jobWake
  <1>1. [kind |-> k, p |-> p] \in Event
    BY DEF Event, Kinds
  <1>2. evs \in Seq(Event) /\ Len(evs) < EvCap /\ Len(evs) <= EvCap
    BY DEF TypeOK, Push
  <1>3. EvCap \in Nat
    BY RingsHoldSomething
  <1> QED
    BY <1>1, <1>2, <1>3 DEF Push

LEMMA InitType == Init => TypeOK
  <1> SUFFICES ASSUME Init PROVE TypeOK
    OBVIOUS
  <1>1. 0 \in 0 .. MaxPrompts /\ 0 \in 0 .. MaxTurns /\ 0 \in 0 .. MaxCalls /\ 0 \in 0 .. MaxSubmits
    BY RingsHoldSomething
  <1>2. evs \in Seq(Event) /\ Len(evs) <= EvCap /\ jobs \in Seq(JobKinds \cup {"quit"}) /\ Len(jobs) <= JobCap
    BY RingsHoldSomething DEF Init
  <1>3. agent \in [state : {"live", "freed", "null"}, hooks : BOOLEAN, cancel : BOOLEAN] /\ chat \in Chat
    BY DEF Init, Chat
  <1>4. prompts \in [Prompts -> Prompt]
    BY DEF Init, Prompt
  <1>5. modal \in [kind : {"none", "other"} \cup RoundTrips, p : 0 .. MaxPrompts]
    BY <1>1 DEF Init, NoModal
  <1> QED
    BY <1>1, <1>2, <1>3, <1>4, <1>5 DEF Init, TypeOK, WorkerAt, UiAt

\* The steps of the worker keep the types of what they leave alone.
LEMMA QuietType ==
  ASSUME TypeOK,
         evs' \in Seq(Event), Len(evs') <= EvCap, wake' \in BOOLEAN,
         UNCHANGED <<jobs, jobWake>>, UNCHANGED <<ui, always, chat, fault>>,
         unwritten' \in BOOLEAN, wpc' \in WorkerAt,
         turns' \in 0 .. MaxTurns, calls' \in 0 .. MaxCalls, reply' \in BOOLEAN, busy' \in BOOLEAN,
         agent' \in [state : {"live", "freed", "null"}, hooks : BOOLEAN, cancel : BOOLEAN],
         prompts' \in [Prompts -> Prompt], cur' \in 0 .. MaxPrompts
  PROVE  TypeOK'
  BY DEF TypeOK, ui

\* A question is pushed.
LEMMA PromptType ==
  ASSUME TypeOK, Underway, calls > 0,
         NEW k \in RoundTrips, NEW pc \in {"approving", "asking"}, PushPrompt(k, pc)
  PROVE  TypeOK' /\ Underway'
  <1>1. cur + 1 \in Prompts /\ cur + 1 \in 0 .. MaxPrompts
    BY RingsHoldSomething DEF PushPrompt, TypeOK, Prompts
  <1>2. /\ evs' \in Seq(Event) /\ Len(evs') <= EvCap /\ unwritten' \in BOOLEAN
        /\ wake' = wake /\ jobs' = jobs /\ jobWake' = jobWake
    BY <1>1, PushType DEF PushPrompt
  <1>3. prompts' \in [Prompts -> Prompt]
    BY <1>1 DEF PushPrompt, TypeOK, Prompt
  <1>4. /\ cur' \in 0 .. MaxPrompts /\ wpc' \in WorkerAt
        /\ UNCHANGED <<turns, calls, reply, busy, agent>> /\ UNCHANGED <<ui, always, chat, fault>>
    BY <1>1 DEF PushPrompt, Goto, WorkerAt, run, NotUi
  <1>5. TypeOK'
    BY <1>2, <1>3, <1>4, QuietType DEF TypeOK
  <1> QED
    BY <1>4, <1>5 DEF Underway, ui

\* The worker's steps keep the types, and the count of the tool calls.
LEMMA WorkerType ==
  ASSUME TypeOK, Underway, Worker
  PROVE  TypeOK' /\ Underway'
  <1> USE RingsHoldSomething DEF Underway, ui, At, Goto, NotUi
  <1>1. CASE WriteWake
    BY <1>1, QuietType DEF WriteWake, TypeOK, run
  <1>2. CASE TakeJob
    BY <1>2 DEF TakeJob, TypeOK, ui, run, JobStart, JobKinds, WorkerAt
  <1>3. CASE Stop
    BY <1>3, QuietType DEF Stop, TypeOK, Silent, ring, run, WorkerAt
  <1>4. CASE CallModel
    BY <1>4, QuietType DEF CallModel, TypeOK, Silent, ring, run, WorkerAt
  <1>5. CASE Response
    <2>1. UNCHANGED <<evs, wake, jobs, jobWake, unwritten, turns, busy, cur, agent, prompts>>
      BY <1>5 DEF Response, Silent, ring, run
    <2>2. /\ wpc' \in {"ended", "titling", "tool"}
          /\ calls' \in 0 .. MaxCalls /\ reply' \in BOOLEAN
      BY <1>5 DEF Response, TypeOK, run
    <2>3. UNCHANGED <<ui, always, chat, fault>>
      BY <1>5 DEF Response
    <2> QED
      BY <2>1, <2>2, <2>3, QuietType DEF TypeOK, WorkerAt
  <1>6. CASE CallsDone
    BY <1>6, QuietType DEF CallsDone, TypeOK, Silent, ring, run, WorkerAt
  <1>7. CASE SkipCall
    BY <1>7, QuietType DEF SkipCall, TypeOK, Silent, ring, run, WorkerAt
  <1>8. CASE NoApprovalNeeded
    BY <1>8, QuietType DEF NoApprovalNeeded, TypeOK, Silent, ring, run, WorkerAt
  <1>9. CASE Execute
    BY <1>9, QuietType DEF Execute, TypeOK, Silent, ring, run, WorkerAt
  <1>10. CASE EndRun
    <2>1. turns' \in 0 .. MaxTurns
      BY <1>10 DEF EndRun
    <2> QED
      BY <1>10, <2>1, QuietType DEF EndRun, TypeOK, Silent, ring, WorkerAt
  <1>11. CASE DestroyAgent
    BY <1>11, QuietType DEF DestroyAgent, TypeOK, Silent, ring, run, WorkerAt
  <1>12. CASE ClearAgent
    BY <1>12, QuietType DEF ClearAgent, TypeOK, Silent, ring, run, WorkerAt
  <1>13. CASE BuildAgent
    BY <1>13, QuietType DEF BuildAgent, TypeOK, Silent, ring, run, WorkerAt
  <1>14. CASE SetBusy
    BY <1>14, QuietType DEF SetBusy, TypeOK, Silent, ring, run, WorkerAt
  <1>15. CASE BeginRun
    BY <1>15, QuietType DEF BeginRun, TypeOK, Silent, ring, run, WorkerAt
  <1>16. CASE Fork
    BY <1>16, PushType, QuietType DEF Fork, TypeOK, Silent, ring, run, WorkerAt, Kinds, RoundTrips
  <1>17. CASE Chunk
    BY <1>17, PushType, QuietType DEF Chunk, TypeOK, Silent, ring, run, WorkerAt, Kinds, RoundTrips
  <1>18. CASE Title
    BY <1>18, PushType, QuietType DEF Title, TypeOK, Silent, ring, run, WorkerAt, Kinds, RoundTrips
  <1>19. CASE Denied
    BY <1>19, PushType, QuietType DEF Denied, TypeOK, Silent, ring, run, WorkerAt, Kinds, RoundTrips
  <1>20. CASE ToolStart
    BY <1>20, PushType, QuietType DEF ToolStart, TypeOK, Silent, ring, run, WorkerAt, Kinds, RoundTrips
  <1>21. CASE ToolEnd
    BY <1>21, PushType, QuietType DEF ToolEnd, TypeOK, Silent, ring, run, WorkerAt, Kinds, RoundTrips
  <1>22. CASE Flush
    BY <1>22, PushType, QuietType DEF Flush, TypeOK, Silent, ring, run, WorkerAt, Kinds, RoundTrips
  <1>23. CASE Seal
    <2>1. PICK k \in Kinds : Push(k, 0)
      BY <1>23 DEF Seal, Kinds
    <2>2. /\ evs' \in Seq(Event) /\ Len(evs') <= EvCap /\ unwritten' \in BOOLEAN
          /\ wake' = wake /\ jobs' = jobs /\ jobWake' = jobWake
      BY <2>1, PushType
    <2> QED
      BY <1>23, <2>2, QuietType DEF Seal, TypeOK, run, WorkerAt
  <1>24. CASE TellSession
    BY <1>24, PushType, QuietType DEF TellSession, TypeOK, Silent, ring, run, WorkerAt, Kinds, RoundTrips
  <1>25. CASE Shell
    BY <1>25, PushType, QuietType DEF Shell, TypeOK, Silent, ring, run, WorkerAt, Kinds, RoundTrips
  <1>26. CASE ShellEnd
    BY <1>26, PushType, QuietType DEF ShellEnd, TypeOK, Silent, ring, run, WorkerAt, Kinds, RoundTrips
  <1>27. CASE Report
    BY <1>27, PushType, QuietType DEF Report, TypeOK, Silent, ring, run, WorkerAt, Kinds, RoundTrips
  <1>28. CASE AskApproval
    BY <1>28, PromptType DEF AskApproval, TypeOK, WorkerAt, RoundTrips
  <1>29. CASE AskUser
    BY <1>29, PromptType DEF AskUser, TypeOK, WorkerAt, RoundTrips
  <1>30. CASE GetApproval
    BY <1>30, QuietType DEF GetApproval, Freed, TypeOK, Silent, ring, run, WorkerAt, Prompts, Prompt
  <1>31. CASE GetAnswer
    BY <1>31, QuietType DEF GetAnswer, Freed, TypeOK, Silent, ring, run, WorkerAt, Prompts, Prompt
  <1> QED
    BY <1>1, <1>2, <1>3, <1>4, <1>5, <1>6, <1>7, <1>8, <1>9, <1>10, <1>11, <1>12,
       <1>13, <1>14, <1>15, <1>16, <1>17, <1>18, <1>19, <1>20, <1>21, <1>22, <1>23, <1>24,
       <1>25, <1>26, <1>27, <1>28, <1>29, <1>30, <1>31 DEF Worker

\* The head of the ring is taken off.
LEMMA PopType ==
  ASSUME TypeOK, evs # <<>>, evs' = Tail(evs)
  PROVE  /\ evs' \in Seq(Event) /\ Len(evs') = Len(evs) - 1 /\ Len(evs) \in Nat \ {0}
         /\ Len(evs') <= EvCap
         /\ \A i \in 1 .. Len(evs') : evs'[i] = evs[i + 1]
         /\ Head(evs) = evs[1] /\ Head(evs) \in Event
  <1>1. evs \in Seq(Event) /\ Len(evs) <= EvCap /\ EvCap \in Nat
    BY RingsHoldSomething DEF TypeOK
  <1>2. Len(evs) \in Nat \ {0}
    BY <1>1
  <1> QED
    BY <1>1, <1>2

\* The head of the job ring is taken off.
LEMMA PopJobType ==
  ASSUME TypeOK, jobs # <<>>
  PROVE  Tail(jobs) \in Seq(JobKinds \cup {"quit"}) /\ Len(Tail(jobs)) <= JobCap
  <1>1. jobs \in Seq(JobKinds \cup {"quit"}) /\ Len(jobs) <= JobCap /\ JobCap \in Nat
    BY RingsHoldSomething DEF TypeOK
  <1> QED
    BY <1>1

\* A job is put on its ring.
LEMMA PushJobType ==
  ASSUME TypeOK, NEW j \in JobKinds \cup {"quit"}, Len(jobs) < JobCap
  PROVE  Append(jobs, j) \in Seq(JobKinds \cup {"quit"}) /\ Len(Append(jobs, j)) <= JobCap
  <1>1. jobs \in Seq(JobKinds \cup {"quit"}) /\ JobCap \in Nat
    BY RingsHoldSomething DEF TypeOK
  <1> QED
    BY <1>1

\* A question is answered.
LEMMA AnsweredType ==
  ASSUME TypeOK, NEW p \in Prompts, NEW a \in {"no", "yes"}
  PROVE  /\ Answered(p, a) \in [Prompts -> Prompt]
         /\ Answered(p, a)[p] = [life |-> prompts[p].life, answer |-> a, answers |-> prompts[p].answers + 1]
         /\ \A q \in Prompts \ {p} : Answered(p, a)[q] = prompts[q]
  <1>1. prompts \in [Prompts -> Prompt] /\ prompts[p] \in Prompt
    BY DEF TypeOK
  <1>2. [life |-> prompts[p].life, answer |-> a, answers |-> prompts[p].answers + 1] \in Prompt
    BY <1>1 DEF Prompt
  <1> QED
    BY <1>1, <1>2 DEF Answered

\* The chat after an event.
LEMMA ShownType ==
  ASSUME TypeOK, NEW k
  PROVE  Shown(k) \in Chat
  BY DEF TypeOK, Shown, Chat

\* The steps of the UI thread keep the types of what they leave alone.
LEMMA UiKeepsType ==
  ASSUME TypeOK, UNCHANGED worker,
         evs' \in Seq(Event), Len(evs') <= EvCap, wake' \in BOOLEAN, jobWake' \in BOOLEAN,
         jobs' \in Seq(JobKinds \cup {"quit"}), Len(jobs') <= JobCap,
         agent' \in [state : {"live", "freed", "null"}, hooks : BOOLEAN, cancel : BOOLEAN],
         prompts' \in [Prompts -> Prompt], upc' \in UiAt,
         modal' \in [kind : {"none", "other"} \cup RoundTrips, p : 0 .. MaxPrompts],
         job' \in JobKinds \cup {"none"}, submits' \in 0 .. MaxSubmits,
         always' \in BOOLEAN, chat' \in Chat, fault' \in BOOLEAN
  PROVE  TypeOK'
  BY DEF TypeOK, worker, run

\* Every question in the ring or in a dialog is one of the worker's.
LEMMA QuestionType ==
  ASSUME IInv
  PROVE  /\ modal.kind \in RoundTrips => modal.p \in Prompts
         /\ evs # <<>> /\ Head(evs).kind \in RoundTrips => Head(evs).p \in Prompts
  <1>1. modal.kind \in RoundTrips => modal.p \in Prompts
    BY RingsHoldSomething DEF IInv, TypeOK, ModalSound, Prompts
  <1>2. ASSUME evs # <<>>, Head(evs).kind \in RoundTrips
        PROVE  Head(evs).p \in Prompts
    <2>1. evs \in Seq(Event) /\ Len(evs) \in Nat /\ 1 \in 1 .. Len(evs) /\ Head(evs) = evs[1]
      BY <1>2 DEF IInv, TypeOK
    <2>2. evs[1] \in Event /\ evs[1].p # 0
      BY <1>2, <2>1 DEF IInv, QueueSound
    <2> QED
      BY <2>1, <2>2, RingsHoldSomething DEF Event, Prompts
  <1> QED
    BY <1>1, <1>2

\* The other dialogs hold no question.
LEMMA NoQuestion ==
  /\ NoModal \in [kind : {"none", "other"} \cup RoundTrips, p : 0 .. MaxPrompts]
  /\ OtherModal \in [kind : {"none", "other"} \cup RoundTrips, p : 0 .. MaxPrompts]
  BY RingsHoldSomething DEF NoModal, OtherModal

\* Closing a dialog answers its question.
LEMMA DeclinedType ==
  ASSUME IInv
  PROVE  Declined \in [Prompts -> Prompt]
  BY QuestionType, AnsweredType DEF Declined, IInv, TypeOK

\* The steps of the UI thread keep the types.
LEMMA UiType ==
  ASSUME IInv, Ui
  PROVE  TypeOK'
  <1> USE RingsHoldSomething DEF In, Then, Tui, NotWorker, NoKeys
  <1>0. TypeOK /\ Underway
    BY DEF IInv
  <1>1. CASE Poll
    BY <1>0, <1>1, UiKeepsType DEF Poll, TypeOK, Rings, ring, worker, run, UiAt, Quitting
  <1>2. CASE HandleEvent
    BY <1>0, <1>2, UiKeepsType, PopType, ShownType, NoQuestion DEF HandleEvent, TypeOK, Rings, ring, worker, run, UiAt, Quitting
  <1>3. CASE HandleQuestion
    <2>1. UNCHANGED <<worker, agent, wake, jobs, jobWake, job, submits, always, chat, fault>> /\ upc' = "drain"
      BY <1>3 DEF HandleQuestion
    <2>2. evs' \in Seq(Event) /\ Len(evs') <= EvCap /\ Head(evs) \in Event
      BY <1>0, <1>3, PopType DEF HandleQuestion
    <2>3. prompts' \in [Prompts -> Prompt]
      <3>1. prompts \in [Prompts -> Prompt]
        BY <1>0 DEF TypeOK
      <3>2. Head(evs).p \in Prompts
        BY <1>3, QuestionType DEF HandleQuestion
      <3>3. Answered(Head(evs).p, "no") \in [Prompts -> Prompt]
        BY <1>0, <3>2, AnsweredType
      <3> QED
        BY <1>3, <3>1, <3>3 DEF HandleQuestion
    <2>4. modal' \in [kind : {"none", "other"} \cup RoundTrips, p : 0 .. MaxPrompts]
      BY <1>0, <1>3, <2>2 DEF HandleQuestion, TypeOK, Event
    <2> QED
      BY <1>0, <2>1, <2>2, <2>3, <2>4, UiKeepsType DEF TypeOK, worker, run, UiAt
  <1>4. CASE RingEmpty
    BY <1>0, <1>4, UiKeepsType DEF RingEmpty, TypeOK, Rings, ring, worker, run, UiAt, Quitting
  <1>5. CASE DrainWake
    <2>1. UNCHANGED <<worker, agent, evs, jobs, modal, prompts, job, submits, always, chat, fault>>
      BY <1>5 DEF DrainWake
    <2>2. wake' \in BOOLEAN /\ jobWake' \in BOOLEAN /\ upc' \in UiAt
      BY <1>5 DEF DrainWake, UiAt
    <2> QED
      BY <1>0, <2>1, <2>2, UiKeepsType DEF TypeOK, worker, run
  <1>6. CASE PushJob
    <2>1. UNCHANGED <<worker, agent, evs, wake, modal, prompts, submits, always, chat, fault>>
      BY <1>6 DEF PushJob
    <2>2. jobWake' \in BOOLEAN /\ upc' \in UiAt /\ job' = "none"
      BY <1>6 DEF PushJob, UiAt
    <2>3. jobs' \in Seq(JobKinds \cup {"quit"}) /\ Len(jobs') <= JobCap
      BY <1>0, <1>6, PushJobType DEF PushJob, Underway, TypeOK
    <2> QED
      BY <1>0, <2>1, <2>2, <2>3, UiKeepsType DEF TypeOK, worker, run
  <1>7. CASE Commit
    BY <1>0, <1>7, UiKeepsType, NoQuestion DEF Commit, TypeOK, Rings, ring, worker, run, UiAt, Quitting
  <1>8. CASE Cancel
    BY <1>0, <1>8, UiKeepsType DEF Cancel, CancelThen, TypeOK, Rings, ring, worker, run, UiAt, Quitting
  <1>9. CASE \E k \in Jobs : Submit(k)
    <2>1. PICK k \in Jobs : Submit(k)
      BY <1>9
    <2>2. UNCHANGED <<worker, agent, ring, modal, prompts, always, fault>>
      BY <2>1 DEF Submit, Rings
    <2>3. chat' \in Chat
      BY <1>0, <2>1 DEF Submit, TypeOK, Chat
    <2>4. upc' \in UiAt /\ job' \in JobKinds \cup {"none"} /\ submits' \in 0 .. MaxSubmits
      BY <1>0, <2>1 DEF Submit, TypeOK, UiAt
    <2> QED
      BY <1>0, <2>2, <2>3, <2>4, UiKeepsType DEF TypeOK, worker, run, ring
  <1>10. CASE Notice
    <2>1. UNCHANGED <<worker, agent, ring, modal, prompts, job, submits, always, fault>>
      BY <1>10 DEF Notice, Rings
    <2>2. chat' \in Chat /\ upc' \in UiAt
      BY <1>0, <1>10 DEF Notice, TypeOK, Chat, UiAt
    <2> QED
      BY <1>0, <2>1, <2>2, UiKeepsType DEF TypeOK, worker, run, ring
  <1>11. CASE CancelRun
    BY <1>0, <1>11, UiKeepsType DEF CancelRun, TypeOK, Rings, ring, worker, run, UiAt, Quitting
  <1>12. CASE OpenDialog
    BY <1>0, <1>12, UiKeepsType, NoQuestion DEF OpenDialog, TypeOK, Rings, ring, worker, run, UiAt, Quitting
  <1>13. CASE CloseDialog
    BY <1>0, <1>13, UiKeepsType, NoQuestion DEF CloseDialog, TypeOK, Rings, ring, worker, run, UiAt, Quitting
  <1>14. CASE \E a \in {"no", "yes"} : Decide(a)
    <2>1. PICK a \in {"no", "yes"} : Decide(a)
      BY <1>14
    <2>2. UNCHANGED <<worker, agent, ring, modal, job, submits, always, chat, fault>>
      BY <2>1 DEF Decide, Rings
    <2>3. prompts' \in [Prompts -> Prompt]
      BY <1>0, <2>1, QuestionType, AnsweredType DEF Decide
    <2>4. upc' \in UiAt
      BY <2>1 DEF Decide, UiAt
    <2> QED
      BY <1>0, <2>2, <2>3, <2>4, UiKeepsType DEF TypeOK, worker, run, ring
  <1>15. CASE CtrlC
    BY <1>0, <1>15, UiKeepsType, NoQuestion, DeclinedType DEF CtrlC, TypeOK, Rings, ring, worker, run, UiAt, Quitting
  <1>16. CASE Leave
    BY <1>0, <1>16, UiKeepsType DEF Leave, TypeOK, Rings, ring, worker, run, UiAt, Quitting
  <1>17. CASE CloseModal
    BY <1>0, <1>17, UiKeepsType, NoQuestion, DeclinedType DEF CloseModal, TypeOK, Rings, ring, worker, run, UiAt, Quitting
  <1>18. CASE LookBusy
    BY <1>0, <1>18, UiKeepsType DEF LookBusy, TypeOK, Rings, ring, worker, run, UiAt, Quitting
  <1>19. CASE DropJobs
    BY <1>0, <1>19, UiKeepsType, PopJobType DEF DropJobs, TypeOK, Rings, ring, worker, run, UiAt, Quitting
  <1>20. CASE AnswerQueued
    <2>1. UNCHANGED <<worker, agent, wake, jobs, jobWake, modal, job, submits, always, chat, fault>>
      BY <1>20 DEF AnswerQueued
    <2>2. evs' \in Seq(Event) /\ Len(evs') <= EvCap
      BY <1>0, <1>20, PopType DEF AnswerQueued, TypeOK
    <2>3. prompts' \in [Prompts -> Prompt]
      <3>1. prompts \in [Prompts -> Prompt]
        BY <1>0 DEF TypeOK
      <3>2. ASSUME evs # <<>>, Head(evs).kind \in RoundTrips
            PROVE  Answered(Head(evs).p, "no") \in [Prompts -> Prompt]
        BY <1>0, <3>2, QuestionType, AnsweredType
      <3> QED
        BY <1>20, <3>1, <3>2 DEF AnswerQueued
    <2>4. upc' \in UiAt
      BY <1>20 DEF AnswerQueued, UiAt, Quitting
    <2> QED
      BY <1>0, <2>1, <2>2, <2>3, <2>4, UiKeepsType DEF TypeOK, worker, run
  <1>21. CASE PushQuit
    BY <1>0, <1>21, UiKeepsType, PushJobType DEF PushQuit, TypeOK, Rings, ring, worker, run, UiAt, Quitting
  <1>22. CASE Join
    BY <1>0, <1>22, UiKeepsType DEF Join, TypeOK, Rings, ring, worker, run, UiAt, Quitting
  <1> QED
    BY <1>1, <1>2, <1>3, <1>4, <1>5, <1>6, <1>7, <1>8, <1>9, <1>10, <1>11, <1>12,
       <1>13, <1>14, <1>15, <1>16, <1>17, <1>18, <1>19, <1>20, <1>21, <1>22 DEF Ui, Keys, Quit

\* A job is about to be pushed after Submit only.
LEMMA UiUnderway ==
  ASSUME Underway, Ui
  PROVE  Underway'
  <1> USE RingsHoldSomething DEF In, Then, Tui, NotWorker, Underway, worker, run
  <1>1. CASE Poll
    BY <1>1 DEF Poll
  <1>2. CASE HandleEvent
    BY <1>2 DEF HandleEvent
  <1>3. CASE HandleQuestion
    BY <1>3 DEF HandleQuestion
  <1>4. CASE RingEmpty
    BY <1>4 DEF RingEmpty
  <1>5. CASE DrainWake
    BY <1>5 DEF DrainWake
  <1>6. CASE PushJob
    BY <1>6 DEF PushJob
  <1>7. CASE Commit
    BY <1>7 DEF Commit
  <1>8. CASE Cancel
    BY <1>8 DEF Cancel, CancelThen
  <1>9. CASE \E k \in Jobs : Submit(k)
    BY <1>9 DEF Submit
  <1>10. CASE Notice
    BY <1>10 DEF Notice
  <1>11. CASE CancelRun
    BY <1>11 DEF CancelRun
  <1>12. CASE OpenDialog
    BY <1>12 DEF OpenDialog
  <1>13. CASE CloseDialog
    BY <1>13 DEF CloseDialog
  <1>14. CASE \E a \in {"no", "yes"} : Decide(a)
    BY <1>14 DEF Decide
  <1>15. CASE CtrlC
    BY <1>15 DEF CtrlC
  <1>16. CASE Leave
    BY <1>16 DEF Leave
  <1>17. CASE CloseModal
    BY <1>17 DEF CloseModal
  <1>18. CASE LookBusy
    BY <1>18 DEF LookBusy
  <1>19. CASE DropJobs
    BY <1>19 DEF DropJobs
  <1>20. CASE AnswerQueued
    BY <1>20 DEF AnswerQueued
  <1>21. CASE PushQuit
    BY <1>21 DEF PushQuit
  <1>22. CASE Join
    BY <1>22 DEF Join
  <1> QED
    BY <1>1, <1>2, <1>3, <1>4, <1>5, <1>6, <1>7, <1>8, <1>9, <1>10, <1>11, <1>12,
       <1>13, <1>14, <1>15, <1>16, <1>17, <1>18, <1>19, <1>20, <1>21, <1>22 DEF Ui, Keys, Quit

-----------------------------------------------------------------------------
(* What a step does to the questions                                       *)

\* Nothing.
Quiet ==
  /\ UNCHANGED <<evs, prompts, cur, modal>>
  /\ (Asking' <=> Asking) /\ (Committing' <=> Committing)

\* The worker, which waits for nothing, pushes another event.
Tells ==
  /\ ~Asking /\ ~Asking' /\ UNCHANGED <<prompts, cur, modal, upc>>
  /\ \E k \in Kinds : Push(k, 0)

\* It asks, or it goes on with the answer.
Asks ==
  /\ ~Asking
  /\ \E k \in RoundTrips, pc \in {"approving", "asking"} : PushPrompt(k, pc)

GoesOn ==
  /\ Asking /\ ~Waiting /\ ~Asking' /\ prompts' = Freed
  /\ UNCHANGED <<evs, cur, modal, upc>>

\* The UI thread takes an event from the ring: another one, which may open a
\* dialog without a question; a question that is shown; one that is refused.
Pops ==
  /\ ~Committing /\ ~Committing' /\ UNCHANGED <<wpc, cur>>
  /\ evs # <<>> /\ evs' = Tail(evs)

Handles ==
  /\ Pops /\ Head(evs).kind \notin RoundTrips /\ UNCHANGED prompts
  /\ modal' = modal \/ (modal = NoModal /\ modal' = OtherModal)

Shows ==
  /\ Pops /\ Head(evs).kind \in RoundTrips /\ UNCHANGED prompts
  /\ modal = NoModal /\ modal' = Head(evs)

Refuses ==
  /\ Pops /\ Head(evs).kind \in RoundTrips /\ UNCHANGED modal
  /\ prompts' = Answered(Head(evs).p, "no")

\* It answers for the user, closes the dialog after that, or without an answer.
Decides ==
  /\ ~Committing /\ Committing' /\ modal.kind \in RoundTrips
  /\ \E a \in {"no", "yes"} : prompts' = Answered(modal.p, a)
  /\ UNCHANGED <<wpc, cur, evs, modal>>

Commits ==
  /\ Committing /\ ~Committing' /\ modal' = NoModal
  /\ UNCHANGED <<wpc, cur, evs, prompts>>

Closes ==
  /\ ~Committing /\ ~Committing' /\ prompts' = Declined
  /\ modal' \in {NoModal, OtherModal}
  /\ UNCHANGED <<wpc, cur, evs>>

WorkerKind == Quiet \/ Tells \/ Asks \/ GoesOn
UiKind == Quiet \/ Handles \/ Shows \/ Refuses \/ Decides \/ Commits \/ Closes

\* The steps of the worker are of these kinds.
LEMMA WorkerKinds ==
  ASSUME IInv, Worker
  PROVE  WorkerKind
  <1> USE DEF WorkerKind, Asking, At, Goto, NotUi
  <1>1. CASE WriteWake
    BY <1>1 DEF WriteWake, Quiet, Committing, Silent, ring, run, ui
  <1>2. CASE Stop
    BY <1>2 DEF Stop, Quiet, Committing, Silent, ring, run, ui
  <1>3. CASE CallModel
    BY <1>3 DEF CallModel, Quiet, Committing, Silent, ring, run, ui
  <1>4. CASE Response
    BY <1>4 DEF Response, Quiet, Committing, Silent, ring, run, ui
  <1>5. CASE CallsDone
    BY <1>5 DEF CallsDone, Quiet, Committing, Silent, ring, run, ui
  <1>6. CASE SkipCall
    BY <1>6 DEF SkipCall, Quiet, Committing, Silent, ring, run, ui
  <1>7. CASE NoApprovalNeeded
    BY <1>7 DEF NoApprovalNeeded, Quiet, Committing, Silent, ring, run, ui
  <1>8. CASE Execute
    BY <1>8 DEF Execute, Quiet, Committing, Silent, ring, run, ui
  <1>9. CASE EndRun
    BY <1>9 DEF EndRun, Quiet, Committing, Silent, ring, run, ui
  <1>10. CASE DestroyAgent
    BY <1>10 DEF DestroyAgent, Quiet, Committing, Silent, ring, run, ui
  <1>11. CASE ClearAgent
    BY <1>11 DEF ClearAgent, Quiet, Committing, Silent, ring, run, ui
  <1>12. CASE BuildAgent
    BY <1>12 DEF BuildAgent, Quiet, Committing, Silent, ring, run, ui
  <1>13. CASE SetBusy
    BY <1>13 DEF SetBusy, Quiet, Committing, Silent, ring, run, ui
  <1>14. CASE BeginRun
    BY <1>14 DEF BeginRun, Quiet, Committing, Silent, ring, run, ui
  <1>15. CASE TakeJob
    <2>1. Head(jobs) \in JobKinds \cup {"quit"}
      BY <1>15 DEF TakeJob, IInv, TypeOK
    <2>2. JobStart(Head(jobs)) \notin {"approving", "asking"}
      BY <2>1 DEF JobStart, JobKinds
    <2> QED
      BY <1>15, <2>2 DEF TakeJob, Quiet, Committing, run, ui
  <1>16. CASE Fork
    BY <1>16 DEF Fork, Tells, Kinds, Committing, ui
  <1>17. CASE Chunk
    BY <1>17 DEF Chunk, Tells, Kinds, Committing, ui
  <1>18. CASE Denied
    BY <1>18 DEF Denied, Tells, Kinds, Committing, ui
  <1>19. CASE Seal
    BY <1>19 DEF Seal, Tells, Kinds, Committing, ui
  <1>20. CASE Shell
    BY <1>20 DEF Shell, Tells, Kinds, Committing, ui
  <1>21. CASE ShellEnd
    BY <1>21 DEF ShellEnd, Tells, Kinds, Committing, ui
  <1>22. CASE Title
    BY <1>22 DEF Title, Tells, Kinds, Committing, ui, Quiet, Silent, ring
  <1>23. CASE ToolStart
    BY <1>23 DEF ToolStart, Tells, Kinds, Committing, ui, Quiet, Silent, ring
  <1>24. CASE ToolEnd
    BY <1>24 DEF ToolEnd, Tells, Kinds, Committing, ui, Quiet, Silent, ring
  <1>25. CASE Flush
    BY <1>25 DEF Flush, Tells, Kinds, Committing, ui, Quiet, Silent, ring
  <1>26. CASE TellSession
    BY <1>26 DEF TellSession, Tells, Kinds, Committing, ui, Quiet, Silent, ring
  <1>27. CASE Report
    BY <1>27 DEF Report, Tells, Kinds, Committing, ui, Quiet, Silent, ring
  <1>28. CASE AskApproval
    BY <1>28 DEF AskApproval, Asks, RoundTrips
  <1>29. CASE AskUser
    BY <1>29 DEF AskUser, Asks, RoundTrips
  <1>30. CASE GetApproval
    BY <1>30 DEF GetApproval, GoesOn, Waiting, Silent, ring, ui
  <1>31. CASE GetAnswer
    BY <1>31 DEF GetAnswer, GoesOn, Waiting, Silent, ring, ui
  <1> QED
    BY <1>1, <1>2, <1>3, <1>4, <1>5, <1>6, <1>7, <1>8, <1>9, <1>10, <1>11, <1>12,
       <1>13, <1>14, <1>15, <1>16, <1>17, <1>18, <1>19, <1>20, <1>21, <1>22, <1>23, <1>24,
       <1>25, <1>26, <1>27, <1>28, <1>29, <1>30, <1>31 DEF Worker

\* So are the steps of the UI thread.
LEMMA UiKinds ==
  ASSUME IInv, Ui
  PROVE  UiKind
  <1> USE DEF UiKind, Committing, In, Then, Tui, NotWorker, worker
  <1>1. CASE Poll
    BY <1>1 DEF Poll, Quiet, Asking, Rings, ring
  <1>2. CASE HandleEvent
    BY <1>2 DEF HandleEvent, Handles, Pops
  <1>3. CASE HandleQuestion
    BY <1>3 DEF HandleQuestion, Shows, Refuses, Pops
  <1>4. CASE RingEmpty
    BY <1>4 DEF RingEmpty, Quiet, Asking, Rings, ring
  <1>5. CASE DrainWake
    BY <1>5 DEF DrainWake, Quiet, Asking, Rings, ring
  <1>6. CASE PushJob
    BY <1>6 DEF PushJob, Quiet, Asking, Rings, ring
  <1>7. CASE Commit
    BY <1>7 DEF Commit, Commits, Rings, ring
  <1>8. CASE Cancel
    BY <1>8 DEF Cancel, Quiet, Asking, Rings, ring, CancelThen
  <1>9. CASE \E k \in Jobs : Submit(k)
    BY <1>9 DEF Submit, Quiet, Asking, Rings, ring
  <1>10. CASE Notice
    BY <1>10 DEF Notice, Quiet, Asking, Rings, ring
  <1>11. CASE CancelRun
    BY <1>11 DEF CancelRun, Quiet, Asking, Rings, ring
  <1>12. CASE OpenDialog
    BY <1>12 DEF OpenDialog, Closes, Declined, NoModal, OtherModal, RoundTrips, Rings, ring
  <1>13. CASE CloseDialog
    BY <1>13 DEF CloseDialog, Closes, Declined, NoModal, OtherModal, RoundTrips, Rings, ring
  <1>14. CASE \E a \in {"no", "yes"} : Decide(a)
    BY <1>14 DEF Decide, Decides, Rings, ring
  <1>15. CASE CtrlC
    BY <1>15 DEF CtrlC, Closes, Rings, ring
  <1>16. CASE Leave
    BY <1>16 DEF Leave, Quiet, Asking, Rings, ring
  <1>17. CASE CloseModal
    BY <1>17 DEF CloseModal, Closes, Rings, ring
  <1>18. CASE LookBusy
    BY <1>18 DEF LookBusy, Quiet, Asking, Rings, ring
  <1>19. CASE DropJobs
    BY <1>19 DEF DropJobs, Quiet, Asking, Rings, ring
  <1>20. CASE AnswerQueued
    BY <1>20 DEF AnswerQueued, Handles, Refuses, Pops, Quiet, Asking
  <1>21. CASE PushQuit
    BY <1>21 DEF PushQuit, Quiet, Asking, Rings, ring
  <1>22. CASE Join
    BY <1>22 DEF Join, Quiet, Asking, Rings, ring
  <1> QED
    BY <1>1, <1>2, <1>3, <1>4, <1>5, <1>6, <1>7, <1>8, <1>9, <1>10, <1>11, <1>12,
       <1>13, <1>14, <1>15, <1>16, <1>17, <1>18, <1>19, <1>20, <1>21, <1>22 DEF Ui, Keys, Quit

-----------------------------------------------------------------------------
(* The invariant is inductive                                              *)

Sound == QueueSound /\ ModalSound /\ PromptsSound /\ QuestionHasOnePlace

\* Types of what the questions are made of.
LEMMA Shapes ==
  ASSUME TypeOK
  PROVE  /\ evs \in Seq(Event) /\ Len(evs) \in Nat /\ cur \in 0 .. MaxPrompts /\ MaxPrompts \in Nat
         /\ \A i \in 1 .. Len(evs) : evs[i] \in Event /\ evs[i].p \in 0 .. MaxPrompts
         /\ prompts \in [Prompts -> Prompt] /\ modal.p \in 0 .. MaxPrompts
         /\ Prompts = 1 .. MaxPrompts
  <1>1. /\ evs \in Seq(Event) /\ Len(evs) \in Nat /\ cur \in 0 .. MaxPrompts
        /\ prompts \in [Prompts -> Prompt] /\ modal.p \in 0 .. MaxPrompts
    BY DEF TypeOK
  <1>2. \A i \in 1 .. Len(evs) : evs[i] \in Event
    BY <1>1
  <1>3. \A i \in 1 .. Len(evs) : evs[i].p \in 0 .. MaxPrompts
    BY <1>2 DEF Event
  <1> QED
    BY <1>1, <1>2, <1>3, RingsHoldSomething DEF Prompts

LEMMA QuietSound ==
  ASSUME IInv, Quiet
  PROVE  Sound'
  <1>1. Waiting' <=> Waiting
    BY DEF Quiet, Waiting
  <1> QED
    BY <1>1 DEF IInv, Quiet, Sound, QueueSound, ModalSound, PromptsSound, QuestionHasOnePlace, Queued

\* The ring after a push.
LEMMA Pushed ==
  ASSUME TypeOK, NEW k, NEW p, Push(k, p)
  PROVE  /\ Len(evs') = Len(evs) + 1 /\ Len(evs) \in Nat
         /\ \A i \in 1 .. Len(evs) : evs'[i] = evs[i]
         /\ evs'[Len(evs) + 1] = [kind |-> k, p |-> p]
         /\ 1 .. Len(evs') = (1 .. Len(evs)) \cup {Len(evs) + 1}
  <1>1. evs \in Seq(Event) /\ Len(evs) \in Nat
    BY DEF TypeOK
  <1> QED
    BY <1>1 DEF Push

LEMMA TellsSound ==
  ASSUME IInv, Tells
  PROVE  Sound'
  <1>1. PICK k \in Kinds : Push(k, 0)
    BY DEF Tells
  <1>2. /\ Len(evs') = Len(evs) + 1 /\ Len(evs) \in Nat
        /\ \A i \in 1 .. Len(evs) : evs'[i] = evs[i]
        /\ evs'[Len(evs) + 1] = [kind |-> k, p |-> 0]
        /\ 1 .. Len(evs') = (1 .. Len(evs)) \cup {Len(evs) + 1}
    BY <1>1, Pushed DEF IInv
  <1>3. ~Waiting /\ ~Waiting' /\ k \notin RoundTrips
    BY DEF Tells, Waiting, Kinds, RoundTrips
  <1>4. \A i \in 1 .. Len(evs) : evs[i].p = 0 /\ evs[i].kind \notin RoundTrips
    BY <1>3 DEF IInv, QueueSound
  <1>5. \A i \in 1 .. Len(evs') : evs'[i].p = 0 /\ evs'[i].kind \notin RoundTrips
    BY <1>2, <1>3, <1>4
  <1>6. QueueSound'
    BY <1>5 DEF QueueSound
  <1>7. ModalSound' /\ PromptsSound'
    BY <1>3 DEF Tells, IInv, ModalSound, PromptsSound, Committing
  <1> QED
    BY <1>3, <1>6, <1>7 DEF Sound, QuestionHasOnePlace

LEMMA AsksSound ==
  ASSUME IInv, Asks
  PROVE  Sound'
  <1>1. PICK k \in RoundTrips, pc \in {"approving", "asking"} : PushPrompt(k, pc)
    BY DEF Asks
  <1>2. /\ cur' = cur + 1 /\ cur < MaxPrompts /\ wpc' = pc
        /\ prompts' = [prompts EXCEPT ![cur + 1].life = "live"]
        /\ Push(k, cur + 1) /\ UNCHANGED <<upc, modal>>
    BY <1>1 DEF PushPrompt, Goto, NotUi, ui
  <1>3. /\ Len(evs') = Len(evs) + 1 /\ Len(evs) \in Nat
        /\ \A i \in 1 .. Len(evs) : evs'[i] = evs[i]
        /\ evs'[Len(evs) + 1] = [kind |-> k, p |-> cur + 1]
        /\ 1 .. Len(evs') = (1 .. Len(evs)) \cup {Len(evs) + 1}
    BY <1>2, Pushed DEF IInv
  <1>4. /\ cur \in 0 .. MaxPrompts /\ MaxPrompts \in Nat /\ cur + 1 \in Prompts /\ cur + 1 # 0
        /\ prompts \in [Prompts -> Prompt] /\ modal.p \in 0 .. MaxPrompts
    BY <1>2, Shapes DEF IInv
  <1>5. /\ prompts'[cur + 1].life = "live"
        /\ \A p \in Prompts : /\ prompts'[p].answers = prompts[p].answers
                              /\ prompts'[p].answer = prompts[p].answer
    BY <1>2, <1>4 DEF Prompt
  <1>6. Asking' /\ ~Waiting
    BY <1>2 DEF Asks, Asking, Waiting
  <1>7. prompts[cur + 1].answers = 0 /\ prompts[cur + 1].answer = "none"
    BY <1>4 DEF IInv, PromptsSound
  <1>8. Waiting'
    BY <1>2, <1>4, <1>5, <1>6, <1>7 DEF Waiting
  <1>9. modal'.p # cur'
    BY <1>2, <1>4, <1>6 DEF IInv, ModalSound
  <1>10. \A i \in 1 .. Len(evs) : evs[i].p = 0 /\ evs[i].kind \notin RoundTrips
    BY <1>6 DEF IInv, QueueSound
  <1>11. \A i \in 1 .. Len(evs') : /\ i # Len(evs) + 1 => evs'[i].p = 0 /\ evs'[i].kind \notin RoundTrips
                                   /\ i = Len(evs) + 1 => evs'[i].p = cur' /\ evs'[i].kind \in RoundTrips
    BY <1>2, <1>3, <1>10
  <1>12. QueueSound'
    BY <1>2, <1>4, <1>8, <1>9, <1>11 DEF QueueSound
  <1>13. ModalSound'
    BY <1>2, <1>4, <1>6, <1>9 DEF IInv, ModalSound, Committing
  <1>14. PromptsSound'
    <2>1. Asking' => cur' \in Prompts /\ prompts'[cur'].life = "live"
      BY <1>2, <1>4, <1>5
    <2>2. \A p \in Prompts : prompts'[p].answers = 0 <=> prompts'[p].answer = "none"
      BY <1>5 DEF IInv, PromptsSound
    <2>3. ASSUME NEW p \in Prompts, p > cur'
          PROVE  prompts'[p].answers = 0
      <3>1. p > cur
        BY <1>2, <1>4, <2>3, Shapes DEF IInv
      <3> QED
        BY <1>5, <3>1 DEF IInv, PromptsSound
    <2> QED
      BY <2>1, <2>2, <2>3 DEF PromptsSound
  <1>15. Queued(cur)' = {Len(evs) + 1}
    BY <1>2, <1>3, <1>4, <1>11 DEF Queued
  <1> QED
    BY <1>3, <1>9, <1>12, <1>13, <1>14, <1>15 DEF Sound, QuestionHasOnePlace

LEMMA GoesOnSound ==
  ASSUME IInv, GoesOn
  PROVE  Sound'
  <1>1. /\ ~Waiting /\ ~Waiting' /\ ~Asking' /\ cur \in Prompts
        /\ UNCHANGED <<evs, cur, modal, upc>>
        /\ prompts' = [prompts EXCEPT ![cur] = [life |-> "freed", answer |-> "none", answers |-> 0]]
    BY DEF GoesOn, Waiting, IInv, PromptsSound, Freed
  <1>2. prompts \in [Prompts -> Prompt]
    BY Shapes DEF IInv
  <1>3. PromptsSound'
    BY <1>1, <1>2 DEF IInv, PromptsSound
  <1>4. QueueSound' /\ ModalSound'
    BY <1>1 DEF IInv, QueueSound, ModalSound, Committing
  <1> QED
    BY <1>1, <1>3, <1>4 DEF Sound, QuestionHasOnePlace

\* The ring after its head was taken off.
LEMMA Popped ==
  ASSUME IInv, Pops
  PROVE  /\ Len(evs) \in Nat \ {0} /\ Len(evs') = Len(evs) - 1 /\ Head(evs) = evs[1]
         /\ \A i \in 1 .. Len(evs') : i + 1 \in 2 .. Len(evs) /\ evs'[i] = evs[i + 1]
         /\ 1 \in 1 .. Len(evs)
  <1>1. /\ Len(evs) \in Nat \ {0} /\ Len(evs') = Len(evs) - 1 /\ Head(evs) = evs[1]
        /\ \A i \in 1 .. Len(evs') : evs'[i] = evs[i + 1]
    BY PopType DEF IInv, Pops
  <1> QED
    BY <1>1

LEMMA HandlesSound ==
  ASSUME IInv, Handles
  PROVE  Sound'
  <1>1. /\ Len(evs) \in Nat \ {0} /\ Len(evs') = Len(evs) - 1 /\ Head(evs) = evs[1]
        /\ \A i \in 1 .. Len(evs') : i + 1 \in 2 .. Len(evs) /\ evs'[i] = evs[i + 1]
        /\ 1 \in 1 .. Len(evs)
    BY Popped DEF Handles
  <1>2. /\ evs[1].kind \notin RoundTrips /\ UNCHANGED <<prompts, wpc, cur>>
        /\ ~Committing /\ ~Committing' /\ modal'.p = modal.p
        /\ modal'.kind \in RoundTrips <=> modal.kind \in RoundTrips
    BY <1>1 DEF Handles, Pops, NoModal, OtherModal, RoundTrips
  <1>3. /\ \A i \in 1 .. Len(evs) : evs[i].kind \in RoundTrips <=> evs[i].p # 0
        /\ \A i \in 1 .. Len(evs) : evs[i].p # 0 => evs[i].p = cur
        /\ (\E i \in 1 .. Len(evs) : evs[i].p # 0) => Waiting /\ modal.p # cur
        /\ \A i, j \in 1 .. Len(evs) : evs[i].p # 0 /\ evs[j].p # 0 => i = j
    BY DEF IInv, QueueSound
  <1>4. (Waiting' <=> Waiting) /\ (Asking' <=> Asking)
    BY <1>2 DEF Waiting, Asking
  <1>5. evs[1].p = 0
    BY <1>1, <1>2, <1>3
  <1>6. QueueSound'
    <2>1. \A i \in 1 .. Len(evs') : i + 1 \in 1 .. Len(evs) /\ evs'[i] = evs[i + 1]
      BY <1>1
    <2>2. \A i \in 1 .. Len(evs') : evs'[i].kind \in RoundTrips <=> evs'[i].p # 0
      BY <1>3, <2>1
    <2>3. ASSUME NEW i \in 1 .. Len(evs'), evs'[i].p # 0
          PROVE  Waiting' /\ evs'[i].p = cur' /\ modal'.p # cur'
      BY <1>2, <1>3, <1>4, <2>1, <2>3
    <2>4. ASSUME NEW i \in 1 .. Len(evs'), NEW j \in 1 .. Len(evs'), evs'[i].p # 0, evs'[j].p # 0
          PROVE  i = j
      <3>1. i + 1 = j + 1
        BY <1>3, <2>1, <2>4
      <3> QED
        BY <1>1, <3>1
    <2> QED
      BY <2>2, <2>3, <2>4 DEF QueueSound
  <1>7. ModalSound' /\ PromptsSound'
    BY <1>2, <1>4 DEF IInv, ModalSound, PromptsSound
  <1>8. ASSUME Waiting'
        PROVE  QuestionHasOnePlace'
    <2>1. cur # 0 /\ cur \in Prompts
      BY <1>4, <1>8, Shapes DEF Waiting, IInv, PromptsSound
    <2>2. CASE modal.p = cur /\ Queued(cur) = {}
      <3>1. Queued(cur)' = {}
        BY <1>1, <1>2, <2>2 DEF Queued
      <3> QED
        BY <1>2, <2>2, <3>1 DEF QuestionHasOnePlace
    <2>3. CASE modal.p # cur /\ \E i \in Queued(cur) : Queued(cur) = {i}
      <3>1. PICK i \in 1 .. Len(evs) : Queued(cur) = {i} /\ evs[i].p = cur
        BY <2>3 DEF Queued
      <3>2. i # 1
        BY <1>5, <2>1, <3>1
      <3>3. i - 1 \in 1 .. Len(evs') /\ evs'[i - 1].p = cur
        BY <1>1, <3>1, <3>2
      <3>4. ASSUME NEW j \in 1 .. Len(evs'), evs'[j].p = cur
            PROVE  j = i - 1
        <4>1. j + 1 \in 1 .. Len(evs) /\ evs[j + 1].p = cur
          BY <1>1, <3>4
        <4>2. j + 1 = i
          BY <3>1, <4>1 DEF Queued
        <4> QED
          BY <1>1, <4>2
      <3>5. Queued(cur)' = {i - 1}
        BY <1>2, <3>3, <3>4 DEF Queued
      <3> QED
        BY <1>2, <2>3, <3>5 DEF QuestionHasOnePlace
    <2> QED
      BY <1>4, <1>8, <2>2, <2>3 DEF IInv, QuestionHasOnePlace
  <1> QED
    BY <1>6, <1>7, <1>8 DEF Sound, QuestionHasOnePlace

\* A question that comes out of the ring is the one the worker waits on, it was
\* the only one in the ring, and no dialog is about it.
LEMMA FromRing ==
  ASSUME IInv, Pops, Head(evs).kind \in RoundTrips
  PROVE  /\ Waiting /\ Head(evs).p = cur /\ modal.p = 0 /\ cur \in Prompts /\ cur # 0
         /\ \A i \in 1 .. Len(evs') : evs'[i].p = 0 /\ evs'[i].kind \notin RoundTrips
         /\ modal.kind \notin RoundTrips
  <1>1. /\ Len(evs) \in Nat \ {0} /\ Len(evs') = Len(evs) - 1 /\ Head(evs) = evs[1]
        /\ \A i \in 1 .. Len(evs') : i + 1 \in 2 .. Len(evs) /\ evs'[i] = evs[i + 1]
        /\ 1 \in 1 .. Len(evs)
    BY Popped
  <1>2. /\ \A i \in 1 .. Len(evs) : evs[i].kind \in RoundTrips <=> evs[i].p # 0
        /\ \A i \in 1 .. Len(evs) : evs[i].p # 0 => evs[i].p = cur
        /\ (\E i \in 1 .. Len(evs) : evs[i].p # 0) => Waiting /\ modal.p # cur
        /\ \A i, j \in 1 .. Len(evs) : evs[i].p # 0 /\ evs[j].p # 0 => i = j
    BY DEF IInv, QueueSound
  <1>3. Waiting /\ Head(evs).p = cur /\ modal.p # cur /\ cur # 0
    BY <1>1, <1>2
  <1>4. modal.p = 0 /\ modal.kind \notin RoundTrips
    BY <1>3 DEF Pops, IInv, ModalSound
  <1>5. cur \in Prompts
    BY <1>3 DEF Waiting, IInv, PromptsSound
  <1>6. ASSUME NEW i \in 1 .. Len(evs')
        PROVE  evs'[i].p = 0 /\ evs'[i].kind \notin RoundTrips
    <2>1. i + 1 \in 1 .. Len(evs) /\ i + 1 # 1 /\ evs'[i] = evs[i + 1]
      BY <1>1
    <2> QED
      BY <1>1, <1>2, <1>3, <2>1
  <1> QED
    BY <1>3, <1>4, <1>5, <1>6

LEMMA ShowsSound ==
  ASSUME IInv, Shows
  PROVE  Sound'
  <1>1. /\ Waiting /\ Head(evs).p = cur /\ cur \in Prompts /\ cur # 0
        /\ \A i \in 1 .. Len(evs') : evs'[i].p = 0 /\ evs'[i].kind \notin RoundTrips
    BY FromRing DEF Shows
  <1>2. /\ UNCHANGED <<prompts, wpc, cur>> /\ ~Committing'
        /\ modal'.p = cur' /\ modal'.kind \in RoundTrips
    BY <1>1 DEF Shows, Pops
  <1>3. Waiting' /\ (Asking' <=> Asking)
    BY <1>1, <1>2 DEF Waiting, Asking
  <1>4. QueueSound'
    BY <1>1 DEF QueueSound
  <1>5. ModalSound' /\ PromptsSound'
    BY <1>1, <1>2, <1>3 DEF IInv, ModalSound, PromptsSound
  <1>6. Queued(cur)' = {}
    BY <1>1, <1>2 DEF Queued
  <1> QED
    BY <1>2, <1>4, <1>5, <1>6 DEF Sound, QuestionHasOnePlace

\* What an answer to the question of the worker does.
LEMMA AnsweredSound ==
  ASSUME IInv, Waiting, NEW a \in {"no", "yes"},
         prompts' = Answered(cur, a), UNCHANGED <<wpc, cur>>
  PROVE  PromptsSound' /\ ~Waiting' /\ (Asking' <=> Asking)
  <1>1. cur \in Prompts /\ prompts[cur].life = "live"
    BY DEF Waiting, IInv, PromptsSound
  <1>2. /\ prompts' \in [Prompts -> Prompt]
        /\ prompts'[cur] = [life |-> prompts[cur].life, answer |-> a, answers |-> prompts[cur].answers + 1]
        /\ \A q \in Prompts \ {cur} : prompts'[q] = prompts[q]
    BY <1>1, AnsweredType DEF IInv
  <1>3. prompts[cur].answers = 0
    BY <1>1 DEF Waiting, IInv, PromptsSound
  <1>4. cur \in 0 .. MaxPrompts /\ MaxPrompts \in Nat /\ Prompts = 1 .. MaxPrompts
    BY Shapes DEF IInv
  <1>5. \A p \in Prompts : prompts'[p].answers = 0 <=> prompts'[p].answer = "none"
    BY <1>2, <1>3 DEF IInv, PromptsSound
  <1>6. \A p \in Prompts : p > cur => prompts'[p].answers = 0
    BY <1>1, <1>2, <1>4 DEF IInv, PromptsSound
  <1> QED
    BY <1>1, <1>2, <1>5, <1>6 DEF PromptsSound, Waiting, Asking

LEMMA RefusesSound ==
  ASSUME IInv, Refuses
  PROVE  Sound'
  <1>1. /\ Waiting /\ Head(evs).p = cur /\ modal.p = 0 /\ modal.kind \notin RoundTrips
        /\ \A i \in 1 .. Len(evs') : evs'[i].p = 0 /\ evs'[i].kind \notin RoundTrips
    BY FromRing DEF Refuses
  <1>2. PromptsSound' /\ ~Waiting'
    BY <1>1, AnsweredSound DEF Refuses, Pops
  <1>3. QueueSound' /\ ModalSound'
    BY <1>1 DEF Refuses, QueueSound, ModalSound
  <1> QED
    BY <1>2, <1>3 DEF Sound, QuestionHasOnePlace

\* A question in a dialog is the one the worker waits on, and none is queued.
LEMMA FromDialog ==
  ASSUME IInv, ~Committing, modal.kind \in RoundTrips
  PROVE  /\ Waiting /\ modal.p = cur /\ cur # 0
         /\ \A i \in 1 .. Len(evs) : evs[i].p = 0 /\ evs[i].kind \notin RoundTrips
  <1>1. Waiting /\ modal.p = cur /\ cur # 0
    BY DEF IInv, ModalSound
  <1> QED
    BY <1>1 DEF IInv, QueueSound

LEMMA DecidesSound ==
  ASSUME IInv, Decides
  PROVE  Sound'
  <1>1. /\ Waiting /\ modal.p = cur /\ cur # 0
        /\ \A i \in 1 .. Len(evs) : evs[i].p = 0 /\ evs[i].kind \notin RoundTrips
    BY FromDialog DEF Decides
  <1>2. PromptsSound' /\ ~Waiting'
    BY <1>1, AnsweredSound DEF Decides
  <1>3. QueueSound'
    BY <1>1 DEF Decides, QueueSound
  <1>4. ModalSound'
    BY <1>1, <1>2, Shapes DEF Decides, ModalSound, IInv
  <1> QED
    BY <1>2, <1>3, <1>4 DEF Sound, QuestionHasOnePlace

LEMMA CommitsSound ==
  ASSUME IInv, Commits
  PROVE  Sound'
  <1>1. modal'.p = 0 /\ modal'.kind \notin RoundTrips /\ UNCHANGED <<wpc, cur, evs, prompts>>
    BY DEF Commits, NoModal, RoundTrips
  <1>2. (Waiting' <=> Waiting) /\ (Asking' <=> Asking)
    BY <1>1 DEF Waiting, Asking
  <1>3. Waiting => cur \in Prompts /\ cur # 0
    BY Shapes DEF IInv, PromptsSound, Waiting
  <1>4. QueueSound'
    BY <1>1, <1>2, <1>3 DEF IInv, QueueSound
  <1>5. ModalSound' /\ PromptsSound'
    BY <1>1, <1>2 DEF IInv, ModalSound, PromptsSound
  <1>6. Waiting => modal.p # cur
    BY <1>3 DEF Commits, IInv, ModalSound
  <1>7. QuestionHasOnePlace'
    BY <1>1, <1>2, <1>3, <1>6 DEF IInv, QuestionHasOnePlace, Queued
  <1> QED
    BY <1>4, <1>5, <1>7 DEF Sound

LEMMA ClosesSound ==
  ASSUME IInv, Closes
  PROVE  Sound'
  <1>1. /\ modal'.p = 0 /\ modal'.kind \notin RoundTrips /\ UNCHANGED <<wpc, cur, evs>>
        /\ ~Committing /\ ~Committing' /\ prompts' = Declined
    BY DEF Closes, NoModal, OtherModal, RoundTrips
  <1>2. ModalSound'
    BY <1>1 DEF ModalSound
  <1>3. CASE modal.kind \in RoundTrips
    <2>1. /\ Waiting /\ modal.p = cur
          /\ \A i \in 1 .. Len(evs) : evs[i].p = 0 /\ evs[i].kind \notin RoundTrips
      BY <1>1, <1>3, FromDialog
    <2>2. PromptsSound' /\ ~Waiting'
      BY <1>1, <1>3, <2>1, AnsweredSound DEF Declined
    <2>3. QueueSound'
      BY <1>1, <2>1 DEF QueueSound
    <2> QED
      BY <1>2, <2>2, <2>3 DEF Sound, QuestionHasOnePlace
  <1>4. CASE modal.kind \notin RoundTrips
    <2>1. prompts' = prompts /\ modal.p = 0
      BY <1>1, <1>4 DEF Declined, IInv, ModalSound
    <2>2. (Waiting' <=> Waiting) /\ (Asking' <=> Asking)
      BY <1>1, <2>1 DEF Waiting, Asking
    <2> QED
      BY <1>1, <1>2, <2>1, <2>2 DEF IInv, Sound, QueueSound, PromptsSound, QuestionHasOnePlace, Queued
  <1> QED
    BY <1>3, <1>4

LEMMA KindsSound ==
  ASSUME IInv, WorkerKind \/ UiKind
  PROVE  Sound'
  BY QuietSound, TellsSound, AsksSound, GoesOnSound, HandlesSound, ShowsSound, RefusesSound,
     DecidesSound, CommitsSound, ClosesSound DEF WorkerKind, UiKind

\* Every step is of some kind and keeps the invariant.
LEMMA Inductive ==
  ASSUME IInv, [Next]_vars
  PROVE  IInv' /\ (WorkerKind \/ UiKind)
  <1>1. CASE Worker
    BY <1>1, WorkerType, WorkerKinds, KindsSound DEF IInv, Sound
  <1>2. CASE Ui
    BY <1>2, UiType, UiUnderway, UiKinds, KindsSound DEF IInv, Sound
  <1>3. CASE UNCHANGED vars
    <2>1. Quiet
      BY <1>3 DEF vars, ring, worker, ui, Quiet, Asking, Committing
    <2>2. TypeOK'
      <3>1. UNCHANGED worker /\ UNCHANGED <<evs, wake, jobs, jobWake>>
        BY <1>3 DEF vars, ring
      <3>2. UNCHANGED <<agent, prompts, upc, modal, job, submits, always, chat, fault>>
        BY <1>3 DEF vars, ui
      <3> QED
        BY <3>1, <3>2, UiKeepsType DEF IInv, TypeOK
    <2>3. Underway'
      BY <1>3 DEF vars, worker, run, ui, IInv, Underway
    <2> QED
      BY <2>1, <2>2, <2>3, KindsSound DEF IInv, Sound, WorkerKind
  <1> QED
    BY <1>1, <1>2, <1>3 DEF Next

\* At the start there is no question.
LEMMA InitInv == Init => IInv
  <1> SUFFICES ASSUME Init PROVE IInv
    OBVIOUS
  <1>1. TypeOK
    BY InitType
  <1>2. Underway /\ ~Asking /\ ~Waiting /\ ~Committing
    BY DEF Init, Underway, Asking, Waiting, Committing
  <1>3. QueueSound
    BY DEF Init, QueueSound
  <1>4. ModalSound
    BY <1>2 DEF Init, ModalSound, NoModal, RoundTrips
  <1>5. PromptsSound
    BY <1>2 DEF Init, PromptsSound
  <1> QED
    BY <1>1, <1>2, <1>3, <1>4, <1>5 DEF IInv, QuestionHasOnePlace

THEOREM Invariance == Spec => []IInv
  <1>1. IInv /\ [Next]_vars => IInv'
    BY Inductive
  <1> QED
    BY InitInv, <1>1, PTL DEF Spec

-----------------------------------------------------------------------------
(* Theorems                                                                *)

\* The rings never exceed their capacity, and every variable keeps its type.
THEOREM TypeCorrect == Spec => []TypeOK
  <1>1. IInv => TypeOK
    BY DEF IInv
  <1> QED
    BY Invariance, <1>1, PTL

\* A question the worker waits on is in the ring, once, or in the dialog: the
\* UI thread never drops one (handle_event, close_modal, tui_worker_destroy).
THEOREM OneAnswerPlace == Spec => []QuestionHasOnePlace
  <1>1. IInv => QuestionHasOnePlace
    BY DEF IInv
  <1> QED
    BY Invariance, <1>1, PTL

\* Answering the question the worker waits on counts its first answer.
LEMMA FirstAnswer ==
  ASSUME IInv, Waiting, NEW a \in {"no", "yes"}, prompts' = Answered(cur, a),
         NEW p \in Prompts, prompts'[p].answers > prompts[p].answers
  PROVE  prompts[p].life = "live" /\ prompts[p].answers = 0
  <1>1. cur \in Prompts /\ prompts[cur].life = "live" /\ prompts[cur].answers = 0
    BY DEF IInv, PromptsSound, Waiting
  <1>2. CASE p = cur
    BY <1>1, <1>2
  <1>3. CASE p # cur
    <2>1. prompts'[p] = prompts[p]
      BY <1>1, <1>3, AnsweredType DEF IInv
    <2>2. prompts[p].answers \in Nat
      BY DEF IInv, TypeOK, Prompt
    <2> QED
      BY <2>1, <2>2
  <1> QED
    BY <1>2, <1>3

\* No question is answered a second time, or after the worker freed its event
\* (tui_event_answer): not by key and close, not by dialog and quitting.
THEOREM AnswersCountOnce == Spec => AnsweredOnce
  <1>1. ASSUME IInv, [Next]_vars, NEW p \in Prompts, prompts'[p].answers > prompts[p].answers
        PROVE  prompts[p].life = "live" /\ prompts[p].answers = 0
    <2>0. prompts \in [Prompts -> Prompt] /\ p \in Prompts
      BY <1>1, Shapes DEF IInv
    <2>1. prompts[p] \in Prompt /\ prompts[p].answers \in Nat
      BY <2>0 DEF Prompt
    <2>2. prompts' # prompts
      BY <1>1, <2>1
    <2>3. CASE Asks
      <3>1. PICK q : prompts' = [prompts EXCEPT ![q].life = "live"]
        BY <2>3 DEF Asks, PushPrompt
      <3>2. prompts'[p].answers = prompts[p].answers
        BY <2>0, <3>1 DEF Prompt
      <3> QED
        BY <1>1, <2>1, <3>2
    <2>4. CASE GoesOn
      <3>1. Asking /\ prompts' = Freed
        BY <2>4 DEF GoesOn
      <3>2. p # cur => prompts'[p] = prompts[p]
        BY <2>0, <3>1 DEF Freed
      <3>3. p = cur => prompts'[p].answers = 0
        BY <2>0, <3>1 DEF Freed
      <3> QED
        BY <1>1, <2>1, <3>2, <3>3
    <2>5. CASE Refuses
      BY <1>1, <2>5, FromRing, FirstAnswer DEF Refuses
    <2>6. CASE Decides
      BY <1>1, <2>6, FromDialog, FirstAnswer DEF Decides
    <2>7. CASE Closes
      BY <1>1, <2>2, <2>7, FromDialog, FirstAnswer DEF Closes, Declined
    <2> QED
      BY <1>1, <2>2, <2>3, <2>4, <2>5, <2>6, <2>7, Inductive
         DEF WorkerKind, UiKind, Quiet, Tells, Handles, Shows, Commits
  <1>2. IInv /\ [Next]_vars => [\A p \in Prompts : prompts'[p].answers > prompts[p].answers =>
                                prompts[p].life = "live" /\ prompts[p].answers = 0]_vars
    BY <1>1
  <1> QED
    BY Invariance, <1>2, PTL DEF Spec, AnsweredOnce

-----------------------------------------------------------------------------
(* The two threads implement Prompting                                     *)

Phase == IF ~Asking THEN "none"
         ELSE IF ~Waiting THEN "answered"
         ELSE IF modal.p = cur THEN "shown" ELSE "asked"
Verdict == IF Asking THEN prompts[cur].answer ELSE "none"

\* The same phase and verdict before and after is a stutter of Prompting.
LEMMA Stutters ==
  ASSUME Phase' = Phase, Verdict' = Verdict
  PROVE  UNCHANGED P!vars
  BY DEF P!vars, Phase, Verdict

\* The worker's question once it is answered.
LEMMA Answers ==
  ASSUME IInv, Waiting, NEW a \in {"no", "yes"}, prompts' = Answered(cur, a), UNCHANGED <<wpc, cur>>
  PROVE  Asking' /\ ~Waiting' /\ prompts'[cur'].answer = a
  <1>1. cur \in Prompts
    BY DEF Waiting, IInv, PromptsSound
  <1>2. prompts'[cur] = [life |-> prompts[cur].life, answer |-> a, answers |-> prompts[cur].answers + 1]
    BY <1>1, AnsweredType DEF IInv
  <1> QED
    BY <1>2 DEF Waiting, Asking

LEMMA StepRefines ==
  ASSUME IInv, [Next]_vars
  PROVE  [P!Next]_(P!vars)
  <1> USE DEF Phase, Verdict
  <1>0. IInv' /\ (WorkerKind \/ UiKind)
    BY Inductive
  <1>1. CASE Quiet
    <2>1. Waiting' <=> Waiting
      BY <1>1 DEF Quiet, Waiting
    <2> QED
      BY <1>1, <2>1, Stutters DEF Quiet
  <1>2. CASE Tells
    BY <1>2, Stutters DEF Tells
  <1>3. CASE Asks
    <2>1. PICK k \in RoundTrips, pc \in {"approving", "asking"} : PushPrompt(k, pc)
      BY <1>3 DEF Asks
    <2>2. /\ cur' = cur + 1 /\ cur < MaxPrompts /\ wpc' = pc /\ UNCHANGED <<upc, modal>>
          /\ prompts' = [prompts EXCEPT ![cur + 1].life = "live"]
      BY <2>1 DEF PushPrompt, Goto, NotUi, ui
    <2>3. cur + 1 \in Prompts /\ cur + 1 > cur /\ cur \in Nat /\ modal.p \in Nat /\ prompts \in [Prompts -> Prompt]
      BY <2>2, Shapes DEF IInv
    <2>4. prompts[cur + 1].answer = "none"
      BY <2>3 DEF IInv, PromptsSound
    <2>5. Asking' /\ ~Asking /\ prompts'[cur'].answer = "none"
      BY <1>3, <2>2, <2>3, <2>4 DEF Asks, Asking, Prompt
    <2>6. modal'.p # cur'
      BY <2>2, <2>3, <2>5 DEF IInv, ModalSound, Waiting
    <2>7. Phase = "none" /\ Phase' = "asked" /\ Verdict = "none" /\ Verdict' = "none"
      BY <2>5, <2>6 DEF Waiting
    <2> QED
      BY <2>7 DEF P!Next, P!Ask
  <1>4. CASE GoesOn
    <2>1. Phase = "answered" /\ Phase' = "none" /\ Verdict' = "none"
      BY <1>4 DEF GoesOn
    <2> QED
      BY <2>1 DEF P!Next, P!GoOn
  <1>5. CASE Handles
    <2>1. UNCHANGED <<wpc, cur, prompts>> /\ modal'.p = modal.p
      BY <1>5 DEF Handles, Pops, NoModal, OtherModal
    <2>2. (Asking' <=> Asking) /\ (Waiting' <=> Waiting)
      BY <2>1 DEF Asking, Waiting
    <2> QED
      BY <2>1, <2>2, Stutters
  <1>6. CASE Shows
    <2>1. Waiting /\ Head(evs).p = cur /\ modal.p = 0 /\ cur # 0
      BY <1>6, FromRing DEF Shows
    <2>2. UNCHANGED <<wpc, cur, prompts>> /\ modal'.p = cur'
      BY <1>6, <2>1 DEF Shows, Pops
    <2>3. Asking /\ Asking' /\ Waiting'
      BY <2>1, <2>2 DEF Asking, Waiting
    <2>4. Phase = "asked" /\ Phase' = "shown" /\ Verdict' = Verdict
      BY <2>1, <2>2, <2>3
    <2> QED
      BY <2>4 DEF P!Next, P!Show
  <1>7. CASE Refuses
    <2>1. Waiting /\ Head(evs).p = cur /\ modal.p = 0 /\ cur # 0
      BY <1>7, FromRing DEF Refuses
    <2>2. prompts' = Answered(cur, "no") /\ UNCHANGED <<wpc, cur>>
      BY <1>7, <2>1 DEF Refuses, Pops
    <2>3. Phase = "asked" /\ Phase' = "answered" /\ Verdict' = "no"
      BY <2>1, <2>2, Answers DEF Waiting
    <2> QED
      BY <2>3 DEF P!Next, P!Decline
  <1>8. CASE Decides
    <2>1. Waiting /\ modal.p = cur
      BY <1>8, FromDialog DEF Decides
    <2>2. PICK a \in {"no", "yes"} : prompts' = Answered(cur, a) /\ UNCHANGED <<wpc, cur>>
      BY <1>8, <2>1 DEF Decides
    <2>3. Phase = "shown" /\ Phase' = "answered" /\ Verdict' = a
      BY <2>1, <2>2, Answers DEF Waiting
    <2> QED
      BY <2>3 DEF P!Next, P!Decide
  <1>9. CASE Commits
    <2>1. UNCHANGED <<wpc, cur, prompts>> /\ modal'.p = 0
      BY <1>9 DEF Commits, NoModal
    <2>2. (Asking' <=> Asking) /\ (Waiting' <=> Waiting)
      BY <2>1 DEF Asking, Waiting
    <2>3. Waiting => modal.p # cur /\ cur # 0
      BY <1>9, Shapes DEF Commits, IInv, ModalSound, PromptsSound, Waiting
    <2> QED
      BY <2>1, <2>2, <2>3, Stutters
  <1>10. CASE Closes
    <2>1. CASE modal.kind \in RoundTrips
      <3>1. Waiting /\ modal.p = cur
        BY <1>10, <2>1, FromDialog DEF Closes
      <3>2. prompts' = Answered(cur, "no") /\ UNCHANGED <<wpc, cur>>
        BY <1>10, <2>1, <3>1 DEF Closes, Declined
      <3>3. Phase = "shown" /\ Phase' = "answered" /\ Verdict' = "no"
        BY <3>1, <3>2, Answers DEF Waiting
      <3> QED
        BY <3>3 DEF P!Next, P!Decline
    <2>2. CASE modal.kind \notin RoundTrips
      <3>1. UNCHANGED <<wpc, cur, prompts>> /\ modal.p = 0 /\ modal'.p = 0
        BY <1>10, <2>2 DEF Closes, Declined, IInv, ModalSound, NoModal, OtherModal
      <3>2. (Asking' <=> Asking) /\ (Waiting' <=> Waiting)
        BY <3>1 DEF Asking, Waiting
      <3> QED
        BY <3>1, <3>2, Stutters
    <2> QED
      BY <2>1, <2>2
  <1> QED
    BY <1>0, <1>1, <1>2, <1>3, <1>4, <1>5, <1>6, <1>7, <1>8, <1>9, <1>10 DEF WorkerKind, UiKind

\* The worker, the UI thread and their rings keep the promise about questions:
\* one at a time, one answer each, and "yes" only of a question that was shown.
THEOREM PromiseKept == Spec => KeepsPromise
  <1>1. Init => P!Init
    BY DEF Init, P!Init, Asking
  <1>2. IInv /\ [Next]_vars => [P!Next]_(P!vars)
    BY StepRefines
  <1> QED
    BY Invariance, <1>1, <1>2, PTL DEF Spec, KeepsPromise, P!Spec

-----------------------------------------------------------------------------
(* The agent                                                               *)

\* But for the moment in which a "new" job replaces it, the agent is alive.
AgentSound ==
  /\ wpc \notin {"null", "build"} => agent.state = "live"
  /\ OnlyNewLosesAgent

Agents == [state : {"live", "freed", "null"}, hooks : BOOLEAN, cancel : BOOLEAN]

LEMMA WorkerAgent ==
  ASSUME TypeOK, AgentSound, ~fault, Worker
  PROVE  AgentSound'
  <1> USE DEF AgentSound, OnlyNewLosesAgent, At, Goto, NotUi
  <1>0. agent \in Agents
    BY DEF TypeOK, Agents
  <1>1. CASE BeginRun
    <2>1. agent'.state = agent.state
      BY <1>0, <1>1 DEF BeginRun, Agents
    <2> QED
      BY <1>1, <2>1 DEF BeginRun
  <1>2. CASE DestroyAgent
    BY <1>2 DEF DestroyAgent
  <1>3. CASE ClearAgent
    BY <1>3 DEF ClearAgent
  <1>4. CASE BuildAgent
    BY <1>4 DEF BuildAgent
  <1>5. CASE TakeJob
    <2>1. Head(jobs) \in JobKinds \cup {"quit"}
      BY <1>5 DEF TakeJob, TypeOK
    <2>2. JobStart(Head(jobs)) \notin {"null", "build"}
      BY <2>1 DEF JobStart, JobKinds
    <2> QED
      BY <1>5, <2>2 DEF TakeJob
  <1>6. CASE WriteWake
    BY <1>6 DEF WriteWake
  <1>7. CASE Stop
    BY <1>7 DEF Stop
  <1>8. CASE CallModel
    BY <1>8 DEF CallModel
  <1>9. CASE Response
    BY <1>9 DEF Response
  <1>10. CASE CallsDone
    BY <1>10 DEF CallsDone
  <1>11. CASE SkipCall
    BY <1>11 DEF SkipCall
  <1>12. CASE NoApprovalNeeded
    BY <1>12 DEF NoApprovalNeeded
  <1>13. CASE Execute
    BY <1>13 DEF Execute
  <1>14. CASE EndRun
    BY <1>14 DEF EndRun
  <1>15. CASE SetBusy
    BY <1>15 DEF SetBusy
  <1>16. CASE Fork
    BY <1>16 DEF Fork
  <1>17. CASE Chunk
    BY <1>17 DEF Chunk
  <1>18. CASE Denied
    BY <1>18 DEF Denied
  <1>19. CASE Seal
    BY <1>19 DEF Seal
  <1>20. CASE Shell
    BY <1>20 DEF Shell
  <1>21. CASE ShellEnd
    BY <1>21 DEF ShellEnd
  <1>22. CASE Title
    BY <1>22 DEF Title
  <1>23. CASE ToolStart
    BY <1>23 DEF ToolStart
  <1>24. CASE ToolEnd
    BY <1>24 DEF ToolEnd
  <1>25. CASE Flush
    BY <1>25 DEF Flush
  <1>26. CASE TellSession
    BY <1>26 DEF TellSession
  <1>27. CASE Report
    BY <1>27 DEF Report
  <1>28. CASE AskApproval
    BY <1>28 DEF AskApproval, PushPrompt
  <1>29. CASE AskUser
    BY <1>29 DEF AskUser, PushPrompt
  <1>30. CASE GetApproval
    BY <1>30 DEF GetApproval
  <1>31. CASE GetAnswer
    BY <1>31 DEF GetAnswer
  <1> QED
    BY <1>1, <1>2, <1>3, <1>4, <1>5, <1>6, <1>7, <1>8, <1>9, <1>10, <1>11, <1>12,
       <1>13, <1>14, <1>15, <1>16, <1>17, <1>18, <1>19, <1>20, <1>21, <1>22, <1>23, <1>24,
       <1>25, <1>26, <1>27, <1>28, <1>29, <1>30, <1>31 DEF Worker

LEMMA UiAgent ==
  ASSUME TypeOK, AgentSound, ~fault, Ui
  PROVE  AgentSound'
  <1> USE DEF AgentSound, OnlyNewLosesAgent, Tui, NotWorker, worker
  <1>1. CASE Cancel
    <2>1. agent \in Agents
      BY DEF TypeOK, Agents
    <2>2. agent.state = "live" => agent'.state = "live"
      BY <1>1, <2>1 DEF Cancel, CancelThen, Agents
    <2>3. agent.state # "live" => agent' = agent
      BY <1>1 DEF Cancel, CancelThen
    <2>4. wpc' = wpc /\ (fault' => agent.state # "live")
      BY <1>1 DEF Cancel, CancelThen
    <2> QED
      BY <2>2, <2>3, <2>4
  <1>2. CASE Poll
    BY <1>2 DEF Poll
  <1>3. CASE HandleEvent
    BY <1>3 DEF HandleEvent
  <1>4. CASE HandleQuestion
    BY <1>4 DEF HandleQuestion
  <1>5. CASE RingEmpty
    BY <1>5 DEF RingEmpty
  <1>6. CASE DrainWake
    BY <1>6 DEF DrainWake
  <1>7. CASE PushJob
    BY <1>7 DEF PushJob
  <1>8. CASE Commit
    BY <1>8 DEF Commit
  <1>9. CASE \E k \in Jobs : Submit(k)
    BY <1>9 DEF Submit
  <1>10. CASE Notice
    BY <1>10 DEF Notice
  <1>11. CASE CancelRun
    BY <1>11 DEF CancelRun
  <1>12. CASE OpenDialog
    BY <1>12 DEF OpenDialog
  <1>13. CASE CloseDialog
    BY <1>13 DEF CloseDialog
  <1>14. CASE \E a \in {"no", "yes"} : Decide(a)
    BY <1>14 DEF Decide
  <1>15. CASE CtrlC
    BY <1>15 DEF CtrlC
  <1>16. CASE Leave
    BY <1>16 DEF Leave
  <1>17. CASE CloseModal
    BY <1>17 DEF CloseModal
  <1>18. CASE LookBusy
    BY <1>18 DEF LookBusy
  <1>19. CASE DropJobs
    BY <1>19 DEF DropJobs
  <1>20. CASE AnswerQueued
    BY <1>20 DEF AnswerQueued
  <1>21. CASE PushQuit
    BY <1>21 DEF PushQuit
  <1>22. CASE Join
    BY <1>22 DEF Join
  <1> QED
    BY <1>1, <1>2, <1>3, <1>4, <1>5, <1>6, <1>7, <1>8, <1>9, <1>10, <1>11, <1>12,
       <1>13, <1>14, <1>15, <1>16, <1>17, <1>18, <1>19, <1>20, <1>21, <1>22 DEF Ui, Keys, Quit

\* A cancel (tui_worker_cancel, the signal handler, tui_worker_destroy) reaches
\* a live agent, unless job_new is between agent_destroy and the new agent.
THEOREM CancelFindsAgent == Spec => []OnlyNewLosesAgent
  <1>1. Init => AgentSound
    BY DEF Init, AgentSound, OnlyNewLosesAgent
  <1>2. TypeOK /\ AgentSound /\ [Next]_vars => AgentSound'
    <2> SUFFICES ASSUME TypeOK, AgentSound, [Next]_vars PROVE AgentSound'
      OBVIOUS
    <2>1. CASE Next
      BY <2>1, WorkerAgent, UiAgent DEF Next
    <2>2. CASE UNCHANGED vars
      BY <2>2 DEF vars, worker, AgentSound, OnlyNewLosesAgent
    <2> QED
      BY <2>1, <2>2
  <1>3. AgentSound => OnlyNewLosesAgent
    BY DEF AgentSound
  <1> QED
    BY TypeCorrect, <1>1, <1>2, <1>3, PTL DEF Spec

-----------------------------------------------------------------------------
(* The chat is quiet when the worker is                                    *)

\* What a thing that is shown, or will be once the ring is handled, waits for:
\* an event that ends it stands further back in the ring, or is still to come.
Settled(q, shown, opens, ends, owed) ==
  /\ shown => owed \/ \E i \in 1 .. Len(q) : q[i].kind \in ends
  /\ \A i \in 1 .. Len(q) :
       q[i].kind \in opens => owed \/ \E j \in (i + 1) .. Len(q) : q[j].kind \in ends

EndsText == {"done", "error", "fork", "history"}

\* The worker has yet to say how the run ended.
OwesText ==
  wpc \in {"reset", "turn", "stream", "streamed", "titling", "tool", "approving", "denied",
           "execute", "executing", "asking", "toolEnd", "ended", "flush", "seal"}

\* The worker has yet to say that the tool ended.
OwesTool == wpc = "shellEnd" \/ (wpc \in {"executing", "asking", "toolEnd"} /\ agent.hooks)

TextSettled == Settled(evs, chat.open, {"chunk"}, EndsText, OwesText)
ToolSettled == Settled(evs, chat.tool, {"start"}, {"end"}, OwesTool)

QuietInv == upc \notin Quitting => TextSettled /\ ToolSettled

\* An event is pushed.
LEMMA PushSettles ==
  ASSUME NEW q \in Seq(Event), NEW e \in Event, NEW opens, NEW ends,
         NEW shown \in BOOLEAN, NEW owed \in BOOLEAN, NEW owed2 \in BOOLEAN,
         Settled(q, shown, opens, ends, owed),
         e.kind \in opens => owed2,
         owed => owed2 \/ e.kind \in ends
  PROVE  Settled(Append(q, e), shown, opens, ends, owed2)
  <1>1. /\ Len(q) \in Nat /\ Len(Append(q, e)) = Len(q) + 1
        /\ Append(q, e)[Len(q) + 1] = e
        /\ \A i \in 1 .. Len(q) : Append(q, e)[i] = q[i]
    OBVIOUS
  <1> DEFINE r == Append(q, e)
  <1> HIDE DEF r
  <1>2. ASSUME shown, ~owed2 PROVE \E i \in 1 .. Len(r) : r[i].kind \in ends
    <2>1. CASE owed
      BY <1>1, <1>2, <2>1 DEF r
    <2>2. CASE ~owed
      <3>1. PICK i \in 1 .. Len(q) : q[i].kind \in ends
        BY <1>2, <2>2 DEF Settled
      <3> QED
        BY <1>1, <3>1 DEF r
    <2> QED
      BY <2>1, <2>2
  <1>3. ASSUME NEW i \in 1 .. Len(r), r[i].kind \in opens, ~owed2
        PROVE  \E j \in (i + 1) .. Len(r) : r[j].kind \in ends
    <2>1. i \in 1 .. Len(q) /\ q[i].kind \in opens
      BY <1>1, <1>3 DEF r
    <2>2. CASE owed
      BY <1>1, <1>3, <2>1, <2>2 DEF r
    <2>3. CASE ~owed
      <3>1. PICK j \in (i + 1) .. Len(q) : q[j].kind \in ends
        BY <2>1, <2>3 DEF Settled
      <3> QED
        BY <1>1, <2>1, <3>1 DEF r
    <2> QED
      BY <2>2, <2>3
  <1>4. Settled(r, shown, opens, ends, owed2)
    BY <1>2, <1>3 DEF Settled
  <1> QED
    BY <1>4 DEF r

\* The first event is handled: it may show the thing, or end it.
LEMMA PopSettles ==
  ASSUME NEW q \in Seq(Event), q # <<>>, NEW opens, NEW ends,
         NEW shown \in BOOLEAN, NEW owed \in BOOLEAN, NEW shown2 \in BOOLEAN,
         Settled(q, shown, opens, ends, owed),
         shown2 => Head(q).kind \in opens \/ (shown /\ Head(q).kind \notin ends)
  PROVE  Settled(Tail(q), shown2, opens, ends, owed)
  <1>1. /\ Len(q) \in Nat \ {0} /\ Len(Tail(q)) = Len(q) - 1 /\ Head(q) = q[1]
        /\ \A i \in 1 .. Len(q) - 1 : Tail(q)[i] = q[i + 1]
    OBVIOUS
  <1> DEFINE r == Tail(q)
  <1> HIDE DEF r
  <1>2. ASSUME NEW i \in 1 .. Len(q), q[i].kind \in opens, ~owed
        PROVE  \E j \in i .. Len(r) : r[j].kind \in ends
    <2>1. PICK j \in (i + 1) .. Len(q) : q[j].kind \in ends
      BY <1>2 DEF Settled
    <2>2. j - 1 \in i .. Len(r) /\ j - 1 \in 1 .. Len(q) - 1 /\ (j - 1) + 1 = j
      BY <1>1, <2>1 DEF r
    <2>3. r[j - 1] = q[(j - 1) + 1]
      BY <1>1, <2>2 DEF r
    <2> QED
      BY <2>1, <2>2, <2>3
  <1>3. ASSUME shown2, ~owed PROVE \E i \in 1 .. Len(r) : r[i].kind \in ends
    <2>1. CASE Head(q).kind \in opens
      BY <1>1, <1>2, <1>3, <2>1
    <2>2. CASE shown /\ Head(q).kind \notin ends
      <3>1. PICK j \in 1 .. Len(q) : q[j].kind \in ends
        BY <1>3, <2>2 DEF Settled
      <3>2. j # 1
        BY <1>1, <2>2, <3>1
      <3>3. j - 1 \in 1 .. Len(r) /\ j - 1 \in 1 .. Len(q) - 1 /\ (j - 1) + 1 = j
        BY <1>1, <3>1, <3>2 DEF r
      <3>4. r[j - 1] = q[(j - 1) + 1]
        BY <1>1, <3>3 DEF r
      <3> QED
        BY <3>1, <3>3, <3>4
    <2> QED
      BY <1>3, <2>1, <2>2
  <1>4. ASSUME NEW i \in 1 .. Len(r), r[i].kind \in opens, ~owed
        PROVE  \E j \in (i + 1) .. Len(r) : r[j].kind \in ends
    <2>1. i + 1 \in 1 .. Len(q) /\ r[i] = q[i + 1]
      BY <1>1 DEF r
    <2> QED
      BY <1>2, <1>4, <2>1
  <1>5. Settled(r, shown2, opens, ends, owed)
    BY <1>3, <1>4 DEF Settled
  <1> QED
    BY <1>5 DEF r

\* No event comes or goes.
LEMMA StaysSettled ==
  ASSUME NEW q, NEW opens, NEW ends, NEW shown \in BOOLEAN, NEW shown2 \in BOOLEAN,
         NEW owed \in BOOLEAN, NEW owed2 \in BOOLEAN,
         Settled(q, shown, opens, ends, owed), shown2 => shown, owed => owed2
  PROVE  Settled(q, shown2, opens, ends, owed2)
  BY DEF Settled

\* A push of the worker pays what it owes, and a thing is only begun by a worker
\* that will end it.
Pays(k) ==
  /\ k = "chunk" => OwesText'
  /\ OwesText => OwesText' \/ k \in EndsText
  /\ k = "start" => OwesTool'
  /\ OwesTool => OwesTool' \/ k = "end"

WorkerPays ==
  \/ UNCHANGED evs /\ (OwesText => OwesText') /\ (OwesTool => OwesTool')
  \/ \E k \in Kinds \cup RoundTrips, p \in 0 .. MaxPrompts :
       evs' = Append(evs, [kind |-> k, p |-> p]) /\ Pays(k)

\* Every action of the worker pays.
LEMMA WorkerSettles ==
  ASSUME TypeOK, Worker
  PROVE  WorkerPays /\ UNCHANGED <<upc, chat>>
  <1> USE DEF At, Goto, NotUi, ui, Silent, ring, WorkerPays, OwesText, OwesTool, Pays
  <1>0. 0 \in 0 .. MaxPrompts
    BY RingsHoldSomething
  <1>1. CASE WriteWake
    BY <1>1 DEF WriteWake
  <1>2. CASE TakeJob
    BY <1>2 DEF TakeJob
  <1>3. CASE Stop
    BY <1>3 DEF Stop
  <1>4. CASE CallModel
    BY <1>4 DEF CallModel
  <1>5. CASE Response
    BY <1>5 DEF Response
  <1>6. CASE CallsDone
    BY <1>6 DEF CallsDone
  <1>7. CASE SkipCall
    BY <1>7 DEF SkipCall
  <1>8. CASE NoApprovalNeeded
    BY <1>8 DEF NoApprovalNeeded
  <1>9. CASE Execute
    BY <1>9 DEF Execute
  <1>10. CASE EndRun
    BY <1>10 DEF EndRun
  <1>11. CASE DestroyAgent
    BY <1>11 DEF DestroyAgent
  <1>12. CASE ClearAgent
    BY <1>12 DEF ClearAgent
  <1>13. CASE BuildAgent
    BY <1>13 DEF BuildAgent
  <1>14. CASE SetBusy
    BY <1>14 DEF SetBusy
  <1>15. CASE BeginRun
    BY <1>15 DEF BeginRun
  <1>16. CASE Fork
    BY <1>0, <1>16 DEF Fork, Push, Kinds
  <1>17. CASE Chunk
    BY <1>0, <1>17 DEF Chunk, Push, Kinds
  <1>18. CASE Title
    BY <1>0, <1>18 DEF Title, Push, Kinds
  <1>19. CASE Denied
    BY <1>0, <1>19 DEF Denied, Push, Kinds
  <1>20. CASE ToolStart
    BY <1>0, <1>20 DEF ToolStart, Push, Kinds
  <1>21. CASE ToolEnd
    BY <1>0, <1>21 DEF ToolEnd, Push, Kinds
  <1>22. CASE Flush
    BY <1>0, <1>22 DEF Flush, Push, Kinds
  <1>23. CASE Seal
    BY <1>0, <1>23 DEF Seal, Push, Kinds, EndsText
  <1>24. CASE TellSession
    BY <1>0, <1>24 DEF TellSession, Push, Kinds
  <1>25. CASE Shell
    BY <1>0, <1>25 DEF Shell, Push, Kinds
  <1>26. CASE ShellEnd
    BY <1>0, <1>26 DEF ShellEnd, Push, Kinds
  <1>27. CASE Report
    BY <1>0, <1>27 DEF Report, Push, Kinds
  <1>28. CASE AskApproval
    <2>1. cur + 1 \in 0 .. MaxPrompts
      BY <1>28, RingsHoldSomething DEF AskApproval, PushPrompt, TypeOK
    <2> QED
      BY <1>28, <2>1 DEF AskApproval, PushPrompt, Push, RoundTrips
  <1>29. CASE AskUser
    <2>1. cur + 1 \in 0 .. MaxPrompts
      BY <1>29, RingsHoldSomething DEF AskUser, PushPrompt, TypeOK
    <2> QED
      BY <1>29, <2>1 DEF AskUser, PushPrompt, Push, RoundTrips
  <1>30. CASE GetApproval
    BY <1>30 DEF GetApproval
  <1>31. CASE GetAnswer
    BY <1>31 DEF GetAnswer
  <1> QED
    BY <1>1, <1>2, <1>3, <1>4, <1>5, <1>6, <1>7, <1>8, <1>9, <1>10, <1>11, <1>12,
       <1>13, <1>14, <1>15, <1>16, <1>17, <1>18, <1>19, <1>20, <1>21, <1>22, <1>23, <1>24,
       <1>25, <1>26, <1>27, <1>28, <1>29, <1>30, <1>31 DEF Worker

\* The UI thread begins nothing but by an event that says so, and what it cuts
\* short it closes.
UiClears ==
  \/ /\ UNCHANGED evs
     /\ chat'.open => chat.open
     /\ chat'.tool => chat.tool
  \/ /\ evs # <<>> /\ evs' = Tail(evs)
     /\ chat' = Shown(Head(evs).kind)

\* Every action of the UI thread that does not leave the program clears.
LEMMA UiSettles ==
  ASSUME TypeOK, Ui, upc' \notin Quitting
  PROVE  /\ UiClears /\ upc \notin Quitting
         /\ UNCHANGED wpc /\ agent'.hooks = agent.hooks
  <1> USE DEF In, Then, Tui, NotWorker, worker, Rings, ring, Quitting, UiClears
  <1>1. CASE Cancel
    <2>1. agent \in Agents
      BY DEF TypeOK, Agents
    <2>2. agent'.hooks = agent.hooks
      BY <1>1, <2>1 DEF Cancel, CancelThen, Agents
    <2> QED
      BY <1>1, <2>2 DEF Cancel, CancelThen
  <1>2. CASE Poll
    BY <1>2 DEF Poll
  <1>3. CASE HandleEvent
    BY <1>3 DEF HandleEvent
  <1>4. CASE HandleQuestion
    BY <1>4 DEF HandleQuestion, RoundTrips, Shown
  <1>5. CASE RingEmpty
    BY <1>5 DEF RingEmpty
  <1>6. CASE DrainWake
    BY <1>6 DEF DrainWake
  <1>7. CASE PushJob
    BY <1>7 DEF PushJob
  <1>8. CASE Commit
    BY <1>8 DEF Commit
  <1>9. CASE \E k \in Jobs : Submit(k)
    BY <1>9 DEF Submit, TypeOK, Chat
  <1>10. CASE Notice
    BY <1>10 DEF Notice, TypeOK, Chat
  <1>11. CASE CancelRun
    BY <1>11 DEF CancelRun
  <1>12. CASE OpenDialog
    BY <1>12 DEF OpenDialog
  <1>13. CASE CloseDialog
    BY <1>13 DEF CloseDialog
  <1>14. CASE \E a \in {"no", "yes"} : Decide(a)
    BY <1>14 DEF Decide
  <1>15. CASE CtrlC
    BY <1>15 DEF CtrlC
  <1>16. CASE Leave
    BY <1>16 DEF Leave
  <1>17. CASE CloseModal
    BY <1>17 DEF CloseModal
  <1>18. CASE LookBusy
    BY <1>18 DEF LookBusy
  <1>19. CASE DropJobs
    BY <1>19 DEF DropJobs
  <1>20. CASE AnswerQueued
    BY <1>20 DEF AnswerQueued
  <1>21. CASE PushQuit
    BY <1>21 DEF PushQuit
  <1>22. CASE Join
    BY <1>22 DEF Join
  <1> QED
    BY <1>1, <1>2, <1>3, <1>4, <1>5, <1>6, <1>7, <1>8, <1>9, <1>10, <1>11, <1>12,
       <1>13, <1>14, <1>15, <1>16, <1>17, <1>18, <1>19, <1>20, <1>21, <1>22 DEF Ui, Keys, Quit

\* What the chat pane shows after an event.
LEMMA ShownEnds ==
  ASSUME TypeOK, NEW k
  PROVE  /\ Shown(k).open \in BOOLEAN /\ Shown(k).tool \in BOOLEAN
         /\ Shown(k).open => k = "chunk" \/ (chat.open /\ k \notin EndsText)
         /\ Shown(k).tool => k = "start" \/ (chat.tool /\ k # "end")
  <1>1. chat \in Chat
    BY DEF TypeOK
  <1> QED
    BY <1>1 DEF Shown, Chat, EndsText

\* The chat stays settled.
LEMMA SettledInductive ==
  ASSUME TypeOK, TypeOK', QuietInv, [Next]_vars
  PROVE  QuietInv'
  <1> SUFFICES ASSUME upc' \notin Quitting PROVE TextSettled' /\ ToolSettled'
    BY DEF QuietInv
  <1>0. /\ evs \in Seq(Event) /\ chat.open \in BOOLEAN /\ chat.tool \in BOOLEAN
        /\ chat'.open \in BOOLEAN /\ chat'.tool \in BOOLEAN
        /\ OwesText \in BOOLEAN /\ OwesTool \in BOOLEAN
        /\ OwesText' \in BOOLEAN /\ OwesTool' \in BOOLEAN
    BY DEF TypeOK, Chat, OwesText, OwesTool
  <1>1. CASE Worker
    <2>0. WorkerPays /\ chat' = chat /\ TextSettled /\ ToolSettled
      BY <1>1, WorkerSettles DEF QuietInv
    <2>1. CASE UNCHANGED evs /\ (OwesText => OwesText') /\ (OwesTool => OwesTool')
      BY <1>0, <2>0, <2>1, StaysSettled DEF TextSettled, ToolSettled
    <2>2. CASE \E k \in Kinds \cup RoundTrips, p \in 0 .. MaxPrompts :
                 evs' = Append(evs, [kind |-> k, p |-> p]) /\ Pays(k)
      <3>1. PICK k \in Kinds \cup RoundTrips, p \in 0 .. MaxPrompts :
              evs' = Append(evs, [kind |-> k, p |-> p]) /\ Pays(k)
        BY <2>2
      <3> DEFINE e == [kind |-> k, p |-> p]
      <3>2. e \in Event /\ e.kind = k /\ evs' = Append(evs, e)
        BY <3>1 DEF Event, Kinds
      <3> HIDE DEF e
      <3>3. TextSettled'
        BY <1>0, <2>0, <3>1, <3>2, PushSettles DEF TextSettled, Pays
      <3>4. ToolSettled'
        BY <1>0, <2>0, <3>1, <3>2, PushSettles DEF ToolSettled, Pays
      <3> QED
        BY <3>3, <3>4
    <2> QED
      BY <2>0, <2>1, <2>2 DEF WorkerPays
  <1>2. CASE Ui
    <2>0. UiClears /\ TextSettled /\ ToolSettled
      BY <1>2, UiSettles DEF QuietInv
    <2>1. (OwesText' <=> OwesText) /\ (OwesTool' <=> OwesTool)
      BY <1>2, UiSettles DEF OwesText, OwesTool
    <2>2. CASE UNCHANGED evs /\ (chat'.open => chat.open) /\ (chat'.tool => chat.tool)
      BY <1>0, <2>0, <2>1, <2>2, StaysSettled DEF TextSettled, ToolSettled
    <2>3. CASE evs # <<>> /\ evs' = Tail(evs) /\ chat' = Shown(Head(evs).kind)
      <3>1. /\ chat'.open => Head(evs).kind = "chunk" \/ (chat.open /\ Head(evs).kind \notin EndsText)
            /\ chat'.tool => Head(evs).kind = "start" \/ (chat.tool /\ Head(evs).kind # "end")
        BY <2>3, ShownEnds
      <3>2. Settled(Tail(evs), chat'.open, {"chunk"}, EndsText, OwesText)
        BY <1>0, <2>0, <2>3, <3>1, PopSettles DEF TextSettled
      <3>3. Settled(Tail(evs), chat'.tool, {"start"}, {"end"}, OwesTool)
        BY <1>0, <2>0, <2>3, <3>1, PopSettles DEF ToolSettled
      <3> QED
        BY <1>0, <2>1, <2>3, <3>2, <3>3 DEF TextSettled, ToolSettled
    <2> QED
      BY <2>0, <2>2, <2>3 DEF UiClears
  <1>3. CASE UNCHANGED vars
    <2>1. UNCHANGED <<evs, chat, wpc, agent, upc>>
      BY <1>3 DEF vars, ring, worker, ui
    <2> QED
      BY <2>1 DEF QuietInv, TextSettled, ToolSettled, OwesText, OwesTool
  <1> QED
    BY <1>1, <1>2, <1>3 DEF Next

\* With the worker idle and its events handled, no block of the chat takes text
\* and no tool is shown as running (finish_stream_run, worker_tool_end,
\* handle_event), whatever the run did and whenever it was cancelled.
THEOREM ChatComesToRest == Spec => []QuietWhenIdle
  <1>1. Init => QuietInv
    BY DEF Init, QuietInv, TextSettled, ToolSettled, Settled
  <1>2. TypeOK /\ TypeOK' /\ QuietInv /\ [Next]_vars => QuietInv'
    BY SettledInductive
  <1>3. QuietInv => QuietWhenIdle
    <2> SUFFICES ASSUME QuietInv, wpc = "idle", evs = <<>>, upc \notin Quitting
                 PROVE  ~chat.open /\ ~chat.tool
      BY DEF QuietWhenIdle
    <2>1. ~OwesText /\ ~OwesTool /\ Len(evs) = 0 /\ TextSettled /\ ToolSettled
      BY DEF OwesText, OwesTool, QuietInv
    <2> QED
      BY <2>1 DEF TextSettled, ToolSettled, Settled
  <1> QED
    BY TypeCorrect, <1>1, <1>2, <1>3, PTL DEF Spec
=============================================================================

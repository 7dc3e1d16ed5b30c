---------------------------- MODULE WsChatProofs ----------------------------
(***************************************************************************)
(* Proofs that the safety properties of WsChat hold for any number of      *)
(* connections, nested runs, tool calls, requests and logouts.             *)
(***************************************************************************)
EXTENDS WsChat, TLAPS, FiniteSetTheorems, SequenceTheorems

-----------------------------------------------------------------------------
(* The inductive invariant                                                 *)

\* The places of the runs of a connection on a stack.
RunsOf(s, c) == {i \in 1 .. Len(s) : s[i].conn = c}

\* active_runs counts the runs.
Counted == \A c \in Conns : ctx[c].runs = Cardinality(RunsOf(stack, c))

\* Two runs of one connection mean that it overlapped.
Alone ==
  \A i, j \in 1 .. Len(stack) :
    stack[i].conn = stack[j].conn => (i = j \/ overlapped[stack[i].conn])

\* The life of a context.
Lives ==
  /\ \A c \in Conns :
       /\ ctx[c].open => ctx[c].life = "live" /\ ~ctx[c].closing
       /\ ctx[c].life = "none" => ~ctx[c].closing
  /\ \A i \in 1 .. Len(stack) : ctx[stack[i].conn].life # "none"

\* A run that waits for an approval waits for the pending one, and the result
\* kept is the answer to the pending one.
Waits ==
  \A i \in 1 .. Len(stack) :
    stack[i].step = "approval" =>
      /\ stack[i].id \in Requests
      /\ stack[i].id = ctx[stack[i].conn].pending \/ overlapped[stack[i].conn]

\* A run waits for the sake of a tool call.
Busy ==
  \A i \in 1 .. Len(stack) : stack[i].step \in {"approval", "ask"} => stack[i].calls > 0

Answers == \A c \in Conns : ctx[c].result => ctx[c].pending \in approved

\* Who is gone or logged out has no approval left, and his runs are cancelled.
Gone ==
  \A c \in Conns :
    (ctx[c].life = "live" /\ (~ctx[c].open \/ ~Valid(c))) =>
      ~ctx[c].result /\ ctx[c].cancel

IInv ==
  /\ TypeOK
  /\ Counted
  /\ Alone
  /\ ContextOutlivesRuns
  /\ Lives
  /\ Waits
  /\ Busy
  /\ Answers
  /\ Gone
  /\ OwnApproval

-----------------------------------------------------------------------------
(* The stack                                                               *)

\* The runs of a connection are finitely many.
LEMMA FiniteRuns ==
  ASSUME NEW s \in Seq(Frame), NEW c
  PROVE  /\ IsFiniteSet(RunsOf(s, c))
         /\ Cardinality(RunsOf(s, c)) \in Nat
         /\ Cardinality(RunsOf(s, c)) = 0 <=> RunsOf(s, c) = {}
<1>1. Len(s) \in Nat
  BY LenProperties
<1>2. IsFiniteSet(1 .. Len(s))
  BY <1>1, FS_Interval
<1>3. IsFiniteSet(RunsOf(s, c))
  BY <1>2, FS_Subset DEF RunsOf
<1>. QED
  BY <1>3, FS_EmptySet, FS_CardinalityType

\* A run that starts adds one place.
LEMMA Push ==
  ASSUME NEW s \in Seq(Frame), NEW f \in Frame
  PROVE  /\ Append(s, f) \in Seq(Frame)
         /\ Len(Append(s, f)) = Len(s) + 1
         /\ \A i \in 1 .. Len(s) : Append(s, f)[i] = s[i]
         /\ Append(s, f)[Len(s) + 1] = f
         /\ \A c : Cardinality(RunsOf(Append(s, f), c))
                     = Cardinality(RunsOf(s, c)) + IF f.conn = c THEN 1 ELSE 0
<1>1. /\ Len(s) \in Nat
      /\ Append(s, f) \in Seq(Frame)
      /\ Len(Append(s, f)) = Len(s) + 1
      /\ \A i \in 1 .. Len(s) : Append(s, f)[i] = s[i]
      /\ Append(s, f)[Len(s) + 1] = f
  BY AppendProperties, LenProperties
<1>2. ASSUME NEW c
      PROVE  Cardinality(RunsOf(Append(s, f), c))
               = Cardinality(RunsOf(s, c)) + IF f.conn = c THEN 1 ELSE 0
  <2>1. CASE f.conn = c
    <3>1. /\ RunsOf(Append(s, f), c) = RunsOf(s, c) \cup {Len(s) + 1}
          /\ Len(s) + 1 \notin RunsOf(s, c)
      BY <1>1, <2>1 DEF RunsOf
    <3>2. IsFiniteSet(RunsOf(s, c))
      BY FiniteRuns
    <3>3. Cardinality(RunsOf(s, c) \cup {Len(s) + 1}) = Cardinality(RunsOf(s, c)) + 1
      BY <3>1, <3>2, FS_AddElement
    <3>. QED
      BY <2>1, <3>1, <3>3
  <2>2. CASE f.conn # c
    <3>1. RunsOf(Append(s, f), c) = RunsOf(s, c)
      BY <1>1, <2>2 DEF RunsOf
    <3>2. Cardinality(RunsOf(s, c)) \in Nat
      BY FiniteRuns
    <3>. QED
      BY <2>2, <3>1, <3>2
  <2>. QED
    BY <2>1, <2>2
<1>. QED
  BY <1>1, <1>2

\* The first elements of a sequence.
LEMMA Prefix ==
  ASSUME NEW F, NEW s \in Seq(F), NEW n \in Nat, n <= Len(s)
  PROVE  /\ SubSeq(s, 1, n) \in Seq(F)
         /\ Len(SubSeq(s, 1, n)) = n
         /\ \A i \in 1 .. n : SubSeq(s, 1, n)[i] = s[i]
<1>1. \A i \in 1 .. n : s[i] \in F
  OBVIOUS
<1>2. SubSeq(s, 1, n) \in Seq(F)
  BY <1>1
<1>3. Len(SubSeq(s, 1, n)) = n
  BY <1>1
<1>4. \A i \in 1 .. n : SubSeq(s, 1, n)[i] = s[i]
  BY <1>1
<1>. QED
  BY <1>2, <1>3, <1>4

\* A run that ends removes the last place.
LEMMA Pop ==
  ASSUME NEW s \in Seq(Frame), s # <<>>
  PROVE  /\ SubSeq(s, 1, Len(s) - 1) \in Seq(Frame)
         /\ Len(SubSeq(s, 1, Len(s) - 1)) = Len(s) - 1
         /\ \A i \in 1 .. Len(s) - 1 : SubSeq(s, 1, Len(s) - 1)[i] = s[i]
         /\ \A c : Cardinality(RunsOf(SubSeq(s, 1, Len(s) - 1), c))
                     = Cardinality(RunsOf(s, c)) - IF s[Len(s)].conn = c THEN 1 ELSE 0
<1>. DEFINE t == SubSeq(s, 1, Len(s) - 1)
<1>1. Len(s) \in Nat \ {0}
  BY EmptySeq
<1>2. Len(s) - 1 \in Nat /\ Len(s) - 1 <= Len(s)
  BY <1>1
<1>3. /\ t \in Seq(Frame)
      /\ Len(t) = Len(s) - 1
      /\ \A i \in 1 .. Len(s) - 1 : t[i] = s[i]
  BY <1>2, Prefix
<1>4. ASSUME NEW c
      PROVE  Cardinality(RunsOf(t, c))
               = Cardinality(RunsOf(s, c)) - IF s[Len(s)].conn = c THEN 1 ELSE 0
  <2>. HIDE DEF t
  <2>1. RunsOf(t, c) = RunsOf(s, c) \ {Len(s)}
    BY <1>1, <1>3 DEF RunsOf
  <2>2. Len(s) \in RunsOf(s, c) <=> s[Len(s)].conn = c
    BY <1>1 DEF RunsOf
  <2>3. IsFiniteSet(RunsOf(s, c)) /\ Cardinality(RunsOf(s, c)) \in Nat
    BY FiniteRuns
  <2>4. Cardinality(RunsOf(s, c) \ {Len(s)})
          = IF Len(s) \in RunsOf(s, c) THEN Cardinality(RunsOf(s, c)) - 1
            ELSE Cardinality(RunsOf(s, c))
    BY <2>3, FS_RemoveElement
  <2>. QED
    BY <2>1, <2>2, <2>3, <2>4
<1>. QED
  BY <1>3, <1>4

\* A run that goes on keeps its place and its connection.
LEMMA Replace ==
  ASSUME NEW s \in Seq(Frame), s # <<>>, NEW f \in Frame, f.conn = s[Len(s)].conn
  PROVE  /\ [s EXCEPT ![Len(s)] = f] \in Seq(Frame)
         /\ Len([s EXCEPT ![Len(s)] = f]) = Len(s)
         /\ \A i \in 1 .. Len(s) :
              [s EXCEPT ![Len(s)] = f][i] = IF i = Len(s) THEN f ELSE s[i]
         /\ \A c : RunsOf([s EXCEPT ![Len(s)] = f], c) = RunsOf(s, c)
<1>1. Len(s) \in 1 .. Len(s) /\ Len(s) \in Nat
  BY EmptySeq
<1>2. /\ [s EXCEPT ![Len(s)] = f] \in Seq(Frame)
      /\ Len([s EXCEPT ![Len(s)] = f]) = Len(s)
      /\ \A i \in 1 .. Len(s) :
           [s EXCEPT ![Len(s)] = f][i] = IF i = Len(s) THEN f ELSE s[i]
  BY <1>1, ExceptSeq
<1>. QED
  BY <1>2 DEF RunsOf

\* The innermost run.
LEMMA TopProperties ==
  ASSUME stack \in Seq(Frame), ~Idle
  PROVE  /\ Len(stack) \in Nat \ {0}
         /\ Len(stack) \in 1 .. Len(stack)
         /\ Top \in Frame
         /\ Top = stack[Len(stack)]
<1>1. Len(stack) \in Nat \ {0}
  BY EmptySeq DEF Idle
<1>. QED
  BY <1>1, ElementOfSeq DEF Top

\* What GoOn does to the stack.
LEMMA GoOnStack ==
  ASSUME TypeOK, ~Idle, NEW f \in Frame, f.conn = Top.conn, GoOn(f)
  PROVE  /\ stack' \in Seq(Frame)
         /\ Len(stack') = Len(stack)
         /\ \A i \in 1 .. Len(stack) : stack'[i] = IF i = Len(stack) THEN f ELSE stack[i]
         /\ \A i \in 1 .. Len(stack) : stack'[i].conn = stack[i].conn
         /\ \A c : RunsOf(stack', c) = RunsOf(stack, c)
<1>1. /\ stack' = [stack EXCEPT ![Len(stack)] = f]
      /\ stack \in Seq(Frame) /\ stack # <<>> /\ f.conn = stack[Len(stack)].conn
  BY DEF GoOn, TypeOK, Idle, Top
<1>2. /\ stack' \in Seq(Frame)
      /\ Len(stack') = Len(stack)
      /\ \A i \in 1 .. Len(stack) : stack'[i] = IF i = Len(stack) THEN f ELSE stack[i]
      /\ \A c : RunsOf(stack', c) = RunsOf(stack, c)
  BY <1>1, Replace
<1>. QED
  BY <1>1, <1>2

-----------------------------------------------------------------------------
(* The steps of a run                                                      *)

\* A run that goes on without waiting for an approval keeps the invariant if
\* the tools it runs do.
LEMMA GoOnKeeps ==
  ASSUME IInv, ~Idle, NEW f \in Frame, f.conn = Top.conn, f.step # "approval",
         f.step = "ask" => f.calls > 0, GoOn(f), UNCHANGED <<ctx, lastId>>,
         ran' \in SUBSET (Conns \X Requests), OwnApproval'
  PROVE  IInv'
<1>. USE DEF IInv
<1>1. /\ stack' \in Seq(Frame)
      /\ Len(stack') = Len(stack)
      /\ \A i \in 1 .. Len(stack) : stack'[i] = IF i = Len(stack) THEN f ELSE stack[i]
      /\ \A i \in 1 .. Len(stack) : stack'[i].conn = stack[i].conn
      /\ \A c : RunsOf(stack', c) = RunsOf(stack, c)
  BY GoOnStack
<1>2. UNCHANGED <<unlocked, generation, crashed, approved, overlapped>>
  BY DEF GoOn
<1>3. TypeOK'
  BY <1>1, <1>2 DEF TypeOK
<1>4. Counted'
  BY <1>1 DEF Counted
<1>5. Alone'
  BY <1>1, <1>2 DEF Alone
<1>6. ContextOutlivesRuns'
  BY <1>1, <1>2 DEF ContextOutlivesRuns
<1>7. Lives'
  BY <1>1 DEF Lives
<1>8. Waits'
  BY <1>1, <1>2 DEF Waits
<1>9. Answers' /\ Gone'
  BY <1>2 DEF Answers, Gone, Valid
<1>10. Busy'
  BY <1>1 DEF Busy
<1>. QED
  BY <1>3, <1>4, <1>5, <1>6, <1>7, <1>8, <1>9, <1>10

\* The end of a run.
LEMMA EndRunKeeps ==
  ASSUME IInv, TopAlive, EndRun
  PROVE  IInv'
<1>. USE DEF IInv
<1>. DEFINE c == Top.conn
<1>1. /\ stack \in Seq(Frame) /\ ~Idle /\ stack # <<>>
      /\ Len(stack) \in Nat \ {0} /\ Len(stack) \in 1 .. Len(stack)
      /\ Top = stack[Len(stack)] /\ c \in Conns
  BY TopProperties DEF TypeOK, TopAlive, Idle, Frame
<1>2. /\ stack' \in Seq(Frame)
      /\ Len(stack') = Len(stack) - 1
      /\ \A i \in 1 .. Len(stack') : i \in 1 .. Len(stack) /\ stack'[i] = stack[i]
      /\ \A d : Cardinality(RunsOf(stack', d))
                  = Cardinality(RunsOf(stack, d)) - IF c = d THEN 1 ELSE 0
  BY <1>1, Pop DEF EndRun
<1>3. /\ UNCHANGED <<unlocked, generation, lastId, crashed, approved, ran, overlapped>>
      /\ ctx' = [ctx EXCEPT ![c].runs = @ - 1,
                            ![c].life = IF ctx[c].closing THEN "freed" ELSE @]
  BY DEF EndRun
<1>. HIDE DEF c
<1>4. \A d \in Conns : /\ Cardinality(RunsOf(stack, d)) \in Nat
                        /\ Cardinality(RunsOf(stack', d)) \in Nat
  BY <1>1, <1>2, FiniteRuns
<1>5. Counted'
  BY <1>1, <1>2, <1>3, <1>4 DEF Counted, TypeOK, Context
<1>6. TypeOK'
  <2>1. ctx[c].runs - 1 \in Nat
    BY <1>1, <1>2, <1>4 DEF Counted
  <2>2. ctx[c] \in Context /\ ctx \in [Conns -> Context]
    BY <1>1 DEF TypeOK
  <2>3. [ctx[c] EXCEPT !.runs = ctx[c].runs - 1,
                       !.life = IF ctx[c].closing THEN "freed" ELSE ctx[c].life] \in Context
    BY <2>1, <2>2 DEF Context
  <2>4. ctx' = [ctx EXCEPT ![c] = [ctx[c] EXCEPT !.runs = ctx[c].runs - 1,
                       !.life = IF ctx[c].closing THEN "freed" ELSE ctx[c].life]]
    BY <1>3
  <2>5. ctx' \in [Conns -> Context]
    BY <2>2, <2>3, <2>4
  <2>. QED
    BY <1>2, <1>3, <2>5 DEF TypeOK
<1>7. Alone'
  BY <1>2, <1>3 DEF Alone
<1>8. \A i \in 1 .. Len(stack') : stack'[i].conn = c => overlapped[c]
  <2>1. ASSUME NEW i \in 1 .. Len(stack'), stack'[i].conn = c
        PROVE  overlapped[c]
    <3>1. i # Len(stack) /\ stack[i].conn = stack[Len(stack)].conn
      BY <1>1, <1>2, <2>1 DEF c
    <3>. QED
      BY <1>1, <1>2, <2>1, <3>1 DEF Alone
  <2>. QED
    BY <2>1
<1>9. \A d \in Conns : d # c => ctx'[d] = ctx[d]
  BY <1>3 DEF TypeOK
<1>10. /\ ctx'[c].closing <=> ctx[c].closing
       /\ ctx'[c].open <=> ctx[c].open
       /\ ctx'[c].result <=> ctx[c].result
       /\ ctx'[c].cancel <=> ctx[c].cancel
       /\ ctx'[c].pending = ctx[c].pending
       /\ ctx'[c].gen = ctx[c].gen
       /\ ctx'[c].life = IF ctx[c].closing THEN "freed" ELSE ctx[c].life
  BY <1>1, <1>3 DEF TypeOK, Context
<1>11. ASSUME NEW i \in 1 .. Len(stack')
       PROVE  stack'[i].conn \in Conns
  <2>1. stack'[i] \in Frame
    BY <1>2, ElementOfSeq
  <2>. QED
    BY <2>1 DEF Frame
<1>12. ContextOutlivesRuns'
  <2>1. ASSUME NEW i \in 1 .. Len(stack')
        PROVE  (ctx[stack[i].conn].life = "live" \/ overlapped[stack[i].conn])'
    <3>1. CASE stack'[i].conn = c
      BY <1>2, <1>3, <1>8, <2>1, <3>1
    <3>2. CASE stack'[i].conn # c
      <4>1. stack'[i] = stack[i] /\ i \in 1 .. Len(stack)
        BY <1>2
      <4>2. ctx'[stack'[i].conn] = ctx[stack[i].conn]
        BY <1>9, <1>11, <3>2, <4>1
      <4>. QED
        BY <1>3, <4>1, <4>2 DEF ContextOutlivesRuns
    <3>. QED
      BY <3>1, <3>2
  <2>2. ASSUME NEW d \in Conns, ctx'[d].life = "live", ctx'[d].closing
        PROVE  ctx'[d].runs > 0
    BY <1>9, <1>10, <2>2 DEF ContextOutlivesRuns
  <2>. QED
    BY <2>1, <2>2 DEF ContextOutlivesRuns
<1>13. Lives'
  <2>1. \A i \in 1 .. Len(stack') : ctx'[stack'[i].conn].life # "none"
    BY <1>2, <1>9, <1>10, <1>11 DEF Lives
  <2>2. \A d \in Conns :
          /\ ctx'[d].open => ctx'[d].life = "live" /\ ~ctx'[d].closing
          /\ ctx'[d].life = "none" => ~ctx'[d].closing
    BY <1>9, <1>10 DEF Lives
  <2>. QED
    BY <2>1, <2>2 DEF Lives
<1>14. Waits'
  <2>1. ASSUME NEW i \in 1 .. Len(stack'), stack'[i].step = "approval"
        PROVE  /\ stack'[i].id \in Requests
               /\ stack'[i].id = ctx'[stack'[i].conn].pending \/ overlapped[stack'[i].conn]
    <3>1. stack'[i] = stack[i] /\ i \in 1 .. Len(stack)
      BY <1>2
    <3>2. ctx'[stack'[i].conn].pending = ctx[stack[i].conn].pending
      BY <1>9, <1>10, <1>11, <3>1
    <3>. QED
      BY <2>1, <3>1, <3>2 DEF Waits
  <2>. QED
    BY <1>3, <2>1 DEF Waits
<1>15. Answers'
  <2>1. Answers
    OBVIOUS
  <2>2. ASSUME NEW d \in Conns, ctx'[d].result
        PROVE  ctx'[d].pending \in approved
    <3>1. CASE d = c
      BY <1>10, <2>1, <2>2, <3>1 DEF Answers
    <3>2. CASE d # c
      BY <1>9, <2>1, <2>2, <3>2 DEF Answers
    <3>. QED
      BY <3>1, <3>2
  <2>. QED
    BY <1>3, <2>2 DEF Answers
<1>16. Gone'
  <2>1. Gone
    OBVIOUS
  <2>2. ASSUME NEW d \in Conns, ctx'[d].life = "live", ~ctx'[d].open \/ ~Valid(d)'
        PROVE  ~ctx'[d].result /\ ctx'[d].cancel
    <3>1. CASE d = c
      BY <1>3, <1>10, <2>1, <2>2, <3>1 DEF Gone, Valid
    <3>2. CASE d # c
      BY <1>3, <1>9, <2>1, <2>2, <3>2 DEF Gone, Valid
    <3>. QED
      BY <3>1, <3>2
  <2>. QED
    BY <2>2 DEF Gone
<1>17. OwnApproval'
  BY <1>3 DEF OwnApproval
<1>18. Busy'
  BY <1>2 DEF Busy
<1>. QED
  BY <1>18, <1>5, <1>6, <1>7, <1>12, <1>13, <1>14, <1>15, <1>16, <1>17

-----------------------------------------------------------------------------
(* What arrives on the loop                                                *)

\* A step that leaves the runs alone keeps the invariant if it keeps what is
\* said of each context.
LEMMA QuietKeeps ==
  ASSUME IInv, TypeOK', UNCHANGED <<stack, lastId, ran, overlapped>>,
         approved \subseteq approved',
         \A c \in Conns :
           /\ ctx'[c].runs = ctx[c].runs
           /\ ctx'[c].pending = ctx[c].pending
           /\ \/ ctx'[c].life = ctx[c].life
              \/ ctx[c].life = "none" /\ ctx'[c].life = "live"
              \/ ctx'[c].life = "freed" /\ ctx[c].runs = 0
           /\ ctx'[c].open => ctx'[c].life = "live" /\ ~ctx'[c].closing
           /\ ctx'[c].life = "none" => ~ctx'[c].closing
           /\ (ctx'[c].life = "live" /\ ctx'[c].closing) => ctx'[c].runs > 0,
         Answers', Gone'
  PROVE  IInv'
<1>. USE DEF IInv
<1>1. stack \in Seq(Frame)
  BY DEF TypeOK
<1>2. ASSUME NEW i \in 1 .. Len(stack)
      PROVE  /\ stack[i].conn \in Conns
             /\ ctx[stack[i].conn].runs # 0
  <2>1. stack[i] \in Frame
    BY <1>1, ElementOfSeq
  <2>2. stack[i].conn \in Conns
    BY <2>1 DEF Frame
  <2>3. i \in RunsOf(stack, stack[i].conn)
    BY DEF RunsOf
  <2>4. Cardinality(RunsOf(stack, stack[i].conn)) # 0
    BY <1>1, <2>3, FiniteRuns
  <2>. QED
    BY <2>2, <2>4 DEF Counted
<1>3. Counted' /\ Alone'
  BY DEF Counted, Alone
<1>4. ContextOutlivesRuns'
  BY <1>2 DEF ContextOutlivesRuns
<1>5. Lives'
  BY <1>2 DEF Lives
<1>6. Waits' /\ Busy'
  BY <1>2 DEF Waits, Busy
<1>7. OwnApproval'
  BY DEF OwnApproval
<1>. QED
  BY <1>3, <1>4, <1>5, <1>6, <1>7

\* A change of one context, field by field.
LEMMA OneContext ==
  ASSUME ctx \in [Conns -> Context], NEW c \in Conns, NEW r \in Context,
         ctx' = [ctx EXCEPT ![c] = r]
  PROVE  /\ ctx' \in [Conns -> Context]
         /\ ctx'[c] = r
         /\ \A d \in Conns \ {c} : ctx'[d] = ctx[d]
OBVIOUS

\* The same when one context changes.
LEMMA OneContextKeeps ==
  ASSUME IInv, NEW c \in Conns, NEW r \in Context,
         ctx' = [ctx EXCEPT ![c] = r],
         UNCHANGED <<stack, unlocked, generation, lastId, crashed, ran, overlapped>>,
         approved \subseteq approved', approved' \subseteq Requests,
         r.runs = ctx[c].runs,
         r.pending = ctx[c].pending,
         \/ r.life = ctx[c].life
         \/ ctx[c].life = "none" /\ r.life = "live"
         \/ r.life = "freed" /\ ctx[c].runs = 0,
         r.open => r.life = "live" /\ ~r.closing,
         r.life = "none" => ~r.closing,
         (r.life = "live" /\ r.closing) => ctx[c].runs > 0,
         r.result => r.pending \in approved',
         (r.life = "live" /\ ~(r.open /\ unlocked /\ r.gen = generation)) =>
           ~r.result /\ r.cancel
  PROVE  IInv'
<1>. USE DEF IInv
<1>1. /\ ctx' \in [Conns -> Context] /\ ctx'[c] = r
      /\ \A d \in Conns \ {c} : ctx'[d] = ctx[d]
  BY OneContext DEF TypeOK
<1>2. TypeOK'
  BY <1>1 DEF TypeOK
<1>3. ASSUME NEW d \in Conns
      PROVE  /\ ctx'[d].runs = ctx[d].runs
             /\ ctx'[d].pending = ctx[d].pending
             /\ \/ ctx'[d].life = ctx[d].life
                \/ ctx[d].life = "none" /\ ctx'[d].life = "live"
                \/ ctx'[d].life = "freed" /\ ctx[d].runs = 0
             /\ ctx'[d].open => ctx'[d].life = "live" /\ ~ctx'[d].closing
             /\ ctx'[d].life = "none" => ~ctx'[d].closing
             /\ (ctx'[d].life = "live" /\ ctx'[d].closing) => ctx'[d].runs > 0
  <2>1. CASE d = c
    BY <1>1, <2>1
  <2>2. CASE d # c
    BY <1>1, <2>2 DEF Lives, ContextOutlivesRuns
  <2>. QED
    BY <2>1, <2>2
<1>4. Answers'
  <2>1. ASSUME NEW d \in Conns, ctx'[d].result
        PROVE  ctx'[d].pending \in approved'
    BY <1>1, <2>1 DEF Answers
  <2>. QED
    BY <2>1 DEF Answers
<1>5. Gone'
  <2>1. ASSUME NEW d \in Conns, ctx'[d].life = "live", ~ctx'[d].open \/ ~Valid(d)'
        PROVE  ~ctx'[d].result /\ ctx'[d].cancel
    <3>1. CASE d = c
      BY <1>1, <2>1, <3>1 DEF Valid
    <3>2. CASE d # c
      BY <1>1, <2>1, <3>2 DEF Gone, Valid
    <3>. QED
      BY <3>1, <3>2
  <2>. QED
    BY <2>1 DEF Gone
<1>. QED
  BY <1>2, <1>3, <1>4, <1>5, QuietKeeps

LEMMA ConnectKeeps ==
  ASSUME IInv, NEW c \in Conns, Connect(c)
  PROVE  IInv'
<1>. DEFINE r == [ctx[c] EXCEPT !.life = "live", !.open = TRUE, !.gen = generation]
<1>1. /\ ctx[c] \in Context /\ generation \in 0 .. MaxGeneration
      /\ approved \subseteq Requests
      /\ ctx[c].life = "none" => ~ctx[c].closing
      /\ ctx[c].result => ctx[c].pending \in approved
  BY DEF IInv, TypeOK, Lives, Answers
<1>2. /\ unlocked /\ ctx[c].life = "none"
      /\ ctx' = [ctx EXCEPT ![c] = r]
      /\ UNCHANGED <<stack, unlocked, generation, lastId, crashed, approved, ran, overlapped>>
  BY DEF Connect
<1>3. /\ r \in Context
      /\ r.life = "live" /\ r.open /\ r.gen = generation
      /\ r.closing <=> ctx[c].closing
      /\ r.runs = ctx[c].runs /\ r.pending = ctx[c].pending
      /\ r.result <=> ctx[c].result
  BY <1>1 DEF Context
<1>. HIDE DEF r
<1>. QED
  BY <1>1, <1>2, <1>3, OneContextKeeps

LEMMA RespondKeeps ==
  ASSUME IInv, NEW c \in Conns, NEW id \in Requests, NEW ok \in BOOLEAN,
         Respond(c, id, ok)
  PROVE  IInv'
<1>. DEFINE r == [ctx[c] EXCEPT !.result = ok, !.done = TRUE]
<1>1. /\ ctx[c] \in Context /\ approved \subseteq Requests
      /\ ctx[c].open => ctx[c].life = "live" /\ ~ctx[c].closing
  BY DEF IInv, TypeOK, Lives
<1>2. /\ unlocked /\ ctx[c].open /\ ctx[c].gen = generation /\ id = ctx[c].pending
      /\ ctx' = [ctx EXCEPT ![c] = r]
      /\ approved' = IF ok THEN approved \cup {id} ELSE approved
      /\ UNCHANGED <<stack, unlocked, generation, lastId, crashed, ran, overlapped>>
  BY DEF Respond, Hears, Valid
<1>3. /\ r \in Context
      /\ r.life = ctx[c].life /\ r.gen = ctx[c].gen
      /\ r.open <=> ctx[c].open
      /\ r.closing <=> ctx[c].closing
      /\ r.runs = ctx[c].runs /\ r.pending = ctx[c].pending
      /\ r.result <=> ok
  BY <1>1 DEF Context
<1>. HIDE DEF r
<1>4. approved \subseteq approved' /\ approved' \subseteq Requests
  BY <1>1, <1>2
<1>5. r.result => r.pending \in approved'
  BY <1>2, <1>3
<1>. QED
  BY <1>1, <1>2, <1>3, <1>4, <1>5, OneContextKeeps

LEMMA StopKeeps ==
  ASSUME IInv, NEW c \in Conns, Stop(c)
  PROVE  IInv'
<1>. DEFINE r == [ctx[c] EXCEPT !.cancel = TRUE, !.done = TRUE]
<1>1. /\ ctx[c] \in Context /\ approved \subseteq Requests
      /\ ctx[c].open => ctx[c].life = "live" /\ ~ctx[c].closing
      /\ ctx[c].result => ctx[c].pending \in approved
  BY DEF IInv, TypeOK, Lives, Answers
<1>2. /\ unlocked /\ ctx[c].open /\ ctx[c].gen = generation
      /\ ctx' = [ctx EXCEPT ![c] = r]
      /\ UNCHANGED <<stack, unlocked, generation, lastId, crashed, approved, ran, overlapped>>
  BY DEF Stop, Hears, Valid
<1>3. /\ r \in Context
      /\ r.life = ctx[c].life /\ r.gen = ctx[c].gen
      /\ r.open <=> ctx[c].open
      /\ r.closing <=> ctx[c].closing
      /\ r.runs = ctx[c].runs /\ r.pending = ctx[c].pending
      /\ r.result <=> ctx[c].result
  BY <1>1 DEF Context
<1>. HIDE DEF r
<1>. QED
  BY <1>1, <1>2, <1>3, OneContextKeeps

LEMMA CloseKeeps ==
  ASSUME IInv, NEW c \in Conns, Close(c)
  PROVE  IInv'
<1>. DEFINE r == [ctx[c] EXCEPT !.closing = TRUE, !.open = FALSE, !.done = TRUE,
                                !.result = FALSE, !.cancel = TRUE,
                                !.life = IF ctx[c].runs = 0 THEN "freed" ELSE "live"]
<1>1. /\ ctx[c] \in Context /\ approved \subseteq Requests /\ ctx[c].runs \in Nat
      /\ ctx[c].open => ctx[c].life = "live" /\ ~ctx[c].closing
  BY DEF IInv, TypeOK, Lives, Context
<1>2. /\ ctx[c].open
      /\ ctx' = [ctx EXCEPT ![c] = r]
      /\ UNCHANGED <<stack, unlocked, generation, lastId, crashed, approved, ran, overlapped>>
  BY DEF Close
<1>3. /\ r \in Context
      /\ r.life = IF ctx[c].runs = 0 THEN "freed" ELSE "live"
      /\ ~r.open /\ r.cancel /\ ~r.result
      /\ r.runs = ctx[c].runs /\ r.pending = ctx[c].pending
  BY <1>1 DEF Context
<1>. HIDE DEF r
<1>4. /\ r.life = ctx[c].life \/ (r.life = "freed" /\ ctx[c].runs = 0)
      /\ r.life # "none"
      /\ r.life = "live" => ctx[c].runs > 0
  BY <1>1, <1>2, <1>3
<1>. QED
  BY <1>1, <1>2, <1>3, <1>4, OneContextKeeps

LEMMA LogoutKeeps ==
  ASSUME IInv, Logout
  PROVE  IInv'
<1>. USE DEF IInv
<1>. DEFINE r(c) == [ctx[c] EXCEPT !.cancel = TRUE, !.done = TRUE, !.result = FALSE]
<1>1. /\ unlocked' = FALSE
      /\ UNCHANGED <<stack, lastId, crashed, approved, ran, overlapped>>
      /\ \A c \in Conns : ctx'[c] = IF ctx[c].life # "live" THEN ctx[c] ELSE r(c)
  BY DEF Logout
<1>2. ASSUME NEW c \in Conns
      PROVE  /\ r(c) \in Context
             /\ r(c).life = ctx[c].life /\ r(c).runs = ctx[c].runs
             /\ r(c).pending = ctx[c].pending
             /\ r(c).open <=> ctx[c].open
             /\ r(c).closing <=> ctx[c].closing
             /\ r(c).cancel /\ ~r(c).result
  <2>1. ctx[c] \in Context
    BY DEF TypeOK
  <2>. QED
    BY <2>1 DEF Context
<1>. HIDE DEF r
<1>3. TypeOK'
  <2>. HIDE DEF IInv
  <2>1. generation' \in 0 .. MaxGeneration
    <3>1. /\ generation \in 0 .. MaxGeneration /\ generation < MaxGeneration
          /\ generation' = generation + 1
      BY DEF IInv, TypeOK, Logout
    <3>. QED
      BY <3>1, BoundsAssumption
  <2>. USE DEF IInv
  <2>2. \A c \in Conns : ctx'[c] \in Context
    BY <1>1, <1>2 DEF TypeOK
  <2>3. ctx' \in [Conns -> Context]
    BY <2>2 DEF Logout
  <2>. QED
    BY <1>1, <2>1, <2>3 DEF TypeOK
<1>4. ASSUME NEW c \in Conns
      PROVE  /\ ctx'[c].runs = ctx[c].runs
             /\ ctx'[c].pending = ctx[c].pending
             /\ \/ ctx'[c].life = ctx[c].life
                \/ ctx[c].life = "none" /\ ctx'[c].life = "live"
                \/ ctx'[c].life = "freed" /\ ctx[c].runs = 0
             /\ ctx'[c].open => ctx'[c].life = "live" /\ ~ctx'[c].closing
             /\ ctx'[c].life = "none" => ~ctx'[c].closing
             /\ (ctx'[c].life = "live" /\ ctx'[c].closing) => ctx'[c].runs > 0
  <2>1. CASE ctx[c].life # "live"
    BY <1>1, <2>1 DEF Lives
  <2>2. CASE ctx[c].life = "live"
    BY <1>1, <1>2, <2>2 DEF Lives, ContextOutlivesRuns
  <2>. QED
    BY <2>1, <2>2
<1>5. Answers'
  <2>1. ASSUME NEW c \in Conns, ctx'[c].result
        PROVE  ctx'[c].pending \in approved
    BY <1>1, <1>2, <2>1 DEF Answers
  <2>. QED
    BY <1>1, <2>1 DEF Answers
<1>6. Gone'
  BY <1>1, <1>2 DEF Gone
<1>. QED
  BY <1>1, <1>3, <1>4, <1>5, <1>6, QuietKeeps

LEMMA UnlockKeeps ==
  ASSUME IInv, Unlock
  PROVE  IInv'
<1>. USE DEF IInv
<1>1. /\ ~unlocked
      /\ UNCHANGED <<stack, ctx, lastId, crashed, approved, ran, overlapped>>
  BY DEF Unlock
<1>2. TypeOK'
  BY BoundsAssumption DEF TypeOK, Unlock
<1>3. Answers'
  BY <1>1 DEF Answers
<1>4. Gone'
  BY <1>1 DEF Gone, Valid
<1>5. ASSUME NEW c \in Conns
      PROVE  /\ ctx[c].open => ctx[c].life = "live" /\ ~ctx[c].closing
             /\ ctx[c].life = "none" => ~ctx[c].closing
             /\ (ctx[c].life = "live" /\ ctx[c].closing) => ctx[c].runs > 0
  BY DEF Lives, ContextOutlivesRuns
<1>. QED
  BY <1>1, <1>2, <1>3, <1>4, <1>5, QuietKeeps

LEMMA UseAfterFreeKeeps ==
  ASSUME IInv, UseAfterFree
  PROVE  IInv'
<1>. USE DEF IInv
<1>1. UNCHANGED <<stack, ctx, unlocked, generation, lastId, approved, ran, overlapped>>
  BY DEF UseAfterFree
<1>2. TypeOK'
  BY DEF TypeOK, UseAfterFree
<1>3. Answers' /\ Gone'
  BY <1>1 DEF Answers, Gone, Valid
<1>4. ASSUME NEW c \in Conns
      PROVE  /\ ctx[c].open => ctx[c].life = "live" /\ ~ctx[c].closing
             /\ ctx[c].life = "none" => ~ctx[c].closing
             /\ (ctx[c].life = "live" /\ ctx[c].closing) => ctx[c].runs > 0
  BY DEF Lives, ContextOutlivesRuns
<1>. QED
  BY <1>1, <1>2, <1>3, <1>4, QuietKeeps

\* A new run: the first of its connection, or the connection overlaps.
LEMMA StartRunKeeps ==
  ASSUME IInv, NEW c \in Conns, StartRun(c)
  PROVE  IInv'
<1>. DEFINE r == [ctx[c] EXCEPT !.runs = ctx[c].runs + 1, !.cancel = FALSE]
            f == [conn |-> c, step |-> "llm", id |-> 0, calls |-> 0, iter |-> 0]
<1>1. /\ TypeOK /\ Counted /\ Alone /\ ContextOutlivesRuns /\ Lives
      /\ Waits /\ Busy /\ Answers /\ Gone /\ OwnApproval
  BY DEF IInv
<1>2. /\ unlocked /\ ctx[c].open /\ ctx[c].gen = generation
      /\ ctx' = [ctx EXCEPT ![c] = r]
      /\ stack' = Append(stack, f)
      /\ overlapped' = [overlapped EXCEPT ![c] = @ \/ ctx[c].runs > 0]
      /\ UNCHANGED <<unlocked, generation, lastId, crashed, approved, ran>>
  BY DEF StartRun, Hears, Valid
<1>3. /\ ctx \in [Conns -> Context] /\ ctx[c] \in Context /\ ctx[c].runs \in Nat
      /\ stack \in Seq(Frame) /\ Len(stack) \in Nat
      /\ overlapped \in [Conns -> BOOLEAN]
      /\ ctx[c].life = "live" /\ ~ctx[c].closing
  BY <1>1, <1>2, LenProperties DEF TypeOK, Context, Lives
<1>4. /\ r \in Context
      /\ r.runs = ctx[c].runs + 1 /\ r.life = "live"
      /\ r.pending = ctx[c].pending /\ r.gen = generation
      /\ r.open
      /\ ~r.closing
      /\ r.result <=> ctx[c].result
  <2>1. ctx[c].runs + 1 \in Nat
    BY <1>3
  <2>2. r \in Context
    BY <1>3, <2>1 DEF Context
  <2>3. /\ r.runs = ctx[c].runs + 1 /\ r.life = ctx[c].life
        /\ r.pending = ctx[c].pending /\ r.gen = ctx[c].gen
        /\ r.open <=> ctx[c].open
        /\ r.closing <=> ctx[c].closing
        /\ r.result <=> ctx[c].result
    BY <1>3 DEF Context
  <2>. QED
    BY <1>2, <1>3, <2>2, <2>3
<1>5. f \in Frame /\ f.conn = c /\ f.step = "llm"
  BY BoundsAssumption DEF Frame
<1>. HIDE DEF r, f
<1>6. /\ ctx' \in [Conns -> Context] /\ ctx'[c] = r
      /\ \A d \in Conns \ {c} : ctx'[d] = ctx[d]
  BY <1>2, <1>3, <1>4, OneContext
<1>7. /\ stack' \in Seq(Frame) /\ Len(stack') = Len(stack) + 1
      /\ \A i \in 1 .. Len(stack) : stack'[i] = stack[i]
      /\ stack'[Len(stack) + 1] = f
      /\ \A d : Cardinality(RunsOf(stack', d))
                  = Cardinality(RunsOf(stack, d)) + IF c = d THEN 1 ELSE 0
  BY <1>2, <1>3, <1>5, Push
<1>8. /\ overlapped' \in [Conns -> BOOLEAN]
      /\ \A d \in Conns : overlapped[d] => overlapped'[d]
      /\ overlapped'[c] <=> (overlapped[c] \/ ctx[c].runs > 0)
  BY <1>2, <1>3
<1>9. \A i \in 1 .. Len(stack) : stack[i].conn \in Conns
  <2>1. \A i \in 1 .. Len(stack) : stack[i] \in Frame
    BY <1>3, ElementOfSeq
  <2>. QED
    BY <2>1 DEF Frame
<1>10. TypeOK'
  BY <1>1, <1>2, <1>6, <1>7, <1>8 DEF TypeOK
<1>11. Counted'
  <2>1. ASSUME NEW d \in Conns
        PROVE  ctx'[d].runs = Cardinality(RunsOf(stack', d))
    <3>1. /\ Cardinality(RunsOf(stack, d)) \in Nat
          /\ ctx[d].runs = Cardinality(RunsOf(stack, d))
      BY <1>1, <1>3, FiniteRuns DEF Counted
    <3>. QED
      BY <1>4, <1>6, <1>7, <3>1
  <2>. QED
    BY <2>1 DEF Counted
<1>12. ASSUME NEW i \in 1 .. Len(stack), stack[i].conn = c
       PROVE  overlapped'[c]
  <2>1. i \in RunsOf(stack, c)
    BY <1>12 DEF RunsOf
  <2>2. Cardinality(RunsOf(stack, c)) # 0
    BY <1>3, <2>1, FiniteRuns
  <2>. QED
    BY <1>1, <1>3, <1>8, <2>2 DEF Counted
<1>13. Alone'
  <2>1. ASSUME NEW i \in 1 .. Len(stack'), NEW j \in 1 .. Len(stack'),
               stack'[i].conn = stack'[j].conn, i # j
        PROVE  overlapped'[stack'[i].conn]
    <3>1. CASE i \in 1 .. Len(stack) /\ j \in 1 .. Len(stack)
      <4>1. overlapped[stack[i].conn] /\ stack'[i] = stack[i]
        BY <1>1, <1>7, <2>1, <3>1 DEF Alone
      <4>. QED
        BY <1>8, <1>9, <3>1, <4>1
    <3>2. CASE i = Len(stack) + 1
      <4>1. j \in 1 .. Len(stack)
        BY <1>3, <1>7, <2>1, <3>2
      <4>. QED
        BY <1>5, <1>7, <1>12, <2>1, <3>2, <4>1
    <3>3. CASE j = Len(stack) + 1
      <4>1. i \in 1 .. Len(stack)
        BY <1>3, <1>7, <2>1, <3>3
      <4>. QED
        BY <1>5, <1>7, <1>12, <2>1, <3>3, <4>1
    <3>. QED
      BY <1>3, <1>7, <3>1, <3>2, <3>3
  <2>. QED
    BY <2>1 DEF Alone
<1>14. \A i \in 1 .. Len(stack') : \/ i = Len(stack) + 1
                                   \/ i \in 1 .. Len(stack)
  BY <1>3, <1>7
<1>15. \A d \in Conns : /\ ctx'[d].life = ctx[d].life
                         /\ ctx'[d].pending = ctx[d].pending
  BY <1>3, <1>4, <1>6
<1>16. ContextOutlivesRuns'
  <2>1. ASSUME NEW i \in 1 .. Len(stack')
        PROVE  ctx'[stack'[i].conn].life = "live" \/ overlapped'[stack'[i].conn]
    <3>1. CASE i = Len(stack) + 1
      BY <1>4, <1>5, <1>6, <1>7, <3>1
    <3>2. CASE i \in 1 .. Len(stack)
      BY <1>1, <1>7, <1>8, <1>9, <1>15, <3>2 DEF ContextOutlivesRuns
    <3>. QED
      BY <1>14, <3>1, <3>2
  <2>2. ASSUME NEW d \in Conns, ctx'[d].life = "live", ctx'[d].closing
        PROVE  ctx'[d].runs > 0
    BY <1>1, <1>4, <1>6, <2>2 DEF ContextOutlivesRuns
  <2>. QED
    BY <2>1, <2>2 DEF ContextOutlivesRuns
<1>17. Lives'
  <2>1. \A d \in Conns :
          /\ ctx'[d].open => ctx'[d].life = "live" /\ ~ctx'[d].closing
          /\ ctx'[d].life = "none" => ~ctx'[d].closing
    BY <1>1, <1>4, <1>6 DEF Lives
  <2>2. ASSUME NEW i \in 1 .. Len(stack')
        PROVE  ctx'[stack'[i].conn].life # "none"
    <3>1. CASE i = Len(stack) + 1
      BY <1>4, <1>5, <1>6, <1>7, <3>1
    <3>2. CASE i \in 1 .. Len(stack)
      BY <1>1, <1>7, <1>9, <1>15, <3>2 DEF Lives
    <3>. QED
      BY <1>14, <3>1, <3>2
  <2>. QED
    BY <2>1, <2>2 DEF Lives
<1>18. Waits'
  <2>1. ASSUME NEW i \in 1 .. Len(stack'), stack'[i].step = "approval"
        PROVE  /\ stack'[i].id \in Requests
               /\ stack'[i].id = ctx'[stack'[i].conn].pending \/ overlapped'[stack'[i].conn]
    <3>1. i \in 1 .. Len(stack)
      BY <1>5, <1>7, <1>14, <2>1
    <3>. QED
      BY <1>1, <1>7, <1>8, <1>9, <1>15, <2>1, <3>1 DEF Waits
  <2>. QED
    BY <2>1 DEF Waits
<1>19. Answers'
  BY <1>1, <1>2, <1>4, <1>6, <1>15 DEF Answers
<1>20. Gone'
  <2>1. ASSUME NEW d \in Conns, ctx'[d].life = "live", ~ctx'[d].open \/ ~Valid(d)'
        PROVE  ~ctx'[d].result /\ ctx'[d].cancel
    BY <1>1, <1>2, <1>4, <1>6, <2>1 DEF Gone, Valid
  <2>. QED
    BY <2>1 DEF Gone
<1>21. OwnApproval'
  <2>1. \A q \in ran : q[1] \in Conns
    BY <1>1 DEF TypeOK
  <2>. QED
    BY <1>1, <1>2, <1>8, <2>1 DEF OwnApproval
<1>22. Busy'
  <2>1. ASSUME NEW i \in 1 .. Len(stack'), stack'[i].step \in {"approval", "ask"}
        PROVE  stack'[i].calls > 0
    <3>1. i \in 1 .. Len(stack)
      BY <1>5, <1>7, <1>14, <2>1
    <3>. QED
      BY <1>1, <1>7, <2>1, <3>1 DEF Busy
  <2>. QED
    BY <2>1 DEF Busy
<1>. QED
  BY <1>22, <1>10, <1>11, <1>13, <1>16, <1>17, <1>18, <1>19, <1>20, <1>21 DEF IInv

\* A new request: the pending one of a connection without another run.
LEMMA RequestApprovalKeeps ==
  ASSUME IInv, RequestApproval
  PROVE  IInv'
<1>. DEFINE c == Top.conn
            f == [Top EXCEPT !.step = "approval", !.id = lastId']
            r == [ctx[c] EXCEPT !.pending = lastId', !.done = FALSE, !.result = FALSE]
<1>1. /\ TypeOK /\ Counted /\ Alone /\ ContextOutlivesRuns /\ Lives
      /\ Waits /\ Busy /\ Answers /\ Gone /\ OwnApproval
  BY DEF IInv
<1>2. /\ ~Idle /\ ctx' = [ctx EXCEPT ![c] = r] /\ GoOn(f)
      /\ lastId < MaxRequests /\ lastId' = lastId + 1 /\ Top.calls > 0
      /\ UNCHANGED <<unlocked, generation, crashed, approved, overlapped, ran>>
  BY DEF RequestApproval, InTools, TopAlive, GoOn
<1>3. /\ stack \in Seq(Frame) /\ Len(stack) \in 1 .. Len(stack)
      /\ Top \in Frame /\ Top = stack[Len(stack)] /\ c \in Conns
      /\ ctx \in [Conns -> Context] /\ ctx[c] \in Context
      /\ lastId \in Requests \cup {0}
  BY <1>1, <1>2, TopProperties DEF TypeOK, Frame
<1>4. lastId' \in Requests
  BY <1>2, <1>3, BoundsAssumption DEF Requests
<1>5. f \in Frame /\ f.conn = c /\ f.step = "approval" /\ f.id = lastId'
      /\ f.calls = Top.calls
  BY <1>3, <1>4 DEF Frame
<1>6. /\ r \in Context
      /\ r.runs = ctx[c].runs /\ r.life = ctx[c].life /\ r.gen = ctx[c].gen
      /\ r.pending = lastId' /\ ~r.result
      /\ r.open <=> ctx[c].open
      /\ r.closing <=> ctx[c].closing
      /\ r.cancel <=> ctx[c].cancel
  BY <1>3, <1>4 DEF Context
<1>7. c = Top.conn
  OBVIOUS
<1>. HIDE DEF c, r, f
<1>8. /\ ctx' \in [Conns -> Context] /\ ctx'[c] = r
      /\ \A d \in Conns \ {c} : ctx'[d] = ctx[d]
  BY <1>2, <1>3, <1>6, OneContext
<1>9. /\ stack' \in Seq(Frame) /\ Len(stack') = Len(stack)
      /\ \A i \in 1 .. Len(stack) : stack'[i] = IF i = Len(stack) THEN f ELSE stack[i]
      /\ \A i \in 1 .. Len(stack) : stack'[i].conn = stack[i].conn
      /\ \A d : RunsOf(stack', d) = RunsOf(stack, d)
  BY <1>1, <1>2, <1>5, <1>7, GoOnStack
<1>10. \A i \in 1 .. Len(stack) : stack[i].conn \in Conns
  <2>1. \A i \in 1 .. Len(stack) : stack[i] \in Frame
    BY <1>3, ElementOfSeq
  <2>. QED
    BY <2>1 DEF Frame
<1>11. TypeOK'
  BY <1>1, <1>2, <1>4, <1>8, <1>9 DEF TypeOK
<1>12. ASSUME NEW d \in Conns
       PROVE  /\ ctx'[d].runs = ctx[d].runs /\ ctx'[d].life = ctx[d].life
              /\ ctx'[d].gen = ctx[d].gen
              /\ ctx'[d].open <=> ctx[d].open
              /\ ctx'[d].closing <=> ctx[d].closing
              /\ ctx'[d].cancel <=> ctx[d].cancel
  <2>1. CASE d = c
    BY <1>6, <1>8, <2>1
  <2>2. CASE d # c
    BY <1>8, <2>2
  <2>. QED
    BY <2>1, <2>2
<1>13. Counted'
  <2>1. ASSUME NEW d \in Conns
        PROVE  ctx'[d].runs = Cardinality(RunsOf(stack', d))
    BY <1>1, <1>9, <1>12 DEF Counted
  <2>. QED
    BY <2>1 DEF Counted
<1>14. Alone'
  BY <1>1, <1>2, <1>9 DEF Alone
<1>15. ContextOutlivesRuns'
  <2>1. ASSUME NEW i \in 1 .. Len(stack)
        PROVE  ctx'[stack'[i].conn].life = "live" \/ overlapped[stack'[i].conn]
    BY <1>1, <1>9, <1>10, <1>12 DEF ContextOutlivesRuns
  <2>2. ASSUME NEW d \in Conns, ctx'[d].life = "live", ctx'[d].closing
        PROVE  ctx'[d].runs > 0
    BY <1>1, <1>12, <2>2 DEF ContextOutlivesRuns
  <2>. QED
    BY <1>2, <1>9, <2>1, <2>2 DEF ContextOutlivesRuns
<1>16. Lives'
  <2>1. ASSUME NEW i \in 1 .. Len(stack)
        PROVE  ctx'[stack'[i].conn].life # "none"
    BY <1>1, <1>9, <1>10, <1>12 DEF Lives
  <2>2. ASSUME NEW d \in Conns
        PROVE  /\ ctx'[d].open => ctx'[d].life = "live" /\ ~ctx'[d].closing
               /\ ctx'[d].life = "none" => ~ctx'[d].closing
    BY <1>1, <1>12 DEF Lives
  <2>. QED
    BY <1>9, <2>1, <2>2 DEF Lives
<1>17. Waits'
  <2>1. ASSUME NEW i \in 1 .. Len(stack), stack'[i].step = "approval"
        PROVE  /\ stack'[i].id \in Requests
               /\ stack'[i].id = ctx'[stack'[i].conn].pending \/ overlapped[stack'[i].conn]
    <3>1. CASE i = Len(stack)
      BY <1>4, <1>5, <1>6, <1>8, <1>9, <3>1
    <3>2. CASE i # Len(stack) /\ stack[i].conn = c
      <4>1. overlapped[stack[i].conn]
        BY <1>1, <1>3, <1>7, <3>2 DEF Alone
      <4>. QED
        BY <1>1, <1>9, <2>1, <3>2, <4>1 DEF Waits
    <3>3. CASE i # Len(stack) /\ stack[i].conn # c
      BY <1>1, <1>8, <1>9, <1>10, <2>1, <3>3 DEF Waits
    <3>. QED
      BY <3>1, <3>2, <3>3
  <2>. QED
    BY <1>2, <1>9, <2>1 DEF Waits
<1>18. Answers'
  <2>1. ASSUME NEW d \in Conns, ctx'[d].result
        PROVE  ctx'[d].pending \in approved
    BY <1>1, <1>6, <1>8, <2>1 DEF Answers
  <2>. QED
    BY <1>2, <2>1 DEF Answers
<1>19. Gone'
  <2>1. ASSUME NEW d \in Conns, ctx'[d].life = "live", ~ctx'[d].open \/ ~Valid(d)'
        PROVE  ~ctx'[d].result /\ ctx'[d].cancel
    <3>1. /\ ctx[d].life = "live" /\ (~ctx[d].open \/ ~Valid(d))
          /\ ctx'[d].cancel <=> ctx[d].cancel
      BY <1>2, <1>12, <2>1 DEF Valid
    <3>2. ~ctx[d].result /\ ctx[d].cancel
      BY <1>1, <3>1 DEF Gone
    <3>3. ~ctx'[d].result
      BY <1>6, <1>8, <3>2
    <3>. QED
      BY <3>1, <3>2, <3>3
  <2>. QED
    BY <2>1 DEF Gone
<1>20. OwnApproval'
  BY <1>1, <1>2 DEF OwnApproval
<1>21. Busy'
  BY <1>1, <1>2, <1>5, <1>9 DEF Busy
<1>. QED
  BY <1>21, <1>11, <1>13, <1>14, <1>15, <1>16, <1>17, <1>18, <1>19, <1>20 DEF IInv

\* The next call of a run that has one.
LEMMA NextCallType ==
  ASSUME Top \in Frame, Top.calls > 0
  PROVE  /\ NextCall(Top) \in Frame
         /\ NextCall(Top).conn = Top.conn
         /\ NextCall(Top).step = "tools"
<1>1. Top.calls \in 0 .. MaxCalls /\ Top.calls - 1 \in 0 .. MaxCalls
  BY BoundsAssumption DEF Frame
<1>. QED
  BY <1>1 DEF NextCall, Frame

\* The verdict that a run reads is the one on its own request.
LEMMA EndApprovalKeeps ==
  ASSUME IInv, EndApproval
  PROVE  IInv'
<1>. DEFINE f == NextCall(Top)
            q == <<Top.conn, Top.id>>
<1>1. /\ TypeOK /\ Waits /\ Busy /\ Answers /\ OwnApproval
  BY DEF IInv
<1>2. /\ ~Idle /\ Top.step = "approval" /\ GoOn(f) /\ UNCHANGED <<ctx, lastId>>
      /\ ran' = IF ctx[Top.conn].result THEN ran \cup {q} ELSE ran
      /\ UNCHANGED <<approved, overlapped>>
  BY DEF EndApproval, TopAlive, GoOn
<1>3. /\ Len(stack) \in 1 .. Len(stack) /\ Top \in Frame /\ Top = stack[Len(stack)]
      /\ Top.conn \in Conns
  BY <1>1, <1>2, TopProperties DEF TypeOK, Frame
<1>4. Top.id \in Requests /\ (Top.id = ctx[Top.conn].pending \/ overlapped[Top.conn])
  BY <1>1, <1>2, <1>3 DEF Waits
<1>5. ctx[Top.conn].result => ctx[Top.conn].pending \in approved
  BY <1>1, <1>3 DEF Answers
<1>6. ran' \in SUBSET (Conns \X Requests)
  BY <1>1, <1>2, <1>3, <1>4 DEF TypeOK
<1>7. OwnApproval'
  <2>1. ctx[Top.conn].result => (q[2] \in approved \/ overlapped[q[1]])
    BY <1>4, <1>5
  <2>. HIDE DEF q
  <2>. QED
    BY <1>1, <1>2, <2>1 DEF OwnApproval
<1>8. f \in Frame /\ f.conn = Top.conn /\ f.step = "tools"
  BY <1>1, <1>2, <1>3, NextCallType DEF Busy
<1>. QED
  BY <1>2, <1>6, <1>7, <1>8, GoOnKeeps

-----------------------------------------------------------------------------
(* The theorems                                                            *)

\* The invariant holds at the start.
LEMMA InitEstablishes ==
  Init => IInv
<1>. SUFFICES ASSUME Init PROVE IInv
  OBVIOUS
<1>1. stack = <<>> /\ Len(stack) = 0 /\ stack \in Seq(Frame)
  BY EmptySeq DEF Init
<1>2. \A c \in Conns : ctx[c] = NoContext
  BY DEF Init
<1>3. NoContext \in Context
  BY BoundsAssumption DEF NoContext, Context
<1>4. TypeOK
  <2>1. ctx \in [Conns -> Context] /\ overlapped \in [Conns -> BOOLEAN]
    BY <1>3 DEF Init
  <2>2. generation \in 0 .. MaxGeneration /\ lastId \in Requests \cup {0}
    BY BoundsAssumption DEF Init
  <2>. QED
    BY <1>1, <2>1, <2>2 DEF Init, TypeOK
<1>5. Counted
  <2>1. \A c : RunsOf(stack, c) = {}
    BY <1>1 DEF RunsOf
  <2>2. ASSUME NEW c \in Conns
        PROVE  ctx[c].runs = 0
    BY <1>2 DEF NoContext
  <2>3. Cardinality({}) = 0
    BY FS_EmptySet
  <2>. QED
    BY <2>1, <2>2, <2>3 DEF Counted
<1>6. Alone /\ Waits /\ Busy
  BY <1>1 DEF Alone, Waits, Busy
<1>7. ContextOutlivesRuns /\ Lives
  BY <1>1, <1>2 DEF ContextOutlivesRuns, Lives, NoContext
<1>8. Answers /\ Gone
  BY <1>2 DEF Answers, Gone, NoContext
<1>9. OwnApproval
  BY DEF Init, OwnApproval
<1>. QED
  BY <1>4, <1>5, <1>6, <1>7, <1>8, <1>9 DEF IInv

\* Every step of the innermost run keeps it.
LEMMA RunKeeps ==
  ASSUME IInv, Run
  PROVE  IInv'
<1>1. /\ TypeOK /\ Busy /\ OwnApproval
  BY DEF IInv
<1>2. CASE GiveUp
  BY <1>2, EndRunKeeps DEF GiveUp
<1>3. CASE LastResponse
  BY <1>3, EndRunKeeps DEF LastResponse
<1>4. ASSUME ~Idle
      PROVE  /\ Top \in Frame /\ Len(stack) \in 1 .. Len(stack) /\ Top = stack[Len(stack)]
             /\ ran \in SUBSET (Conns \X Requests)
  BY <1>1, <1>4, TopProperties DEF TypeOK
<1>5. ASSUME ran' = ran, UNCHANGED <<approved, overlapped>>
      PROVE  OwnApproval'
  BY <1>1, <1>5 DEF OwnApproval
<1>6. CASE CallTools
  <2>1. PICK n \in 1 .. MaxCalls :
          GoOn([Top EXCEPT !.step = "tools", !.calls = n, !.iter = @ + 1])
    BY <1>6 DEF CallTools
  <2>. DEFINE f == [Top EXCEPT !.step = "tools", !.calls = n, !.iter = Top.iter + 1]
  <2>2. ~Idle /\ Top.iter # MaxIterations /\ GoOn(f) /\ UNCHANGED <<ctx, lastId, ran>>
    BY <1>6, <2>1 DEF CallTools, TopAlive, Cancelled
  <2>3. Top.iter + 1 \in 0 .. MaxIterations /\ n \in 0 .. MaxCalls
    BY <1>4, <2>2, BoundsAssumption DEF Frame
  <2>4. f \in Frame /\ f.conn = Top.conn /\ f.step = "tools"
    BY <1>4, <2>2, <2>3 DEF Frame
  <2>. HIDE DEF f
  <2>5. UNCHANGED <<approved, overlapped>>
    BY <2>2 DEF GoOn
  <2>. QED
    BY <1>4, <1>5, <2>2, <2>4, <2>5, GoOnKeeps
<1>7. CASE ToolsDone
  <2>. DEFINE f == [Top EXCEPT !.step = "llm"]
  <2>1. ~Idle /\ GoOn(f) /\ UNCHANGED <<ctx, lastId, ran>>
    BY <1>7 DEF ToolsDone, TopAlive
  <2>2. f \in Frame /\ f.conn = Top.conn /\ f.step = "llm"
    BY <1>4, <2>1 DEF Frame
  <2>. HIDE DEF f
  <2>3. UNCHANGED <<approved, overlapped>>
    BY <2>1 DEF GoOn
  <2>. QED
    BY <1>4, <1>5, <2>1, <2>2, <2>3, GoOnKeeps
<1>8. CASE SimpleCall \/ EndAsk
  <2>1. /\ ~Idle /\ GoOn(NextCall(Top)) /\ UNCHANGED <<ctx, lastId, ran>>
        /\ Top.calls > 0 \/ Top.step = "ask"
    BY <1>8 DEF SimpleCall, InTools, EndAsk, TopAlive
  <2>2. Top.calls > 0
    BY <1>1, <1>4, <2>1 DEF Busy
  <2>3. /\ NextCall(Top) \in Frame /\ NextCall(Top).conn = Top.conn
        /\ NextCall(Top).step = "tools"
    BY <1>4, <2>1, <2>2, NextCallType
  <2>4. UNCHANGED <<approved, overlapped>>
    BY <2>1 DEF GoOn
  <2>. QED
    BY <1>4, <1>5, <2>1, <2>3, <2>4, GoOnKeeps
<1>9. CASE RequestApproval
  BY <1>9, RequestApprovalKeeps
<1>10. CASE EndApproval
  BY <1>10, EndApprovalKeeps
<1>11. CASE AskUser
  <2>. DEFINE f == [Top EXCEPT !.step = "ask"]
  <2>1. ~Idle /\ Top.calls > 0 /\ GoOn(f) /\ UNCHANGED <<ctx, lastId, ran>>
    BY <1>11 DEF AskUser, InTools, TopAlive
  <2>2. f \in Frame /\ f.conn = Top.conn /\ f.step = "ask" /\ f.calls = Top.calls
    BY <1>4, <2>1 DEF Frame
  <2>. HIDE DEF f
  <2>3. UNCHANGED <<approved, overlapped>>
    BY <2>1 DEF GoOn
  <2>. QED
    BY <1>4, <1>5, <2>1, <2>2, <2>3, GoOnKeeps
<1>12. CASE UseAfterFree
  BY <1>12, UseAfterFreeKeeps
<1>. QED
  BY <1>2, <1>3, <1>6, <1>7, <1>8, <1>9, <1>10, <1>11, <1>12 DEF Run

\* The invariant is inductive.
LEMMA NextKeeps ==
  IInv /\ [Next]_vars => IInv'
<1>. SUFFICES ASSUME IInv, [Next]_vars PROVE IInv'
  OBVIOUS
<1>1. CASE Run
  BY <1>1, RunKeeps
<1>2. ASSUME NEW c \in Conns, Client(c)
      PROVE  IInv'
  <2>1. CASE \E id \in Requests, ok \in BOOLEAN : Respond(c, id, ok)
    BY <2>1, RespondKeeps
  <2>. QED
    BY <1>2, <2>1, ConnectKeeps, StartRunKeeps, StopKeeps, CloseKeeps DEF Client
<1>3. CASE Logout
  BY <1>3, LogoutKeeps
<1>4. CASE Unlock
  BY <1>4, UnlockKeeps
<1>5. CASE UNCHANGED vars
  BY <1>5 DEF vars, IInv, TypeOK, Counted, Alone, ContextOutlivesRuns, Lives, Waits,
              Busy, Answers, Gone, Valid, OwnApproval
<1>. QED
  BY <1>1, <1>2, <1>3, <1>4, <1>5 DEF Next

LEMMA Invariance == Spec => []IInv
<1>. QED
  BY InitEstablishes, NextKeeps, PTL DEF Spec

\* The type invariant of the chat.
THEOREM TypeCorrect == Spec => []TypeOK
<1>1. IInv => TypeOK
  BY DEF IInv
<1>. QED
  BY <1>1, Invariance, PTL

\* An approval covers the tool call it was asked for and no other, as long as
\* no frame of the connection starts a run inside a run.
THEOREM ApprovalIsOwn == Spec => []OwnApproval
<1>1. IInv => OwnApproval
  BY DEF IInv
<1>. QED
  BY <1>1, Invariance, PTL

\* The context of a connection is freed after its last run and, once it is
\* closing, with it.
THEOREM NoUseAfterFree == Spec => []ContextOutlivesRuns
<1>1. IInv => ContextOutlivesRuns
  BY DEF IInv
<1>. QED
  BY <1>1, Invariance, PTL

\* After a close or a logout no pending approval and no later call of the
\* model does anything for that connection.
THEOREM ExpiryHolds == Spec => ExpiredDoesNothing
<1>1. ASSUME IInv, [Next]_vars, NEW c \in Conns, ~ctx[c].open \/ ~Valid(c)
      PROVE  /\ \A id \in Requests : <<c, id>> \in ran' => <<c, id>> \in ran
             /\ ~(CallTools /\ Top.conn = c)
  <2>1. ASSUME TopAlive, Top.conn = c
        PROVE  ~ctx[c].result /\ ctx[c].cancel
    <3>1. /\ TypeOK /\ Lives /\ Gone /\ ~Idle
      BY <1>1, <2>1 DEF IInv, TopAlive
    <3>2. Len(stack) \in 1 .. Len(stack) /\ Top = stack[Len(stack)]
      BY <3>1, TopProperties DEF TypeOK
    <3>3. ctx[c].life \in {"none", "live", "freed"}
      BY <3>1 DEF TypeOK, Context
    <3>4. ctx[c].life = "live"
      BY <2>1, <3>1, <3>2, <3>3 DEF Lives, TopAlive
    <3>. QED
      BY <1>1, <3>1, <3>4 DEF Gone
  <2>2. ~(CallTools /\ Top.conn = c)
    BY <2>1 DEF CallTools, Cancelled
  <2>3. ran' = ran \/ EndApproval
    BY <1>1 DEF Next, Run, Client, Connect, StartRun, Respond, Stop, Close, Logout,
                Unlock, GiveUp, LastResponse, EndRun, CallTools, ToolsDone, SimpleCall,
                RequestApproval, AskUser, EndAsk, UseAfterFree, vars
  <2>4. CASE EndApproval
    <3>1. CASE Top.conn = c
      <4>1. ran' = ran
        BY <2>1, <2>4, <3>1 DEF EndApproval
      <4>. QED
        BY <2>2, <4>1
    <3>2. CASE Top.conn # c
      <4>1. \A q \in ran' : q \in ran \/ q = <<Top.conn, Top.id>>
        BY <2>4 DEF EndApproval
      <4>. QED
        BY <2>2, <3>2, <4>1
    <3>. QED
      BY <3>1, <3>2
  <2>. QED
    BY <2>2, <2>3, <2>4
<1>2. IInv /\ [Next]_vars =>
        [\A c \in Conns :
           (~ctx[c].open \/ ~Valid(c)) =>
             /\ \A id \in Requests : <<c, id>> \in ran' => <<c, id>> \in ran
             /\ ~(CallTools /\ Top.conn = c)]_vars
  BY <1>1
<1>. QED
  BY <1>2, Invariance, PTL DEF Spec, ExpiredDoesNothing
=============================================================================

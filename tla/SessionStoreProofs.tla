------------------------ MODULE SessionStoreProofs ------------------------
(***************************************************************************)
(* Proofs about the stored sessions.  For any vault: with all callers at      *)
(* work, the store implements the archive (SessionArchive).  For any tabs on   *)
(* one session: its branches are kept (BranchesKept).                         *)
(*                                                                         *)
(* Of the store, the invariant is what a copy, the agent and an exported file  *)
(* have to do with the row they came from; then one lemma per operation, which *)
(* keeps it and shows what the operation is for the archive.  Of the branches,  *)
(* it is what a tab's copy, a run that owes a fork group and the records have   *)
(* to do with the live chain; that every chain is within reach of the pills is  *)
(* a graph whose nodes are the chains, the live one first.                      *)
(***************************************************************************)
EXTENDS MCSessionBranch, FiniteSetTheorems, SequenceTheorems, WellFoundedInduction, TLAPS

\* A set of numbers that is not empty has a least one: the order of Nat is well
\* founded.
LEMMA LeastNat ==
  ASSUME NEW T \in SUBSET Nat, T # {}
  PROVE  \E m \in T : \A k \in T : m <= k
<1> DEFINE R == {p \in Nat \X Nat : p[1] < p[2]}
<1>1. IsWellFoundedOn(R, Nat)
  BY NatLessThanWellFounded DEF OpToRel
<1>2. \A k, m \in Nat : k < m => <<k, m>> \in R
  OBVIOUS
<1> HIDE DEF R
<1>3. PICK m \in T : \A k \in T : ~(<<k, m>> \in R)
  BY <1>1, WFMin
<1>4. ASSUME NEW k \in T PROVE m <= k
  <2>1. m \in Nat /\ k \in Nat /\ ~(k < m)
    BY <1>2, <1>3
  <2>2. QED
    BY <2>1
<1>5. QED
  BY <1>4

-----------------------------------------------------------------------------
(* Histories                                                               *)
\* The histories that IsPrefix relates, element by element.
LEMMA PrefixIs ==
  ASSUME NEW S, NEW s \in Seq(S), NEW t \in Seq(S)
  PROVE  IsPrefix(s, t) <=> Len(s) <= Len(t) /\ \A i \in 1..Len(s) : s[i] = t[i]
<1>1. CASE Len(s) <= Len(t)
  <2>1. /\ Len(SubSeq(s, 1, Len(s))) = Len(s) /\ Len(SubSeq(t, 1, Len(s))) = Len(s)
        /\ \A i \in 1..Len(s) : SubSeq(s, 1, Len(s))[i] = s[i]
           /\ SubSeq(t, 1, Len(s))[i] = t[i]
    BY <1>1
  <2>2. SubSeq(s, 1, Len(s)) \in Seq(S) /\ SubSeq(t, 1, Len(s)) \in Seq(S)
    BY <1>1
  <2>3. SubSeq(s, 1, Len(s)) = SubSeq(t, 1, Len(s)) <=> \A i \in 1..Len(s) : s[i] = t[i]
    BY <2>1, <2>2
  <2>4. QED
    BY <1>1, <2>3 DEF IsPrefix
<1>2. CASE ~(Len(s) <= Len(t))
  BY <1>2 DEF IsPrefix
<1>3. QED
  BY <1>1, <1>2

\* A history begins with itself.
LEMMA PrefixSelf ==
  ASSUME NEW S, NEW s \in Seq(S)
  PROVE  IsPrefix(s, s)
BY PrefixIs

\* A message at the end leaves what was there (agent.c appends only).
LEMMA PrefixAppend ==
  ASSUME NEW S, NEW s \in Seq(S), NEW m \in S
  PROVE  IsPrefix(s, Append(s, m)) /\ Append(s, m) \in Seq(S)
<1> DEFINE t == Append(s, m)
<1>1. t \in Seq(S) /\ Len(t) = Len(s) + 1 /\ Len(s) \in Nat
      /\ \A i \in 1..Len(s) : t[i] = s[i]
  OBVIOUS
<1> HIDE DEF t
<1>2. IsPrefix(s, t)
  BY <1>1, PrefixIs
<1>3. QED
  BY <1>1, <1>2 DEF t

\* What begins with t begins with what t begins with.
LEMMA PrefixTrans ==
  ASSUME NEW S, NEW s \in Seq(S), NEW t \in Seq(S), NEW u \in Seq(S), IsPrefix(s, t),
         IsPrefix(t, u)
  PROVE  IsPrefix(s, u)
BY PrefixIs

\* import_session_build, which leaves system messages out, gives back the session
\* that was exported, with or without a system message before it.  A least number
\* of messages at which its loop went wrong would contradict its step.
LEMMA ImportKeeps ==
  ASSUME NEW row \in Rows, NEW before \in {<<>>, <<System>>}
  PROVE  Imported([row EXCEPT !.msgs = before \o @]) = row
<1> DEFINE s == before \o row.msgs
           B == Len(before)
           K == [n \in 0..Len(s) |-> IF n <= B THEN <<>> ELSE SubSeq(row.msgs, 1, n - B)]
           Eq(F) ==
             F = [n \in 0..Len(s) |->
                    IF n = 0 THEN <<>>
                    ELSE IF s[n] = System THEN F[n - 1] ELSE Append(F[n - 1], s[n])]
           Kept == CHOOSE F : Eq(F)
<1>1. /\ row.msgs \in Seq(Messages)
      /\ B \in {0, 1}
      /\ s \in Seq(Nat)
      /\ Len(s) = B + Len(row.msgs)
      /\ \A i \in 1..Len(s) : s[i] = IF i <= B THEN System ELSE row.msgs[i - B]
      /\ \A i \in 1..Len(row.msgs) : row.msgs[i] # System
  <2>1. /\ row.msgs \in Seq(Messages)
        /\ Messages \subseteq Nat
        /\ System \in Nat
        /\ System \notin Messages
    <3>1. row.msgs \in Seq(Messages)
      BY DEF Rows
    <3>2. QED
      BY <3>1, StoreAssumption DEF Messages, System
  <2>2. before \in Seq(Nat) /\ row.msgs \in Seq(Nat) /\ B \in {0, 1}
        /\ (B = 1 => before[1] = System)
    <3>0. row.msgs \in Seq(Nat)
      BY <2>1, SeqMonotonic
    <3>1. CASE before = <<>>
      BY <2>1, <3>0, <3>1
    <3>2. CASE before = <<System>>
      BY <2>1, <3>0, <3>2
    <3>3. QED
      BY <3>1, <3>2
  <2>3. QED
    BY <2>1, <2>2
<1> HIDE DEF s, B
<1>2. ASSUME NEW n \in 0..Len(s)
      PROVE  K[n] = IF n = 0 THEN <<>> ELSE IF s[n]
             = System THEN K[n - 1] ELSE Append(K[n - 1], s[n])
  <2>1. CASE n <= B
    BY <1>1, <2>1
  <2>2. CASE n > B
    <3>1. /\ n - B \in 1..Len(row.msgs)
          /\ n - 1 \in 0..Len(s)
          /\ n # 0
          /\ s[n] = row.msgs[n - B]
          /\ s[n] # System
      <4>1. /\ n \in 1..Len(s)
            /\ n - B \in 1..Len(row.msgs)
            /\ n - 1 \in 0..Len(s)
            /\ n # 0
            /\ ~(n <= B)
        BY <1>1, <2>2
      <4>2. s[n] = row.msgs[n - B]
        BY <1>1, <4>1
      <4>3. QED
        BY <1>1, <4>1, <4>2
    <3>2. K[n] = SubSeq(row.msgs, 1, n - B)
      BY <1>1, <2>2
    <3>3. K[n - 1] = SubSeq(row.msgs, 1, n - B - 1)
      BY <1>1, <2>2, <3>1
    <3>4. SubSeq(row.msgs, 1, n - B)
          = Append(SubSeq(row.msgs, 1, n - B - 1), row.msgs[n - B])
      <4> DEFINE k == n - B
      <4>1. k \in 1..Len(row.msgs)
        BY <3>1
      <4> HIDE DEF k
      <4>2. SubSeq(row.msgs, 1, k) = Append(SubSeq(row.msgs, 1, k - 1), row.msgs[k])
        BY <1>1, <4>1
      <4>3. QED
        BY <4>2 DEF k
    <3>5. QED
      BY <3>1, <3>2, <3>3, <3>4
  <2>3. QED
    BY <1>1, <2>1, <2>2
<1>3. Eq(K)
  BY <1>2
<1> HIDE DEF K
<1>4. Eq(Kept)
  <2> HIDE DEF Eq
  <2>1. QED
    BY <1>3
<1> HIDE DEF Kept
<1>5. \A n \in 0..Len(s) : Kept[n] = K[n]
  <2> DEFINE Bad == {n \in Nat : n <= Len(s) /\ Kept[n] # K[n]}
  <2>1. SUFFICES ASSUME Bad # {} PROVE FALSE
    BY <1>1
  <2>2. PICK m \in Bad : \A k \in Bad : m <= k
    <3> HIDE DEF Bad
    <3>1. Bad \in SUBSET Nat
      BY DEF Bad
    <3>2. QED
      BY <2>1, <3>1, LeastNat
  <2>3. m \in 0..Len(s) /\ (m # 0 => m - 1 \in 0..Len(s) /\ Kept[m - 1] = K[m - 1])
    BY <1>1, <2>2
  <2>4. Kept[m] = IF m = 0 THEN <<>> ELSE IF s[m]
        = System THEN Kept[m - 1] ELSE Append(Kept[m - 1], s[m])
    BY <1>4, <2>3
  <2>5. QED
    BY <1>2, <2>2, <2>3, <2>4
<1>6. Kept[Len(s)] = row.msgs
  <2>1. K[Len(s)] = IF Len(s) <= B THEN <<>> ELSE SubSeq(row.msgs, 1, Len(s) - B)
    BY <1>1 DEF K
  <2>2. Kept[Len(s)] = K[Len(s)]
    BY <1>1, <1>5
  <2>3. CASE Len(row.msgs) = 0
    BY <1>1, <2>1, <2>2, <2>3
  <2>4. CASE Len(row.msgs) > 0
    <3>1. Kept[Len(s)] = SubSeq(row.msgs, 1, Len(row.msgs))
      BY <1>1, <2>1, <2>2, <2>4
    <3>2. SubSeq(row.msgs, 1, Len(row.msgs)) = row.msgs
      BY <1>1
    <3>3. QED
      BY <3>1, <3>2
  <2>5. QED
    BY <1>1, <2>3, <2>4
<1> DEFINE r == [row EXCEPT !.msgs = s]
<1>7. r.msgs = s
  BY DEF Rows
<1>8. Imported(r) = [r EXCEPT !.msgs = Kept[Len(s)]]
  BY <1>7 DEF Imported, Kept
<1>9. [r EXCEPT !.msgs = row.msgs] = row
  BY DEF Rows
<1>10. QED
  BY <1>6, <1>8, <1>9 DEF s

-----------------------------------------------------------------------------
(* The invariant.                                                          *)
\* Types, with those of the history variables.
StoreTyped ==
    /\ front \in {"terminal", "server", "library"}
    /\ rows \in [SessionIds -> Rows \cup {NoRow}]
    /\ agent \in [id : SessionIds \cup {NoId}, msgs : Seq(Messages), store : BOOLEAN]
    /\ work \in {"idle", "turn", "tool", "answered", "title", "mark", "marking", "model",
                 "titling", "end", "rename"}
    /\ loaded \in [Threads -> {NoCopy} \cup [id : SessionIds, row : Rows]]
    /\ shown \in SessionIds \cup {NoId}
    /\ file \in {NoCopy} \cup [id : SessionIds, row : Rows]
    /\ said \in 0..MaxSaid /\ misled \in BOOLEAN
    /\ overtaken \in [Threads -> BOOLEAN]
    /\ loose \subseteq SessionIds /\ dead \subseteq SessionIds
    /\ made \in [SessionIds -> Nat]
\* A copy is held only on the way to a save, of the agent's session when it is for
\* a title; the UI thread and renames are the terminal's; the library has no agent.
Stages ==
    /\ (loaded["worker"] # NoCopy) = (work \in {"marking", "titling", "rename"})
    /\ work \in {"marking", "titling"} => loaded["worker"].id = agent.id
    /\ loaded["other"] # NoCopy => front = "terminal"
    /\ work = "rename" => front = "terminal"
    /\ front = "library" => agent.id = NoId /\ work = "idle"
\* A copy can be read, and is the row unless another caller overtook it.
Copies ==
    \A t \in Threads : loaded[t] # NoCopy =>
       /\ loaded[t].row.good
       /\ overtaken[t] \/ (Readable(loaded[t].id) /\ loaded[t].row = rows[loaded[t].id])
\* What was deleted is gone, or loose.
Buried == \A id \in dead \ loose : rows[id] = NoRow
\* The agent's session can be read, if it is there, and what is stored of it begins
\* what the agent has: a save of the agent's messages loses none.
AgentAhead ==
    /\ agent.id \in SessionIds => rows[agent.id] = NoRow \/ rows[agent.id].good
    /\ agent.id \in SessionIds \ loose /\ rows[agent.id] # NoRow =>
         IsPrefix(rows[agent.id].msgs, agent.msgs)
\* What was exported begins what is stored, or the session is deleted; and it begins
\* what the agent has.
FileBehind ==
    file # NoCopy =>
       /\ front = "server" /\ file.row.good
       /\ \/ file.id \in loose
          \/ rows[file.id] = NoRow /\ file.id \in dead
          \/ rows[file.id] # NoRow /\ rows[file.id].good
             /\ IsPrefix(file.row.msgs, rows[file.id].msgs)
       /\ agent.id = file.id /\ file.id \notin loose => IsPrefix(file.row.msgs, agent.msgs)
\* A title is made only after its mark is saved, and no title had been made when the
\* one in work was begun.
TitledOnce ==
    /\ \A id \in SessionIds \ loose :
         /\ made[id] \in {0, 1}
         /\ rows[id] = NoRow /\ id \notin dead => made[id] = 0
         /\ rows[id] # NoRow /\ made[id] = 1 => rows[id].tried
    /\ agent.id \in SessionIds \ loose =>
         /\ work \in {"mark", "marking", "model", "titling"} => made[agent.id] = 0
         /\ work \in {"model", "titling"} /\ rows[agent.id] # NoRow => rows[agent.id].tried
\* The inductive invariant.
StoreInv ==
    StoreTyped /\ Stages /\ Copies /\ Buried /\ AgentAhead /\ FileBehind /\ TitledOnce

\* No row and no copy are no row and no copy; messages are numbers.
LEMMA StoreNumbers ==
  /\ NoId \notin SessionIds /\ NoRow \notin Rows /\ MaxSaid \in Nat
  /\ NoCopy \notin [id : SessionIds, row : Rows]
  /\ Messages \subseteq Nat
<1>1. NoId \notin SessionIds /\ MaxSaid \in Nat /\ Messages \subseteq Nat
  BY StoreAssumption DEF Messages
<1>2. NoRow \notin Rows
  BY RowAssumption
<1>3. NoCopy \notin [id : SessionIds, row : Rows]
  BY <1>1 DEF NoCopy
<1>4. QED
  BY <1>1, <1>2, <1>3

\* A row with a new title, history, mark or event is a row.
LEMMA RowIs ==
  ASSUME NEW r \in Rows
  PROVE  /\ r # NoRow /\ r.msgs \in Seq(Messages) /\ r.good \in BOOLEAN
            /\ r.tried \in BOOLEAN
         /\ \A t \in Titles : [r EXCEPT !.title = t] \in Rows
         /\ \A m \in Seq(Messages) : [r EXCEPT !.msgs = m] \in Rows
         /\ [r EXCEPT !.tried = TRUE] \in Rows /\ [r EXCEPT !.events = 1] \in Rows
<1>1. r # NoRow
  BY StoreNumbers
<1>2. r.msgs \in Seq(Messages) /\ r.good \in BOOLEAN /\ r.tried \in BOOLEAN
  BY DEF Rows
<1>3. \A t \in Titles : [r EXCEPT !.title = t] \in Rows
  BY DEF Rows
<1>4. \A m \in Seq(Messages) : [r EXCEPT !.msgs = m] \in Rows
  BY DEF Rows
<1>5. [r EXCEPT !.tried = TRUE] \in Rows
  BY DEF Rows
<1>6. [r EXCEPT !.events = 1] \in Rows
  BY DEF Rows
<1>7. QED
  BY <1>1, <1>2, <1>3, <1>4, <1>5, <1>6

\* And what a save does not write of a row stays.
LEMMA RowKeeps ==
  ASSUME NEW r \in Rows
  PROVE  /\ \A t : /\ [r EXCEPT !.title = t].msgs = r.msgs
                   /\ [r EXCEPT !.title = t].good = r.good
                   /\ [r EXCEPT !.title = t].tried = r.tried
         /\ \A m : /\ [r EXCEPT !.msgs = m].msgs = m
                   /\ [r EXCEPT !.msgs = m].good = r.good
                   /\ [r EXCEPT !.msgs = m].tried = r.tried
         /\ [r EXCEPT !.tried = TRUE].msgs = r.msgs
         /\ [r EXCEPT !.tried = TRUE].good = r.good
         /\ [r EXCEPT !.tried = TRUE].tried = TRUE
         /\ [r EXCEPT !.events = 1].msgs = r.msgs
         /\ [r EXCEPT !.events = 1].good = r.good
         /\ [r EXCEPT !.events = 1].tried = r.tried
BY DEF Rows

\* The types of the parts that the proofs use.
LEMMA StoreParts ==
  ASSUME StoreTyped
  PROVE  /\ agent.id \in SessionIds \cup {NoId} /\ agent.msgs \in Seq(Messages)
            /\ agent.store \in BOOLEAN
         /\ \A id \in SessionIds : rows[id] = NoRow \/ rows[id] \in Rows
         /\ \A t \in Threads : loaded[t] = NoCopy
            \/ (loaded[t].id \in SessionIds /\ loaded[t].row \in Rows)
         /\ \A t \in Threads : overtaken[t] \in BOOLEAN
         /\ file = NoCopy \/ (file.id \in SessionIds /\ file.row \in Rows)
         /\ \A id \in SessionIds : made[id] \in Nat
BY DEF StoreTyped

-----------------------------------------------------------------------------
(* Moves of the archive                                                    *)
\* A session that no step touched is the same in the archive.
LEMMA StaysSo ==
  ASSUME NEW id \in SessionIds, rows'[id] = rows[id], made'[id] = made[id],
         (id \in loose') = (id \in loose), (id \in dead') = (id \in dead)
  PROVE  Archived(id)' = Archived(id)
BY DEF Archived

\* Of a session that is loose nothing is promised.
LEMMA Loosens ==
  ASSUME NEW id \in SessionIds, id \in loose'
  PROVE  Archive!Loosened(id)
BY DEF Archived, Archive!Loosened, Archive!Loose, Archive!Entry

\* A row with a new id begins a session.
LEMMA Begins ==
  ASSUME NEW id \in SessionIds, rows[id] = NoRow, id \notin loose, id \notin dead,
         rows'[id] # NoRow, id \notin loose', id \notin dead', made'[id] = 0
  PROVE  Archive!Begins(id)
BY DEF Archived, Archive!Begins, Archive!None, Archive!Entry

\* A deleted session returns with an import.
LEMMA Returns ==
  ASSUME NEW id \in SessionIds, id \notin loose, id \in dead, rows[id] = NoRow,
         rows'[id] # NoRow, id \notin loose', id \notin dead', imports' = 1 - imports
  PROVE  Archive!Returns(id)
BY DEF Archived, Archive!Returns, Archive!Gone, Archive!Entry

\* A row whose history got longer, or stayed, grows.
LEMMA Grows ==
  ASSUME NEW id \in SessionIds, id \notin loose, id \notin dead, rows[id] # NoRow,
         rows'[id] # NoRow, id \notin loose', id \notin dead', made'[id] = made[id],
         IsPrefix(rows[id].msgs, rows'[id].msgs)
  PROVE  Archive!Grows(id)
<1>1. /\ Archived(id).state = "kept"
      /\ Archived(id).history = rows[id].msgs
      /\ Archived(id).made = made[id]
      /\ Archived(id)'.state = "kept"
      /\ Archived(id)'.history = rows'[id].msgs
      /\ Archived(id)'.made = made'[id]
  BY DEF Archived
<1>2. QED
  BY <1>1 DEF Archive!Grows, Archive!IsPrefix, IsPrefix

\* The first title made for a session.
LEMMA Titles1 ==
  ASSUME NEW id \in SessionIds, id \notin loose, id \notin dead, rows[id] # NoRow,
         rows'[id] # NoRow, id \notin loose', id \notin dead', made[id] = 0, made'[id] = 1,
         rows[id].msgs = rows'[id].msgs
  PROVE  Archive!Titled(id)
BY DEF Archived, Archive!Titled

\* A row that goes is a deletion.
LEMMA Deletes ==
  ASSUME NEW id \in SessionIds, id \notin loose, id \notin dead, rows[id] # NoRow,
         id \notin loose', id \in dead'
  PROVE  Archive!Deleted(id)
BY DEF Archived, Archive!Deleted, Archive!Gone, Archive!Entry

\* A session's entry in the archive moves as the archive promises.
Moves(id) ==
    \/ Archived(id)' = Archived(id)
    \/ Archive!Begins(id) \/ Archive!Returns(id) \/ Archive!Grows(id) \/ Archive!Titled(id)
    \/ Archive!Deleted(id) \/ Archive!Loosened(id)

\* A step whose every session moves as promised is a step of the archive.
LEMMA MapsNext ==
  ASSUME \A id \in SessionIds : Moves(id)
  PROVE  Archive!Next
BY DEF Archive!Next, Moves

\* A step that writes no row is one.
LEMMA QuietMaps ==
  ASSUME UNCHANGED <<rows, loose, dead, made>>
  PROVE  Archive!Next
BY StaysSo, MapsNext DEF Moves

-----------------------------------------------------------------------------
(* Steps that write no row                                                 *)
\* session_manager_load_session_alloc for a later save: the copy is the row.
LEMMA TakesIs ==
  ASSUME StoreTyped, NEW t \in Threads, NEW id \in SessionIds, Readable(id), Takes(t, id)
  PROVE  /\ rows[id] \in Rows /\ rows[id] # NoRow
         /\ loaded'[t] # NoCopy /\ loaded'[t].id = id /\ loaded'[t].row = rows[id]
         /\ \A s \in Threads \ {t} : loaded'[s] = loaded[s]
         /\ loaded' \in [Threads -> {NoCopy} \cup [id : SessionIds, row : Rows]]
<1> DEFINE c == [id |-> id, row |-> rows[id]]
<1>1. rows[id] \in Rows
  BY DEF StoreTyped, Readable
<1>2. c \in [id : SessionIds, row : Rows] /\ c.id = id /\ c.row = rows[id]
  BY <1>1
<1>3. c # NoCopy
  BY <1>2, StoreNumbers
<1>4. loaded' = [loaded EXCEPT ![t] = c]
  BY DEF Takes, Load
<1> HIDE DEF c
<1>5. QED
  BY <1>1, <1>2, <1>3, <1>4, StoreNumbers DEF StoreTyped

\* A load into the agent (job_load, ws_apply_query_session): it has the row's messages.
LEMMA ReadsAgent ==
  ASSUME StoreTyped, NEW id \in SessionIds, Readable(id),
         agent' = [agent EXCEPT !.id = id, !.msgs = rows[id].msgs]
  PROVE  /\ agent'.id = id /\ agent'.msgs = rows[id].msgs /\ rows[id].msgs \in Seq(Messages)
         /\ IsPrefix(rows[id].msgs, rows[id].msgs) /\ rows[id].good
<1>1. rows[id].msgs \in Seq(Messages)
  BY RowIs DEF StoreTyped, Readable
<1>2. IsPrefix(rows[id].msgs, rows[id].msgs)
  BY <1>1, PrefixSelf
<1>3. QED
  BY <1>1, <1>2 DEF StoreTyped, Readable

\* A run that fails keeps the invariant and the archive.
LEMMA TurnFailsSafe ==
  ASSUME StoreInv, TurnFails
  PROVE  StoreInv' /\ Archive!Next
<1>1. StoreTyped'
  BY DEF TurnFails, past, ui, StoreInv, StoreTyped
<1>2. Stages'
  BY DEF TurnFails, past, ui, StoreInv, Stages
<1>3. Copies'
  BY DEF TurnFails, past, ui, StoreInv, Copies, Readable
<1>4. Buried'
  BY DEF TurnFails, past, ui, StoreInv, Buried
<1>5. AgentAhead'
  BY DEF TurnFails, past, ui, StoreInv, AgentAhead
<1>6. FileBehind'
  BY DEF TurnFails, past, ui, StoreInv, FileBehind
<1>7. TitledOnce'
  BY DEF TurnFails, past, ui, StoreInv, TitledOnce
<1>8. Archive!Next
  BY QuietMaps DEF TurnFails, past, ui
<1>9. QED
  BY <1>1, <1>2, <1>3, <1>4, <1>5, <1>6, <1>7, <1>8 DEF StoreInv

\* agent_generate_title looks whether a title is wanted: none is, once the mark of
\* the first is saved.
LEMMA TitleLookSafe ==
  ASSUME StoreInv, TitleLook
  PROVE  StoreInv' /\ Archive!Next
<1>1. StoreTyped'
  BY DEF TitleLook, TitleStep, ui, StoreInv, StoreTyped
<1>2. Stages'
  BY DEF TitleLook, TitleStep, ui, StoreInv, Stages
<1>3. Copies'
  BY DEF TitleLook, TitleStep, ui, StoreInv, Copies, Readable
<1>4. Buried'
  BY DEF TitleLook, TitleStep, ui, StoreInv, Buried
<1>5. AgentAhead'
  BY DEF TitleLook, TitleStep, ui, StoreInv, AgentAhead
<1>6. FileBehind'
  BY DEF TitleLook, TitleStep, ui, StoreInv, FileBehind
<1>7. TitledOnce'
  BY DEF TitleLook, TitleStep, ui, StoreInv, TitledOnce, Readable
<1>8. Archive!Next
  BY QuietMaps DEF TitleLook, TitleStep, ui
<1>9. QED
  BY <1>1, <1>2, <1>3, <1>4, <1>5, <1>6, <1>7, <1>8 DEF StoreInv

\* It loads the session again, for the mark (agent_title.c:129) or for the title.
LEMMA TitleLoadSafe ==
  ASSUME StoreInv, NEW from, NEW to, TitleLoad(from, to),
         (from = "mark" /\ to = "marking") \/ (from = "model" /\ to = "titling")
  PROVE  StoreInv' /\ Archive!Next
<1>0. /\ work = from /\ UNCHANGED <<front, agent, said, dead, imports, shown, file, misled>>
      /\ UNCHANGED <<rows, overtaken, loose, made>>
  BY DEF TitleLoad, TitleStep, ui
<1>m. (from = "mark" /\ to = "marking") \/ (from = "model" /\ to = "titling")
  OBVIOUS
<1>n. Archive!Next
  BY <1>0, QuietMaps
<1>o. TitledOnce /\ StoreTyped
  BY DEF StoreInv
<1>1. CASE Readable(agent.id)
  <2>0. /\ agent.id \in SessionIds
        /\ work' = to
        /\ Takes("worker", agent.id)
        /\ "worker" \in Threads
        /\ "other" \in Threads /\ Threads = {"worker", "other"}
    BY <1>1 DEF TitleLoad, TitleStep, Readable, Threads
  <2>t. /\ rows[agent.id] \in Rows /\ rows[agent.id] # NoRow
        /\ loaded'["worker"] # NoCopy
        /\ loaded'["worker"].id = agent.id
        /\ loaded'["worker"].row = rows[agent.id]
        /\ loaded'["other"] = loaded["other"]
        /\ loaded' \in [Threads -> {NoCopy} \cup [id : SessionIds, row : Rows]]
    BY <1>1, <2>0, TakesIs DEF StoreInv
  <2>1. StoreTyped'
    BY <1>0, <1>m, <1>1, <2>0, <2>t DEF StoreInv, StoreTyped, Readable
  <2>2. Stages'
    BY <1>0, <1>m, <1>1, <2>0, <2>t DEF StoreInv, Stages, Readable
  <2>3. Copies'
    BY <1>0, <1>m, <1>1, <2>0, <2>t DEF StoreInv, Copies, Readable
  <2>4. Buried'
    BY <1>0, <1>m, <1>1, <2>0, <2>t DEF StoreInv, Buried, Readable
  <2>5. AgentAhead'
    BY <1>0, <1>m, <1>1, <2>0, <2>t DEF StoreInv, AgentAhead, Readable
  <2>6. FileBehind'
    BY <1>0, <1>m, <1>1, <2>0, <2>t DEF StoreInv, FileBehind, Readable
  <2>7. TitledOnce'
    <3>1. CASE from = "mark"
      BY <1>0, <1>m, <1>o, <2>0, <3>1 DEF TitledOnce
    <3>2. CASE from = "model"
      BY <1>0, <1>m, <1>o, <2>0, <3>2 DEF TitledOnce
    <3>3. QED
      BY <1>m, <3>1, <3>2
  <2>8. QED
    BY <2>1, <2>2, <2>3, <2>4, <2>5, <2>6, <2>7, <1>n DEF StoreInv
<1>2. CASE ~Readable(agent.id)
  <2>0. work' = "end" /\ loaded' = loaded
    BY <1>2 DEF TitleLoad, TitleStep
  <2>1. StoreTyped'
    BY <1>0, <1>m, <2>0 DEF StoreInv, StoreTyped, Readable
  <2>2. Stages'
    BY <1>0, <1>m, <2>0 DEF StoreInv, Stages, Readable
  <2>3. Copies'
    BY <1>0, <1>m, <2>0 DEF StoreInv, Copies, Readable
  <2>4. Buried'
    BY <1>0, <1>m, <2>0 DEF StoreInv, Buried, Readable
  <2>5. AgentAhead'
    BY <1>0, <1>m, <2>0 DEF StoreInv, AgentAhead, Readable
  <2>6. FileBehind'
    BY <1>0, <1>m, <2>0 DEF StoreInv, FileBehind, Readable
  <2>7. TitledOnce'
    BY <1>0, <1>o, <2>0 DEF TitledOnce
  <2>8. QED
    BY <2>1, <2>2, <2>3, <2>4, <2>5, <2>6, <2>7, <1>n DEF StoreInv
<1>3. QED
  BY <1>1, <1>2

\* The end of a run tells the UI the agent's session.
LEMMA EndRunSafe ==
  ASSUME StoreInv, EndRun
  PROVE  StoreInv' /\ Archive!Next
<1>1. StoreTyped'
  BY DEF EndRun, past, StoreInv, StoreTyped
<1>2. Stages'
  BY DEF EndRun, past, StoreInv, Stages
<1>3. Copies'
  BY DEF EndRun, past, StoreInv, Copies, Readable
<1>4. Buried'
  BY DEF EndRun, past, StoreInv, Buried
<1>5. AgentAhead'
  BY DEF EndRun, past, StoreInv, AgentAhead
<1>6. FileBehind'
  BY DEF EndRun, past, StoreInv, FileBehind
<1>7. TitledOnce'
  BY DEF EndRun, past, StoreInv, TitledOnce
<1>8. Archive!Next
  BY QuietMaps DEF EndRun, past
<1>9. QED
  BY <1>1, <1>2, <1>3, <1>4, <1>5, <1>6, <1>7, <1>8 DEF StoreInv

\* The worker's new agent has no session.
LEMMA JobNewSafe ==
  ASSUME StoreInv, JobNew
  PROVE  StoreInv' /\ Archive!Next
<1>1. StoreTyped'
  BY DEF JobNew, Job, past, StoreInv, StoreTyped
<1>2. Stages'
  BY DEF JobNew, Job, past, StoreInv, Stages
<1>3. Copies'
  BY DEF JobNew, Job, past, StoreInv, Copies, Readable
<1>4. Buried'
  BY DEF JobNew, Job, past, StoreInv, Buried
<1>5. AgentAhead'
  BY StoreNumbers DEF JobNew, Job, past, StoreInv, AgentAhead, Readable
<1>6. FileBehind'
  BY DEF JobNew, Job, past, StoreInv, FileBehind
<1>7. TitledOnce'
  BY DEF JobNew, Job, past, StoreInv, TitledOnce
<1>8. Archive!Next
  BY QuietMaps DEF JobNew, Job, past
<1>9. QED
  BY <1>1, <1>2, <1>3, <1>4, <1>5, <1>6, <1>7, <1>8 DEF StoreInv

\* The worker's load gives the agent the stored history.
LEMMA JobLoadSafe ==
  ASSUME StoreInv, NEW id \in SessionIds, JobLoad(id)
  PROVE  StoreInv' /\ Archive!Next
<1>1. StoreTyped'
  BY StoreParts, StoreNumbers, RowIs DEF JobLoad, Job, past, StoreInv, StoreTyped, Readable
<1>2. Stages'
  BY DEF JobLoad, Job, past, StoreInv, Stages
<1>3. Copies'
  BY DEF JobLoad, Job, past, StoreInv, Copies, Readable
<1>4. Buried'
  BY DEF JobLoad, Job, past, StoreInv, Buried
<1>5. AgentAhead'
  <2>1. /\ rows' = rows
        /\ loose' = loose
        /\ agent' = [agent EXCEPT !.id = id, !.msgs = rows[id].msgs]
        /\ Readable(id)
    BY DEF JobLoad, Job, past
  <2>2. /\ agent'.id = id
        /\ agent'.msgs = rows[id].msgs
        /\ IsPrefix(rows[id].msgs, rows[id].msgs)
        /\ rows[id].good
    BY <2>1, ReadsAgent DEF StoreInv
  <2>3. QED
    BY <2>1, <2>2 DEF AgentAhead
<1>6. FileBehind'
  BY DEF JobLoad, Job, past, StoreInv, FileBehind
<1>7. TitledOnce'
  BY DEF JobLoad, Job, past, StoreInv, TitledOnce
<1>8. Archive!Next
  BY QuietMaps DEF JobLoad, Job, past
<1>9. QED
  BY <1>1, <1>2, <1>3, <1>4, <1>5, <1>6, <1>7, <1>8 DEF StoreInv

\* The worker's rename loads the row.
LEMMA JobRenameSafe ==
  ASSUME StoreInv, NEW id \in SessionIds, JobRename(id)
  PROVE  StoreInv' /\ Archive!Next
<1>1. StoreTyped'
  BY DEF JobRename, Job, past, Takes, Load, StoreInv, StoreTyped, Readable
<1>2. Stages'
  <2>1. /\ Takes("worker", id)
        /\ Readable(id)
        /\ "worker" \in Threads
        /\ "other" \in Threads \ {"worker"}
        /\ work' = "rename" /\ front = "terminal" /\ front' = front
    BY DEF JobRename, Job, Threads
  <2>2. loaded'["worker"] # NoCopy /\ loaded'["other"] = loaded["other"]
    BY <2>1, TakesIs DEF StoreInv
  <2>3. QED
    BY <2>1, <2>2 DEF StoreInv, Stages
<1>3. Copies'
  BY DEF JobRename, Job, past, Takes, Load, StoreInv, Copies, Readable
<1>4. Buried'
  BY DEF JobRename, Job, past, Takes, Load, StoreInv, Buried
<1>5. AgentAhead'
  BY DEF JobRename, Job, past, Takes, Load, StoreInv, AgentAhead
<1>6. FileBehind'
  BY DEF JobRename, Job, past, Takes, Load, StoreInv, FileBehind
<1>7. TitledOnce'
  BY DEF JobRename, Job, past, Takes, Load, StoreInv, TitledOnce
<1>8. Archive!Next
  BY QuietMaps DEF JobRename, Job, past, Takes, Load
<1>9. QED
  BY <1>1, <1>2, <1>3, <1>4, <1>5, <1>6, <1>7, <1>8 DEF StoreInv

\* The worker's lock takes the store from the agent.
LEMMA JobLockSafe ==
  ASSUME StoreInv, JobLock
  PROVE  StoreInv' /\ Archive!Next
<1>1. StoreTyped'
  BY DEF JobLock, Job, past, StoreInv, StoreTyped
<1>2. Stages'
  BY DEF JobLock, Job, past, StoreInv, Stages
<1>3. Copies'
  BY DEF JobLock, Job, past, StoreInv, Copies, Readable
<1>4. Buried'
  BY DEF JobLock, Job, past, StoreInv, Buried
<1>5. AgentAhead'
  BY DEF JobLock, Job, past, StoreInv, AgentAhead
<1>6. FileBehind'
  BY DEF JobLock, Job, past, StoreInv, FileBehind
<1>7. TitledOnce'
  BY DEF JobLock, Job, past, StoreInv, TitledOnce
<1>8. Archive!Next
  BY QuietMaps DEF JobLock, Job, past
<1>9. QED
  BY <1>1, <1>2, <1>3, <1>4, <1>5, <1>6, <1>7, <1>8 DEF StoreInv

\* The worker's unlock gives it back.
LEMMA JobUnlockSafe ==
  ASSUME StoreInv, JobUnlock
  PROVE  StoreInv' /\ Archive!Next
<1>1. StoreTyped'
  BY DEF JobUnlock, Job, past, StoreInv, StoreTyped
<1>2. Stages'
  BY DEF JobUnlock, Job, past, StoreInv, Stages
<1>3. Copies'
  BY DEF JobUnlock, Job, past, StoreInv, Copies, Readable
<1>4. Buried'
  BY DEF JobUnlock, Job, past, StoreInv, Buried
<1>5. AgentAhead'
  BY DEF JobUnlock, Job, past, StoreInv, AgentAhead
<1>6. FileBehind'
  BY DEF JobUnlock, Job, past, StoreInv, FileBehind
<1>7. TitledOnce'
  BY DEF JobUnlock, Job, past, StoreInv, TitledOnce
<1>8. Archive!Next
  BY QuietMaps DEF JobUnlock, Job, past
<1>9. QED
  BY <1>1, <1>2, <1>3, <1>4, <1>5, <1>6, <1>7, <1>8 DEF StoreInv

\* /save (tui_cmd.c:34) loads the row on the UI thread.
LEMMA SlashSaveSafe ==
  ASSUME StoreInv, SlashSave
  PROVE  StoreInv' /\ Archive!Next
<1>1. StoreTyped'
  BY DEF SlashSave, Ui, past, Takes, Load, StoreInv, StoreTyped, Readable
<1>2. Stages'
  BY DEF SlashSave, Ui, past, Takes, Load, StoreInv, Stages
<1>3. Copies'
  BY DEF SlashSave, Ui, past, Takes, Load, StoreInv, Copies, Readable
<1>4. Buried'
  BY DEF SlashSave, Ui, past, Takes, Load, StoreInv, Buried
<1>5. AgentAhead'
  BY DEF SlashSave, Ui, past, Takes, Load, StoreInv, AgentAhead
<1>6. FileBehind'
  BY DEF SlashSave, Ui, past, Takes, Load, StoreInv, FileBehind
<1>7. TitledOnce'
  BY DEF SlashSave, Ui, past, Takes, Load, StoreInv, TitledOnce
<1>8. Archive!Next
  BY QuietMaps DEF SlashSave, Ui, past, Takes, Load
<1>9. QED
  BY <1>1, <1>2, <1>3, <1>4, <1>5, <1>6, <1>7, <1>8 DEF StoreInv

\* handle_session_get: the file begins every later history of the session, and the
\* agent's, if it has the session.
LEMMA ExportSessionSafe ==
  ASSUME StoreInv, NEW id \in SessionIds, ExportSession(id)
  PROVE  StoreInv' /\ Archive!Next
<1>1. StoreTyped'
  BY DEF ExportSession, Rest, past, Exported, Load, StoreInv, StoreTyped, Readable
<1>2. Stages'
  BY DEF ExportSession, Rest, past, Exported, Load, StoreInv, Stages
<1>3. Copies'
  BY DEF ExportSession, Rest, past, Exported, Load, StoreInv, Copies, Readable
<1>4. Buried'
  BY DEF ExportSession, Rest, past, Exported, Load, StoreInv, Buried
<1>5. AgentAhead'
  BY DEF ExportSession, Rest, past, Exported, Load, StoreInv, AgentAhead
<1>6. FileBehind'
  <2>1. /\ file' = [id |-> id, row |-> rows[id]] /\ rows[id] # NoRow /\ rows[id].good
        /\ front = "server" /\ UNCHANGED <<front, agent, rows, loose, dead>>
    BY DEF ExportSession, Rest, Exported, Load, Readable, past
  <2>2. file'.id = id /\ file'.row = rows[id]
    BY <2>1
  <2>3. rows[id].msgs \in Seq(Messages)
    BY <2>1, StoreParts, RowIs DEF StoreInv
  <2>4. IsPrefix(rows[id].msgs, rows[id].msgs)
    BY <2>3, PrefixSelf
  <2>5. agent.id = id /\ id \notin loose => IsPrefix(rows[id].msgs, agent.msgs)
    BY <2>1 DEF StoreInv, AgentAhead
  <2>6. QED
    BY <2>1, <2>2, <2>4, <2>5 DEF FileBehind
<1>7. TitledOnce'
  BY DEF ExportSession, Rest, past, Exported, Load, StoreInv, TitledOnce
<1>8. Archive!Next
  BY QuietMaps DEF ExportSession, Rest, past, Exported, Load
<1>9. QED
  BY <1>1, <1>2, <1>3, <1>4, <1>5, <1>6, <1>7, <1>8 DEF StoreInv

\* A WebSocket connection that names a session gives the agent its history.
LEMMA ConnectSafe ==
  ASSUME StoreInv, NEW id \in SessionIds, Connect(id)
  PROVE  StoreInv' /\ Archive!Next
<1>1. StoreTyped'
  BY StoreParts, StoreNumbers, RowIs DEF Connect, past, ui, StoreInv, StoreTyped, Readable
<1>2. Stages'
  BY DEF Connect, past, ui, StoreInv, Stages
<1>3. Copies'
  BY DEF Connect, past, ui, StoreInv, Copies, Readable
<1>4. Buried'
  BY DEF Connect, past, ui, StoreInv, Buried
<1>5. AgentAhead'
  <2>1. /\ rows' = rows
        /\ loose' = loose
        /\ agent' = [agent EXCEPT !.id = id, !.msgs = rows[id].msgs]
        /\ Readable(id)
    BY DEF Connect, past, ui
  <2>2. /\ agent'.id = id
        /\ agent'.msgs = rows[id].msgs
        /\ IsPrefix(rows[id].msgs, rows[id].msgs)
        /\ rows[id].good
    BY <2>1, ReadsAgent DEF StoreInv
  <2>3. QED
    BY <2>1, <2>2 DEF AgentAhead
<1>6. FileBehind'
  BY DEF Connect, past, ui, StoreInv, FileBehind, Readable
<1>7. TitledOnce'
  BY DEF Connect, past, ui, StoreInv, TitledOnce
<1>8. Archive!Next
  BY QuietMaps DEF Connect, past, ui
<1>9. QED
  BY <1>1, <1>2, <1>3, <1>4, <1>5, <1>6, <1>7, <1>8 DEF StoreInv

-----------------------------------------------------------------------------
(* Steps that write or remove a row                                        *)
\* An id of session_create is of no row, no deletion, no copy, no agent.
LEMMA FreshIs ==
  ASSUME NEW id \in Fresh
  PROVE  /\ id \in SessionIds /\ rows[id] = NoRow /\ id \notin dead /\ id \notin loose
         /\ id # file.id /\ id # agent.id /\ \A t \in Threads : loaded[t].id # id
BY DEF Fresh, Threads

\* A write overtakes every other thread's copy of that session.
LEMMA OvertakenIs ==
  ASSUME NEW t, NEW id \in SessionIds, StoreTyped
  PROVE  /\ Overtaken(t, id) \in [Threads -> BOOLEAN]
         /\ \A s \in Threads : overtaken[s] => Overtaken(t, id)[s]
         /\ \A s \in Threads : s # t /\ loaded[s].id = id => Overtaken(t, id)[s]
BY DEF Overtaken, StoreTyped

\* No thread is "nobody".
LEMMA NobodyIs == "nobody" \notin Threads
BY DEF Threads

\* A change within one critical section, of a row that it only adds to or of a new
\* one, keeps the invariant and the archive: the whole history is there and no copy
\* that a thread holds is still the row.  The agent is not behind it, as it is not
\* at work on a session whose history the library's functions add to.
LEMMA ChangeSafe ==
  ASSUME StoreInv, NEW id \in SessionIds, NEW row \in Rows, Change(id, row),
         UNCHANGED <<front, agent, work, loaded, shown, file, misled, dead>>,
            said' \in 0..MaxSaid,
         \/ /\ Readable(id) /\ row.good /\ row.tried = rows[id].tried
               /\ IsPrefix(rows[id].msgs, row.msgs)
            /\ front = "library" \/ row.msgs = rows[id].msgs
         \/ id \in Fresh /\ row.good
  PROVE  StoreInv' /\ Archive!Next
<1>0. /\ rows' = [rows EXCEPT ![id] = row] /\ overtaken' = Overtaken("nobody", id)
      /\ UNCHANGED <<loose, made, imports>> /\ row # NoRow
  BY RowIs DEF Change
<1>r. rows'[id] = row /\ \A k \in SessionIds \ {id} : rows'[k] = rows[k]
  BY <1>0 DEF StoreInv, StoreTyped
<1>1. StoreTyped'
  BY <1>0, OvertakenIs DEF StoreInv, StoreTyped
<1>2. Stages'
  BY DEF StoreInv, Stages
<1>3. Copies'
  <2>1. ASSUME NEW t \in Threads, loaded[t] # NoCopy, ~overtaken'[t]
        PROVE  loaded[t].row = rows'[loaded[t].id] /\ loaded[t].id \in SessionIds
               /\ rows'[loaded[t].id] # NoRow /\ rows'[loaded[t].id].good
    <3>1. ~overtaken[t] /\ loaded[t].id # id /\ loaded[t].id \in SessionIds
      BY <1>0, <2>1, OvertakenIs, NobodyIs, StoreParts DEF StoreInv
    <3>2. rows'[loaded[t].id] = rows[loaded[t].id]
      BY <1>r, <3>1
    <3>3. Readable(loaded[t].id) /\ loaded[t].row = rows[loaded[t].id]
      BY <2>1, <3>1 DEF StoreInv, Copies
    <3>4. QED
      BY <3>1, <3>2, <3>3 DEF Readable
  <2>2. \A t \in Threads : loaded[t] # NoCopy => loaded[t].row.good
    BY DEF StoreInv, Copies
  <2>3. QED
    BY <2>1, <2>2 DEF Copies, Readable
<1>4. Buried'
  BY <1>0, <1>r, FreshIs DEF StoreInv, Buried, StoreTyped, Readable
<1>5. AgentAhead'
  BY <1>0, <1>r, FreshIs, StoreNumbers DEF StoreInv, AgentAhead, Stages, Readable
<1>6. FileBehind'
  <2>1. CASE file.id = id
    BY <1>0, <1>r, <2>1, FreshIs DEF StoreInv, FileBehind, Readable
  <2>2. CASE file.id # id
    BY <1>0, <1>r, <2>2, StoreParts DEF StoreInv, FileBehind
  <2>3. QED
    BY <2>1, <2>2
<1>7. TitledOnce'
  <2>1. TitledOnce /\ agent' = agent /\ work' = work /\ dead' = dead
    BY DEF StoreInv
  <2>2. \/ rows[id] # NoRow /\ row.tried = rows[id].tried
        \/ rows[id] = NoRow /\ id \notin dead /\ id # agent.id
    BY FreshIs DEF Readable
  <2>3. QED
    BY <1>0, <1>r, <2>1, <2>2 DEF TitledOnce
<1>8. ASSUME NEW k \in SessionIds PROVE Moves(k)
  <2>1. CASE k # id
    BY <1>0, <1>r, <2>1, StaysSo DEF Moves
  <2>2. CASE k = id /\ id \in loose
    BY <1>0, <2>2, Loosens DEF Moves
  <2>3. CASE k = id /\ id \in Fresh
    <3>1. rows[id] = NoRow /\ id \notin dead /\ id \notin loose /\ made[id] = 0
      BY <2>3, FreshIs DEF StoreInv, TitledOnce
    <3>2. QED
      BY <1>0, <1>r, <2>3, <3>1, Begins DEF Moves
  <2>4. CASE k = id /\ id \notin loose /\ id \notin Fresh
    <3>1. rows[id] # NoRow /\ IsPrefix(rows[id].msgs, row.msgs) /\ id \notin dead
      BY <2>4 DEF Readable, StoreInv, Buried
    <3>2. QED
      BY <1>0, <1>r, <2>4, <3>1, Grows DEF Moves
  <2>5. QED
    BY <2>1, <2>2, <2>3, <2>4
<1>9. QED
  BY <1>1, <1>2, <1>3, <1>4, <1>5, <1>6, <1>7, <1>8, MapsNext DEF StoreInv

\* session_manager_delete_session and session_manager_purge_sessions: rows go.
LEMMA RemoveSafe ==
  ASSUME StoreInv, NEW gone \in SUBSET Existing, RemoveRows(gone),
         UNCHANGED <<front, agent, work, loaded, shown, file, said>>, misled' \in BOOLEAN
  PROVE  StoreInv' /\ Archive!Next
<1>0. /\ \A k \in SessionIds : rows'[k] = IF k \in gone THEN NoRow ELSE rows[k]
      /\ dead' = dead \cup gone /\ UNCHANGED <<loose, made, imports>>
      /\ \A t \in Threads : overtaken'[t] = (overtaken[t] \/ loaded[t].id \in gone)
      /\ \A k \in gone : k \in SessionIds /\ rows[k] # NoRow
  BY DEF RemoveRows, Existing
<1>1. StoreTyped'
  <2>1. rows' \in [SessionIds -> Rows \cup {NoRow}] /\ overtaken' \in [Threads -> BOOLEAN]
    BY DEF RemoveRows, StoreInv, StoreTyped
  <2>2. QED
    BY <1>0, <2>1 DEF StoreInv, StoreTyped
<1>2. Stages'
  BY DEF StoreInv, Stages
<1>3. Copies'
  BY <1>0, StoreParts DEF StoreInv, Copies, Readable
<1>4. Buried'
  BY <1>0 DEF StoreInv, Buried, StoreTyped
<1>5. AgentAhead'
  BY <1>0 DEF StoreInv, AgentAhead
<1>6. FileBehind'
  BY <1>0, StoreParts DEF StoreInv, FileBehind
<1>7. TitledOnce'
  BY <1>0 DEF StoreInv, TitledOnce
<1>8. ASSUME NEW k \in SessionIds PROVE Moves(k)
  <2>1. CASE k \notin gone
    BY <1>0, <2>1, StaysSo DEF Moves
  <2>2. CASE k \in gone /\ k \in loose
    BY <1>0, <2>2, Loosens DEF Moves
  <2>3. CASE k \in gone /\ k \notin loose
    <3>1. k \notin dead /\ rows[k] # NoRow /\ k \in dead' /\ k \notin loose'
      BY <1>0, <2>3 DEF StoreInv, Buried
    <3>2. QED
      BY <2>3, <3>1, Deletes DEF Moves
  <2>4. QED
    BY <2>1, <2>2, <2>3
<1>9. QED
  BY <1>1, <1>2, <1>3, <1>4, <1>5, <1>6, <1>7, <1>8, MapsNext DEF StoreInv

\* The save of a loaded session: what the copy was overtaken by is lost, and only
\* then; if it was not, the row has the history it had.
LEMMA SaveKeeps ==
  ASSUME StoreInv, NEW t \in Threads, loaded[t] # NoCopy, NEW row \in Rows,
         row.msgs = loaded[t].row.msgs, row.good = loaded[t].row.good,
         SaveRow(t, loaded[t].id, row), Drops(t), UNCHANGED <<front, agent, file, dead>>
  PROVE  /\ rows' \in [SessionIds -> Rows \cup {NoRow}]
            /\ overtaken' \in [Threads -> BOOLEAN]
         /\ loaded' \in [Threads -> {NoCopy} \cup [id : SessionIds, row : Rows]]
         /\ loose' \subseteq SessionIds /\ loose \subseteq loose'
         /\ loaded'[t] = NoCopy /\ \A s \in Threads \ {t} : loaded'[s] = loaded[s]
         /\ rows'[loaded[t].id] = row /\ row # NoRow
         /\ \A k \in SessionIds \ {loaded[t].id} : rows'[k] = rows[k]
            /\ (k \in loose' <=> k \in loose)
         /\ loaded[t].id \in SessionIds
         /\ loaded[t].id \in loose'
            \/ (Readable(loaded[t].id) /\ loaded[t].row = rows[loaded[t].id])
         /\ Copies' /\ Buried' /\ AgentAhead' /\ FileBehind'
<1> DEFINE i == loaded[t].id
<1>0. /\ i \in SessionIds /\ rows' = [rows EXCEPT ![i] = row] /\ row # NoRow
      /\ overtaken' = [Overtaken(t, i) EXCEPT ![t] = FALSE]
      /\ loose' = (IF overtaken[t] THEN loose \cup {i} ELSE loose)
      /\ loaded' = [loaded EXCEPT ![t] = NoCopy]
  BY StoreParts, RowIs DEF StoreInv, SaveRow, Drops
<1>k. overtaken[t] => i \in loose'
  BY DEF SaveRow
<1> HIDE DEF i
<1>1. /\ rows' \in [SessionIds -> Rows \cup {NoRow}] /\ rows'[i] = row
      /\ \A k \in SessionIds \ {i} : rows'[k] = rows[k]
  BY <1>0 DEF StoreInv, StoreTyped
<1>2. /\ overtaken' \in [Threads -> BOOLEAN]
      /\ \A s \in Threads \ {t} : (overtaken[s] => overtaken'[s])
         /\ (loaded[s].id = i => overtaken'[s])
  BY <1>0, OvertakenIs DEF StoreInv
<1>3. /\ loaded' \in [Threads -> {NoCopy} \cup [id : SessionIds, row : Rows]]
      /\ loaded'[t] = NoCopy /\ \A s \in Threads \ {t} : loaded'[s] = loaded[s]
  BY <1>0 DEF StoreInv, StoreTyped
<1>4. /\ loose' \subseteq SessionIds /\ loose \subseteq loose'
      /\ \A k \in SessionIds \ {i} : (k \in loose' <=> k \in loose)
  BY <1>0 DEF StoreInv, StoreTyped
<1>5. i \in loose' \/ (Readable(i) /\ loaded[t].row = rows[i])
  <2>1. CASE overtaken[t]
    BY <1>k, <2>1
  <2>2. CASE ~overtaken[t]
    BY <2>2 DEF StoreInv, Copies, i
  <2>3. QED
    BY <2>1, <2>2
<1>6. Copies'
  <2>1. ASSUME NEW s \in Threads, loaded'[s] # NoCopy, ~overtaken'[s]
        PROVE  loaded'[s].row = rows'[loaded'[s].id] /\ loaded'[s].id \in SessionIds
               /\ rows'[loaded'[s].id] # NoRow /\ rows'[loaded'[s].id].good
    <3>1. /\ s # t
          /\ loaded'[s] = loaded[s]
          /\ ~overtaken[s]
          /\ loaded[s].id # i
          /\ loaded[s].id \in SessionIds
      BY <1>2, <1>3, <2>1, StoreParts DEF StoreInv
    <3>2. rows'[loaded[s].id] = rows[loaded[s].id]
      BY <1>1, <3>1
    <3>3. Readable(loaded[s].id) /\ loaded[s].row = rows[loaded[s].id]
      BY <2>1, <3>1 DEF StoreInv, Copies
    <3>4. QED
      BY <3>1, <3>2, <3>3 DEF Readable
  <2>2. \A s \in Threads : loaded'[s] # NoCopy => loaded'[s].row.good
    BY <1>3 DEF StoreInv, Copies
  <2>3. QED
    BY <2>1, <2>2 DEF Copies, Readable
<1>7. Buried'
  BY <1>0, <1>1, <1>4, <1>5 DEF StoreInv, Buried, StoreTyped, Readable
<1>8. AgentAhead'
  <2>1. CASE agent.id = i /\ i \in loose'
    <3>1. rows'[i].good
      BY <1>1 DEF StoreInv, Copies, i
    <3>2. QED
      BY <2>1, <3>1 DEF AgentAhead
  <2>4. CASE agent.id = i /\ i \notin loose'
    <3>1. Readable(i) /\ loaded[t].row = rows[i] /\ i \notin loose /\ rows'[i] = row
      BY <1>1, <1>4, <1>5, <2>4
    <3>2. row.msgs = rows[i].msgs /\ row.good
      BY <3>1 DEF Readable
    <3>3. IsPrefix(row.msgs, agent.msgs)
      BY <1>0, <2>4, <3>1, <3>2 DEF StoreInv, AgentAhead, Readable
    <3>4. QED
      BY <1>0, <2>4, <3>1, <3>2, <3>3 DEF AgentAhead
  <2>2. CASE agent.id # i
    BY <1>0, <1>1, <1>4, <2>2 DEF StoreInv, AgentAhead
  <2>3. QED
    BY <2>1, <2>2, <2>4
<1>9. FileBehind'
  <2>1. CASE file.id = i
    BY <1>0, <1>1, <1>4, <1>5, <2>1 DEF StoreInv, FileBehind, Readable
  <2>2. CASE file.id # i
    BY <1>0, <1>1, <1>4, <2>2, StoreParts DEF StoreInv, FileBehind
  <2>3. QED
    BY <2>1, <2>2
<1>10. QED
  BY <1>0, <1>1, <1>2, <1>3, <1>4, <1>5, <1>6, <1>7, <1>8, <1>9 DEF i

-----------------------------------------------------------------------------
(* Handlers and library functions                                          *)
\* handle_create_session.
LEMMA CreateSessionSafe ==
  ASSUME StoreInv, CreateSession
  PROVE  StoreInv' /\ Archive!Next
<1>1. PICK id \in Fresh : Change(id, Blank("user"))
  BY DEF CreateSession
<1>2. id \in SessionIds /\ Blank("user") \in Rows /\ Blank("user").good
  BY <1>1, EmptySeq DEF Fresh, Blank, Rows, Titles
<1>3. /\ UNCHANGED <<front, agent, work, loaded, shown, file, misled, dead>>
      /\ said' \in 0..MaxSaid
  BY DEF CreateSession, Rest, StoreInv, StoreTyped
<1> HIDE DEF Blank
<1>4. QED
  BY <1>1, <1>2, <1>3, ChangeSafe

\* handle_session_update (routes_session.c:330) and handle_sessions_rename.
LEMMA UpdateSessionSafe ==
  ASSUME StoreInv, NEW id \in SessionIds, UpdateSession(id)
  PROVE  StoreInv' /\ Archive!Next
<1> DEFINE row == [rows[id] EXCEPT !.title = "user"]
<1>1. Readable(id) /\ rows[id] \in Rows
  BY DEF UpdateSession, StoreInv, StoreTyped, Readable
<1>2. row \in Rows /\ row.msgs = rows[id].msgs /\ row.good /\ row.tried = rows[id].tried
  <2>1. row \in Rows
    BY <1>1, RowIs DEF Titles
  <2>2. row.msgs = rows[id].msgs /\ row.good = rows[id].good /\ row.tried = rows[id].tried
    BY <1>1, RowKeeps
  <2>3. QED
    BY <1>1, <2>1, <2>2 DEF Readable
<1>3. /\ Change(id, row)
      /\ UNCHANGED <<front, agent, work, loaded, shown, file, misled, dead>>
      /\ said' \in 0..MaxSaid
  BY DEF UpdateSession, Rest, StoreInv, StoreTyped
<1>4. IsPrefix(rows[id].msgs, row.msgs)
  BY <1>1, <1>2, RowIs, PrefixSelf
<1> HIDE DEF row
<1>5. QED
  BY <1>1, <1>2, <1>3, <1>4, ChangeSafe

\* session_manager_log_event.
LEMMA LogEventSafe ==
  ASSUME StoreInv, NEW id \in SessionIds, LogEvent(id)
  PROVE  StoreInv' /\ Archive!Next
<1> DEFINE row == [rows[id] EXCEPT !.events = 1]
<1>1. Readable(id) /\ rows[id] \in Rows
  BY DEF LogEvent, StoreInv, StoreTyped, Readable
<1>2. row \in Rows /\ row.msgs = rows[id].msgs /\ row.good /\ row.tried = rows[id].tried
  BY <1>1, RowIs, RowKeeps DEF Readable
<1>3. /\ Change(id, row)
      /\ UNCHANGED <<front, agent, work, loaded, shown, file, misled, dead>>
      /\ said' \in 0..MaxSaid
  BY DEF LogEvent, Library, ui, StoreInv, StoreTyped
<1>4. IsPrefix(rows[id].msgs, row.msgs)
  BY <1>1, <1>2, RowIs, PrefixSelf
<1> HIDE DEF row
<1>5. QED
  BY <1>1, <1>2, <1>3, <1>4, ChangeSafe

\* A new message is a message.
LEMMA SpeakIs ==
  ASSUME StoreTyped, Speak
  PROVE  said + 1 \in Messages /\ said' \in 0..MaxSaid
BY StoreNumbers DEF StoreTyped, Speak, Messages

\* session_manager_add_message appends within one critical section.
LEMMA AddMessageSafe ==
  ASSUME StoreInv, NEW id \in SessionIds, AddMessage(id)
  PROVE  StoreInv' /\ Archive!Next
<1> DEFINE row == [rows[id] EXCEPT !.msgs = Append(@, said + 1)]
<1>1. Readable(id) /\ rows[id] \in Rows
  BY DEF AddMessage, StoreInv, StoreTyped, Readable
<1>2. said + 1 \in Messages /\ said' \in 0..MaxSaid
  BY SpeakIs DEF AddMessage, StoreInv
<1>3. /\ IsPrefix(rows[id].msgs, Append(rows[id].msgs, said + 1))
      /\ Append(rows[id].msgs, said + 1) \in Seq(Messages)
  BY <1>1, <1>2, RowIs, PrefixAppend
<1>4. /\ row \in Rows
      /\ row.msgs = Append(rows[id].msgs, said + 1)
      /\ row.good
      /\ row.tried = rows[id].tried
  <2>1. row = [rows[id] EXCEPT !.msgs = Append(rows[id].msgs, said + 1)]
    BY <1>1 DEF Rows
  <2>2. row \in Rows
    BY <1>1, <1>3, <2>1, RowIs
  <2>3. /\ row.msgs = Append(rows[id].msgs, said + 1)
        /\ row.good = rows[id].good
        /\ row.tried = rows[id].tried
    BY <1>1, <2>1, RowKeeps
  <2>4. QED
    BY <1>1, <2>2, <2>3 DEF Readable
<1>5. /\ Change(id, row)
      /\ UNCHANGED <<front, agent, work, loaded, shown, file, misled, dead>>
      /\ front = "library"
  BY DEF AddMessage, Library, ui
<1> HIDE DEF row
<1>6. QED
  BY <1>1, <1>2, <1>3, <1>4, <1>5, ChangeSafe

\* A deletion removes the row, or none if there is none.
LEMMA DeletesOnly ==
  ASSUME NEW id \in SessionIds, DeleteRow(id)
  PROVE  \E gone \in SUBSET Existing : RemoveRows(gone)
BY DEF DeleteRow, DeleteCode, Existing

\* The worker's deletion.
LEMMA JobDeleteSafe ==
  ASSUME StoreInv, NEW id \in SessionIds, JobDelete(id)
  PROVE  StoreInv' /\ Archive!Next
<1>1. PICK gone \in SUBSET Existing : RemoveRows(gone)
  BY DeletesOnly DEF JobDelete
<1>2. UNCHANGED <<front, agent, work, loaded, shown, file, said>> /\ misled' \in BOOLEAN
  BY DEF JobDelete, Job
<1>3. QED
  BY <1>1, <1>2, RemoveSafe

\* handle_session_delete.
LEMMA DeleteSessionSafe ==
  ASSUME StoreInv, NEW id \in SessionIds, DeleteSession(id)
  PROVE  StoreInv' /\ Archive!Next
<1>1. PICK gone \in SUBSET Existing : RemoveRows(gone)
  BY DeletesOnly DEF DeleteSession
<1>2. UNCHANGED <<front, agent, work, loaded, shown, file, said>> /\ misled' \in BOOLEAN
  BY DEF DeleteSession, Rest
<1>3. QED
  BY <1>1, <1>2, RemoveSafe

\* session_manager_purge, whichever rows are older.
LEMMA PurgeSessionsSafe ==
  ASSUME StoreInv, PurgeSessions
  PROVE  StoreInv' /\ Archive!Next
<1>1. PICK gone \in SUBSET Existing : RemoveRows(gone)
  BY DEF PurgeSessions
<1>2. UNCHANGED <<front, agent, work, loaded, shown, file, said>> /\ misled' \in BOOLEAN
  BY DEF PurgeSessions, Library, ui, StoreInv, StoreTyped
<1>3. QED
  BY <1>1, <1>2, RemoveSafe

-----------------------------------------------------------------------------
(* Saves of loaded sessions                                                *)
\* Where only one session moves, and as promised, the step is one of the archive.
LEMMA MovesAlone ==
  ASSUME StoreInv, NEW i \in SessionIds, Moves(i),
         \A k \in SessionIds \ {i} : /\ rows'[k] = rows[k] /\ made'[k] = made[k]
                                     /\ (k \in loose') = (k \in loose)
                                     /\ (k \in dead') = (k \in dead)
  PROVE  Archive!Next
<1>1. ASSUME NEW k \in SessionIds PROVE Moves(k)
  <2>1. CASE k = i
    BY <2>1
  <2>2. CASE k # i
    BY <2>2, StaysSo DEF Moves
  <2>3. QED
    BY <2>1, <2>2
<1>2. QED
  BY <1>1, MapsNext

\* The save of a copy: loose if it was overtaken, and otherwise no message is lost.
LEMMA SaveMoves ==
  ASSUME StoreInv, NEW i \in SessionIds, dead' = dead, made' = made, NEW row \in Rows,
         rows'[i] = row,
         loose \subseteq loose', i \in loose'
            \/ (Readable(i) /\ IsPrefix(rows[i].msgs, row.msgs)),
         \A k \in SessionIds \ {i} : rows'[k] = rows[k] /\ (k \in loose' <=> k \in loose)
  PROVE  Archive!Next
<1>1. Moves(i)
  <2>1. CASE i \in loose'
    BY <2>1, Loosens DEF Moves
  <2>2. CASE i \notin loose'
    <3>1. /\ i \notin loose
          /\ rows[i] # NoRow
          /\ i \notin dead
          /\ IsPrefix(rows[i].msgs, row.msgs)
          /\ row # NoRow
      BY <2>2, RowIs DEF StoreInv, Buried, Readable
    <3>2. QED
      BY <2>2, <3>1, Grows DEF Moves
  <2>3. QED
    BY <2>1, <2>2
<1>2. QED
  BY <1>1, MovesAlone

\* A save that fails leaves the row and drops the copy.
LEMMA SaveFailsKeeps ==
  ASSUME StoreInv, NEW t \in Threads, SaveFails(t), Drops(t), UNCHANGED <<front, agent,
         file, dead, made>>
  PROVE  /\ overtaken' \in [Threads -> BOOLEAN]
         /\ loaded' \in [Threads -> {NoCopy} \cup [id : SessionIds, row : Rows]]
         /\ loaded'[t] = NoCopy /\ \A s \in Threads \ {t} : loaded'[s] = loaded[s]
         /\ UNCHANGED <<rows, loose>>
         /\ Copies' /\ Buried' /\ AgentAhead' /\ FileBehind' /\ Archive!Next
<1>1. /\ overtaken' \in [Threads -> BOOLEAN]
         /\ \A s \in Threads \ {t} : overtaken'[s] = overtaken[s]
      /\ UNCHANGED <<rows, loose>>
  BY DEF SaveFails, StoreInv, StoreTyped
<1>2. /\ loaded' \in [Threads -> {NoCopy} \cup [id : SessionIds, row : Rows]]
      /\ loaded'[t] = NoCopy /\ \A s \in Threads \ {t} : loaded'[s] = loaded[s]
  BY DEF Drops, StoreInv, StoreTyped
<1>3. Copies'
  BY <1>1, <1>2 DEF StoreInv, Copies, Readable
<1>4. Buried' /\ AgentAhead' /\ FileBehind'
  BY <1>1 DEF StoreInv, Buried, AgentAhead, FileBehind
<1>5. Archive!Next
  BY <1>1, QuietMaps
<1>6. QED
  BY <1>1, <1>2, <1>3, <1>4, <1>5

\* The worker's rename and the UI's /save write the title the user gave.
LEMMA RenameSaveSafe ==
  ASSUME StoreInv, NEW t \in Threads, loaded[t] # NoCopy, Drops(t),
         SaveMay(t, loaded[t].id, [loaded[t].row EXCEPT !.title = "user"]),
         UNCHANGED <<front, agent, said, shown, file, misled, dead, made, imports>>,
         \/ work = "rename" /\ work' = "idle" /\ t = "worker"
         \/ work' = work /\ t = "other"
  PROVE  StoreInv' /\ Archive!Next
<1> DEFINE row == [loaded[t].row EXCEPT !.title = "user"]
           i == loaded[t].id
           L == loaded'
<1>1. loaded[t].row \in Rows /\ i \in SessionIds
  BY StoreParts DEF StoreInv
<1>2. /\ row \in Rows
      /\ row.msgs = loaded[t].row.msgs
      /\ row.good = loaded[t].row.good
      /\ row.tried = loaded[t].row.tried
  <2>1. row \in Rows
    BY <1>1, RowIs DEF Titles
  <2>2. QED
    BY <1>1, <2>1, RowKeeps
<1> HIDE DEF row
<1>3. CASE SaveRow(t, i, row)
  <2>1. /\ rows' \in [SessionIds -> Rows \cup {NoRow}]
        /\ overtaken' \in [Threads -> BOOLEAN]
        /\ L \in [Threads -> {NoCopy} \cup [id : SessionIds, row : Rows]]
        /\ loose' \subseteq SessionIds /\ loose \subseteq loose'
        /\ L[t] = NoCopy /\ \A s \in Threads \ {t} : L[s] = loaded[s]
        /\ rows'[i] = row /\ row # NoRow
        /\ \A k \in SessionIds \ {i} : rows'[k] = rows[k] /\ (k \in loose' <=> k \in loose)
        /\ i \in loose' \/ (Readable(i) /\ loaded[t].row = rows[i])
        /\ Copies' /\ Buried' /\ AgentAhead' /\ FileBehind'
    BY <1>1, <1>2, <1>3, SaveKeeps
  <2>2. StoreTyped'
    BY <2>1 DEF StoreInv, StoreTyped
  <2>3. Stages'
    BY <2>1 DEF StoreInv, Stages, Threads
  <2>4. TitledOnce'
    <3>1. ASSUME NEW k \in SessionIds \ loose'
          PROVE  /\ k \notin loose /\ (rows'[k] = NoRow) = (rows[k] = NoRow)
                 /\ rows[k] # NoRow => rows'[k].tried = rows[k].tried
      BY <1>2, <2>1 DEF Readable
    <3>2. TitledOnce /\ work' \notin {"mark", "marking", "model", "titling"} \ {work}
      BY DEF StoreInv
    <3>3. QED
      BY <3>1, <3>2 DEF TitledOnce
  <2>5. i \in loose' \/ (Readable(i) /\ IsPrefix(rows[i].msgs, row.msgs))
    BY <1>1, <1>2, <2>1, PrefixSelf, RowIs
  <2>6. Archive!Next
    BY <1>1, <1>2, <2>1, <2>5, SaveMoves
  <2>7. QED
    BY <2>1, <2>2, <2>3, <2>4, <2>6 DEF StoreInv
<1>4. CASE SaveFails(t)
  <2>1. /\ overtaken' \in [Threads -> BOOLEAN]
        /\ L \in [Threads -> {NoCopy} \cup [id : SessionIds, row : Rows]]
        /\ L[t] = NoCopy /\ \A s \in Threads \ {t} : L[s] = loaded[s]
        /\ UNCHANGED <<rows, loose>>
        /\ Copies' /\ Buried' /\ AgentAhead' /\ FileBehind' /\ Archive!Next
    BY <1>4, SaveFailsKeeps
  <2>2. StoreTyped'
    BY <2>1 DEF StoreInv, StoreTyped
  <2>3. Stages'
    BY <2>1 DEF StoreInv, Stages, Threads
  <2>4. TitledOnce'
    <3>1. TitledOnce /\ work' \notin {"mark", "marking", "model", "titling"} \ {work}
      BY DEF StoreInv
    <3>2. QED
      BY <2>1, <3>1 DEF TitledOnce
  <2>5. QED
    BY <2>1, <2>2, <2>3, <2>4 DEF StoreInv
<1>5. QED
  BY <1>3, <1>4 DEF SaveMay, row

\* The mark of the title: once it is saved no later run makes another, unless
\* another caller's save, of an older copy, took it away.
LEMMA TitleMarkSafe ==
  ASSUME StoreInv, TitleMark
  PROVE  StoreInv' /\ Archive!Next
<1> DEFINE t == "worker"
           row == [loaded[t].row EXCEPT !.tried = TRUE]
           i == loaded[t].id
           L == loaded'
<1>0. /\ work = "marking" /\ Drops(t) /\ t \in Threads
      /\ UNCHANGED <<front, agent, said, dead, imports, shown, file, misled, made>>
      /\ (work' = "model" /\ SaveRow(t, i, row)) \/ (work' = "end" /\ SaveFails(t))
  BY DEF TitleMark, TitleStep, ui, Threads
<1>w. loaded[t] # NoCopy /\ i = agent.id
  BY <1>0 DEF StoreInv, Stages
<1> HIDE DEF t
<1>1. loaded[t].row \in Rows /\ i \in SessionIds
  BY <1>0, <1>w, StoreParts DEF StoreInv
<1>2. /\ row \in Rows
      /\ row.msgs = loaded[t].row.msgs
      /\ row.good = loaded[t].row.good
      /\ row.tried
  <2>1. row \in Rows
    BY <1>1, RowIs
  <2>2. QED
    BY <1>1, <2>1, RowKeeps
<1> HIDE DEF row
<1>3. CASE work' = "model" /\ SaveRow(t, i, row)
  <2>1. /\ rows' \in [SessionIds -> Rows \cup {NoRow}]
        /\ overtaken' \in [Threads -> BOOLEAN]
        /\ L \in [Threads -> {NoCopy} \cup [id : SessionIds, row : Rows]]
        /\ loose' \subseteq SessionIds /\ loose \subseteq loose'
        /\ L[t] = NoCopy /\ \A s \in Threads \ {t} : L[s] = loaded[s]
        /\ rows'[i] = row /\ row # NoRow
        /\ \A k \in SessionIds \ {i} : rows'[k] = rows[k] /\ (k \in loose' <=> k \in loose)
        /\ i \in loose' \/ (Readable(i) /\ loaded[t].row = rows[i])
        /\ Copies' /\ Buried' /\ AgentAhead' /\ FileBehind'
    BY <1>0, <1>w, <1>1, <1>2, <1>3, SaveKeeps
  <2>2. StoreTyped'
    BY <1>0, <1>3, <2>1 DEF StoreInv, StoreTyped
  <2>3. Stages'
    BY <1>0, <1>3, <2>1 DEF StoreInv, Stages, Threads, t
  <2>4. TitledOnce'
    <3>1. ASSUME NEW k \in SessionIds \ loose'
          PROVE  /\ made'[k] = made[k] /\ made[k] \in {0, 1}
                 /\ rows'[k] = NoRow /\ k \notin dead' => made'[k] = 0
                 /\ rows'[k] # NoRow /\ made'[k] = 1 => rows'[k].tried
      <4>1. CASE k = i
        BY <1>0, <1>2, <2>1, <4>1 DEF StoreInv, TitledOnce
      <4>2. CASE k # i
        BY <1>0, <2>1, <4>2 DEF StoreInv, TitledOnce
      <4>3. QED
        BY <4>1, <4>2
    <3>2. agent.id \notin loose' => made[agent.id] = 0 /\ rows'[agent.id].tried
      BY <1>0, <1>w, <1>1, <1>2, <2>1 DEF StoreInv, TitledOnce
    <3>3. QED
      BY <1>0, <3>1, <3>2 DEF TitledOnce
  <2>5. i \in loose' \/ (Readable(i) /\ IsPrefix(rows[i].msgs, row.msgs))
    BY <1>1, <1>2, <2>1, PrefixSelf, RowIs
  <2>6. Archive!Next
    BY <1>0, <1>1, <1>2, <2>1, <2>5, SaveMoves
  <2>7. QED
    BY <2>1, <2>2, <2>3, <2>4, <2>6 DEF StoreInv
<1>4. CASE work' = "end" /\ SaveFails(t)
  <2>1. /\ overtaken' \in [Threads -> BOOLEAN]
        /\ L \in [Threads -> {NoCopy} \cup [id : SessionIds, row : Rows]]
        /\ L[t] = NoCopy /\ \A s \in Threads \ {t} : L[s] = loaded[s]
        /\ UNCHANGED <<rows, loose>>
        /\ Copies' /\ Buried' /\ AgentAhead' /\ FileBehind' /\ Archive!Next
    BY <1>0, <1>4, SaveFailsKeeps
  <2>2. StoreTyped'
    BY <1>0, <1>4, <2>1 DEF StoreInv, StoreTyped
  <2>3. Stages'
    BY <1>0, <1>4, <2>1 DEF StoreInv, Stages, Threads, t
  <2>4. TitledOnce'
    BY <1>0, <1>4, <2>1 DEF StoreInv, TitledOnce
  <2>5. QED
    BY <2>1, <2>2, <2>3, <2>4 DEF StoreInv
<1>5. QED
  BY <1>0, <1>3, <1>4

\* The title that was made: the first, for a session that is not loose.
LEMMA TitleApplySafe ==
  ASSUME StoreInv, TitleApply
  PROVE  StoreInv' /\ Archive!Next
<1> DEFINE t == "worker"
           row == [loaded[t].row EXCEPT !.title = "made"]
           i == loaded[t].id
           L == loaded'
<1>0. /\ work = "titling" /\ work' = "end" /\ Drops(t) /\ t \in Threads
      /\ UNCHANGED <<front, agent, said, dead, imports, shown, file, misled>>
      /\ (SaveRow(t, i, row) /\ made' = [made EXCEPT ![i] = made[i] + 1])
         \/ (SaveFails(t) /\ made' = made)
  BY DEF TitleApply, TitleStep, ui, Threads
<1>w. loaded[t] # NoCopy /\ i = agent.id
  BY <1>0 DEF StoreInv, Stages
<1> HIDE DEF t
<1>1. loaded[t].row \in Rows /\ i \in SessionIds
  BY <1>0, <1>w, StoreParts DEF StoreInv
<1>2. /\ row \in Rows
      /\ row.msgs = loaded[t].row.msgs
      /\ row.good = loaded[t].row.good
      /\ row.tried = loaded[t].row.tried
  <2>1. row \in Rows
    BY <1>1, RowIs DEF Titles
  <2>2. QED
    BY <1>1, <2>1, RowKeeps
<1> HIDE DEF row
<1>3. CASE SaveRow(t, i, row) /\ made' = [made EXCEPT ![i] = made[i] + 1]
  <2>1. /\ rows' \in [SessionIds -> Rows \cup {NoRow}]
        /\ overtaken' \in [Threads -> BOOLEAN]
        /\ L \in [Threads -> {NoCopy} \cup [id : SessionIds, row : Rows]]
        /\ loose' \subseteq SessionIds /\ loose \subseteq loose'
        /\ L[t] = NoCopy /\ \A s \in Threads \ {t} : L[s] = loaded[s]
        /\ rows'[i] = row /\ row # NoRow
        /\ \A k \in SessionIds \ {i} : rows'[k] = rows[k] /\ (k \in loose' <=> k \in loose)
        /\ i \in loose' \/ (Readable(i) /\ loaded[t].row = rows[i])
        /\ Copies' /\ Buried' /\ AgentAhead' /\ FileBehind'
    BY <1>0, <1>w, <1>1, <1>2, <1>3, SaveKeeps
  <2>m. /\ made' \in [SessionIds -> Nat] /\ made'[i] = made[i] + 1
        /\ \A k \in SessionIds \ {i} : made'[k] = made[k]
    BY <1>1, <1>3 DEF StoreInv, StoreTyped
  <2>2. StoreTyped'
    BY <1>0, <2>1, <2>m DEF StoreInv, StoreTyped
  <2>3. Stages'
    BY <1>0, <2>1 DEF StoreInv, Stages, Threads, t
  <2>o. i \notin loose' => /\ i \notin loose /\ made[i] = 0 /\ Readable(i)
     /\ loaded[t].row = rows[i]
                           /\ rows[i].tried /\ i \notin dead
    BY <1>0, <1>w, <1>1, <2>1 DEF StoreInv, TitledOnce, Buried, Readable
  <2>4. TitledOnce'
    <3>1. ASSUME NEW k \in SessionIds \ loose'
          PROVE  /\ made'[k] \in {0, 1}
                 /\ rows'[k] = NoRow /\ k \notin dead' => made'[k] = 0
                 /\ rows'[k] # NoRow /\ made'[k] = 1 => rows'[k].tried
      <4>1. CASE k = i
        BY <1>2, <2>1, <2>m, <2>o, <4>1
      <4>2. CASE k # i
        BY <1>0, <2>1, <2>m, <4>2 DEF StoreInv, TitledOnce
      <4>3. QED
        BY <4>1, <4>2
    <3>2. QED
      BY <1>0, <3>1 DEF TitledOnce
  <2>5. Moves(i)
    <3>1. CASE i \in loose'
      BY <1>1, <3>1, Loosens DEF Moves
    <3>2. CASE i \notin loose'
      BY <1>0, <1>1, <1>2, <2>1, <2>m, <2>o, <3>2, Titles1 DEF Moves, Readable
    <3>3. QED
      BY <3>1, <3>2
  <2>6. Archive!Next
    BY <1>0, <1>1, <2>1, <2>m, <2>5, MovesAlone
  <2>7. QED
    BY <2>1, <2>2, <2>3, <2>4, <2>6 DEF StoreInv
<1>4. CASE SaveFails(t) /\ made' = made
  <2>1. /\ overtaken' \in [Threads -> BOOLEAN]
        /\ L \in [Threads -> {NoCopy} \cup [id : SessionIds, row : Rows]]
        /\ L[t] = NoCopy /\ \A s \in Threads \ {t} : L[s] = loaded[s]
        /\ UNCHANGED <<rows, loose>>
        /\ Copies' /\ Buried' /\ AgentAhead' /\ FileBehind' /\ Archive!Next
    BY <1>0, <1>4, SaveFailsKeeps
  <2>2. StoreTyped'
    BY <1>0, <1>4, <2>1 DEF StoreInv, StoreTyped
  <2>3. Stages'
    BY <1>0, <2>1 DEF StoreInv, Stages, Threads, t
  <2>4. TitledOnce'
    BY <1>0, <1>4, <2>1 DEF StoreInv, TitledOnce
  <2>5. QED
    BY <2>1, <2>2, <2>3, <2>4 DEF StoreInv
<1>5. QED
  BY <1>0, <1>3, <1>4

-----------------------------------------------------------------------------
(* The agent's saves                                                       *)
\* agent_save_session when its save failed, or without a store: the agent has more
\* messages than the row, and perhaps an id that no row has.
LEMMA AgentKeeps ==
  ASSUME StoreInv, NEW id \in SessionIds \cup {NoId}, NEW msgs \in Seq(Messages),
         IsPrefix(agent.msgs, msgs),
         agent' = [agent EXCEPT !.id = id, !.msgs = msgs], id = agent.id \/ id \in Fresh,
         UNCHANGED <<rows, overtaken, front, loaded, dead, made, imports, shown, file,
            misled, loose>>,
         work \in {"idle", "turn", "tool", "answered"},
            work' \in {"turn", "tool", "answered", "title"},
         front # "library", said' \in 0..MaxSaid
  PROVE  StoreInv' /\ Archive!Next
<1>1. agent'.id = id /\ agent'.msgs = msgs
      /\ agent' \in [id : SessionIds \cup {NoId}, msgs : Seq(Messages), store : BOOLEAN]
  BY DEF StoreInv, StoreTyped
<1>2. StoreTyped'
  BY <1>1 DEF StoreInv, StoreTyped
<1>3. Stages'
  BY <1>1 DEF StoreInv, Stages
<1>4. Copies' /\ Buried'
  BY DEF StoreInv, Copies, Buried, Readable
<1>p. \A s \in Seq(Messages) : IsPrefix(s, agent.msgs) => IsPrefix(s, msgs)
  BY StoreParts, PrefixTrans DEF StoreInv
<1>5. AgentAhead'
  <2>1. CASE id = agent.id
    <3>1. id \in SessionIds /\ rows[id] # NoRow => rows[id].msgs \in Seq(Messages)
      BY StoreParts, RowIs DEF StoreInv
    <3>2. QED
      BY <1>1, <1>p, <2>1, <3>1 DEF StoreInv, AgentAhead
  <2>2. CASE id \in Fresh
    BY <1>1, <2>2, FreshIs DEF AgentAhead
  <2>3. QED
    BY <2>1, <2>2
<1>6. FileBehind'
  <2>1. CASE id = agent.id
    <3>1. file # NoCopy => file.row.msgs \in Seq(Messages)
      BY StoreParts, RowIs DEF StoreInv
    <3>2. QED
      BY <1>1, <1>p, <2>1, <3>1 DEF StoreInv, FileBehind
  <2>2. CASE id \in Fresh
    BY <1>1, <2>2, FreshIs DEF StoreInv, FileBehind
  <2>3. QED
    BY <2>1, <2>2
<1>7. TitledOnce'
  BY <1>1 DEF StoreInv, TitledOnce
<1>8. Archive!Next
  BY QuietMaps
<1>9. QED
  BY <1>2, <1>3, <1>4, <1>5, <1>6, <1>7, <1>8 DEF StoreInv

\* agent_save_session (agent.c:177) when it wrote: the row has all of the agent's
\* messages, which began with the row's own.  It touches only the history of a row
\* that can be read, and otherwise begins a session.
LEMMA AgentWrites ==
  ASSUME StoreInv, NEW id \in SessionIds, NEW msgs \in Seq(Messages),
         IsPrefix(agent.msgs, msgs),
         NEW row \in Rows, row.msgs = msgs, row.good,
         agent' = [agent EXCEPT !.id = id, !.msgs = msgs],
         rows' = [rows EXCEPT ![id] = row], overtaken' = Overtaken("nobody", id),
         (id = agent.id /\ Readable(id) /\ row.tried = rows[id].tried) \/ id \in Fresh,
         UNCHANGED <<front, loaded, dead, made, imports, shown, file, misled, loose>>,
         work \in {"idle", "turn", "tool", "answered"},
            work' \in {"turn", "tool", "answered", "title"},
         front # "library", said' \in 0..MaxSaid
  PROVE  StoreInv' /\ Archive!Next
<1>1. agent'.id = id /\ agent'.msgs = msgs
      /\ agent' \in [id : SessionIds \cup {NoId}, msgs : Seq(Messages), store : BOOLEAN]
  BY DEF StoreInv, StoreTyped
<1>r. rows'[id] = row /\ row # NoRow /\ \A k \in SessionIds \ {id} : rows'[k] = rows[k]
  BY RowIs DEF StoreInv, StoreTyped
<1>o. overtaken' \in [Threads -> BOOLEAN]
      /\ \A t \in Threads : (overtaken[t] => overtaken'[t])
         /\ (loaded[t].id = id => overtaken'[t])
  BY OvertakenIs, NobodyIs DEF StoreInv
<1>2. StoreTyped'
  BY <1>1, <1>o DEF StoreInv, StoreTyped
<1>3. Stages'
  BY <1>1 DEF StoreInv, Stages
<1>4. Copies'
  <2>1. ASSUME NEW t \in Threads, loaded[t] # NoCopy, ~overtaken'[t]
        PROVE  loaded[t].row = rows'[loaded[t].id] /\ loaded[t].id \in SessionIds
               /\ rows'[loaded[t].id] # NoRow /\ rows'[loaded[t].id].good
    <3>1. ~overtaken[t] /\ loaded[t].id # id /\ loaded[t].id \in SessionIds
      BY <1>o, <2>1, StoreParts DEF StoreInv
    <3>2. Readable(loaded[t].id) /\ loaded[t].row = rows[loaded[t].id]
      BY <2>1, <3>1 DEF StoreInv, Copies
    <3>3. QED
      BY <1>r, <3>1, <3>2 DEF Readable
  <2>2. \A t \in Threads : loaded[t] # NoCopy => loaded[t].row.good
    BY DEF StoreInv, Copies
  <2>3. QED
    BY <2>1, <2>2 DEF Copies, Readable
<1>5. Buried'
  BY <1>r, FreshIs DEF StoreInv, Buried, StoreTyped, Readable
<1>p. \A s \in Seq(Messages) : IsPrefix(s, agent.msgs) => IsPrefix(s, msgs)
  BY StoreParts, PrefixTrans DEF StoreInv
<1>q. IsPrefix(msgs, msgs)
  BY PrefixSelf
<1>6. AgentAhead'
  BY <1>1, <1>r, <1>q DEF AgentAhead
<1>7. FileBehind'
  <2>1. file # NoCopy => file.row.msgs \in Seq(Messages)
    BY StoreParts, RowIs DEF StoreInv
  <2>2. CASE file.id = id
    <3>1. id = agent.id /\ Readable(id)
      BY <2>2, FreshIs
    <3>2. file # NoCopy /\ file.id \notin loose => IsPrefix(file.row.msgs, msgs)
      BY <1>p, <2>1, <2>2, <3>1 DEF StoreInv, FileBehind
    <3>3. QED
      BY <1>1, <1>r, <2>2, <3>2 DEF StoreInv, FileBehind
  <2>3. CASE file.id # id
    BY <1>1, <1>r, <2>3, StoreParts DEF StoreInv, FileBehind
  <2>4. QED
    BY <2>2, <2>3
<1>8. TitledOnce'
  <2>1. \/ rows[id] # NoRow /\ row.tried = rows[id].tried
        \/ rows[id] = NoRow /\ id \notin dead
    BY FreshIs DEF Readable
  <2>2. QED
    BY <1>1, <1>r, <2>1 DEF StoreInv, TitledOnce
<1>9. Moves(id)
  <2>1. CASE id \in loose
    BY <2>1, Loosens DEF Moves
  <2>2. CASE id \in Fresh
    <3>1. rows[id] = NoRow /\ id \notin dead /\ id \notin loose /\ made[id] = 0
      BY <2>2, FreshIs DEF StoreInv, TitledOnce
    <3>2. QED
      BY <1>r, <3>1, Begins DEF Moves
  <2>3. CASE id \notin loose /\ id \notin Fresh
    <3>1. /\ id = agent.id
          /\ rows[id] # NoRow
          /\ id \notin dead
          /\ IsPrefix(rows[id].msgs, agent.msgs)
      BY <2>3 DEF StoreInv, Buried, AgentAhead, Readable
    <3>2. IsPrefix(rows[id].msgs, row.msgs)
      BY <1>p, <3>1, StoreParts, RowIs DEF StoreInv
    <3>3. QED
      BY <1>r, <2>3, <3>1, <3>2, Grows DEF Moves
  <2>4. QED
    BY <2>1, <2>2, <2>3
<1>10. Archive!Next
  BY <1>r, <1>9, MovesAlone
<1>11. QED
  BY <1>2, <1>3, <1>4, <1>5, <1>6, <1>7, <1>8, <1>10 DEF StoreInv

\* Both, with the id that it saves as.
LEMMA AgentSaveSafe ==
  ASSUME StoreInv, NEW msgs \in Seq(Messages), IsPrefix(agent.msgs, msgs), AgentSave(msgs),
         UNCHANGED <<front, loaded, dead, made, imports, shown, file, misled>>,
         work \in {"idle", "turn", "tool", "answered"},
            work' \in {"turn", "tool", "answered", "title"},
         front # "library", said' \in 0..MaxSaid
  PROVE  StoreInv' /\ Archive!Next
<1>1. CASE ~agent.store
  <2>1. agent' = [agent EXCEPT !.msgs = msgs] /\ UNCHANGED <<rows, overtaken, loose>>
    BY <1>1 DEF AgentSave
  <2>2. /\ agent' = [agent EXCEPT !.id = agent.id, !.msgs = msgs]
        /\ agent.id \in SessionIds \cup {NoId}
    BY <2>1 DEF StoreInv, StoreTyped
  <2>3. QED
    BY <2>1, <2>2, AgentKeeps
<1>2. CASE agent.store
  <2> DEFINE id(fresh) == SavedAs(fresh)
             row(fresh) == IF id(fresh) = agent.id THEN rows[id(fresh)] ELSE Blank("new")
             new(fresh) == [row(fresh) EXCEPT !.msgs = msgs]
  <2>1. PICK fresh \in Fresh :
             /\ agent' = [agent EXCEPT !.id = id(fresh), !.msgs = msgs] /\ loose' = loose
             /\ \/ rows' = [rows EXCEPT ![id(fresh)] = new(fresh)]
                   /\ overtaken' = Overtaken("nobody", id(fresh))
                \/ UNCHANGED <<rows, overtaken>>
    BY <1>2 DEF AgentSave
  <2>2. \/ id(fresh) = agent.id /\ Readable(id(fresh)) /\ row(fresh) = rows[id(fresh)]
        \/ id(fresh) \in Fresh /\ row(fresh) = Blank("new")
    BY FreshIs DEF SavedAs
  <2>3. Blank("new") \in Rows /\ Blank("new").good
    BY EmptySeq DEF Blank, Rows, Titles
  <2> HIDE DEF id
  <2>4. id(fresh) \in SessionIds /\ row(fresh) \in Rows /\ row(fresh).good
    <3> HIDE DEF row
    <3>1. CASE Readable(id(fresh)) /\ row(fresh) = rows[id(fresh)]
      BY <3>1 DEF StoreInv, StoreTyped, Readable
    <3>2. CASE id(fresh) \in Fresh /\ row(fresh) = Blank("new")
      BY <2>3, <3>2, FreshIs
    <3>3. QED
      BY <2>2, <3>1, <3>2
  <2>5. /\ new(fresh) \in Rows
        /\ new(fresh).msgs = msgs
        /\ new(fresh).good
        /\ new(fresh).tried = row(fresh).tried
    <3> HIDE DEF row
    <3>1. ASSUME NEW r \in Rows, r.good
          PROVE  LET s == [r EXCEPT !.msgs = msgs] IN s \in Rows /\ s.msgs = msgs
                 /\ s.good /\ s.tried = r.tried
      <4>1. [r EXCEPT !.msgs = msgs] \in Rows
        BY RowIs
      <4>2. QED
        BY <3>1, <4>1, RowKeeps
    <3>2. QED
      BY <2>4, <3>1
  <2>6. \/ /\ id(fresh) = agent.id /\ Readable(id(fresh))
           /\ new(fresh).tried = rows[id(fresh)].tried
        \/ id(fresh) \in Fresh
    BY <2>2, <2>5
  <2> HIDE DEF row, new
  <2>7. CASE rows' = [rows EXCEPT ![id(fresh)] = new(fresh)]
             /\ overtaken' = Overtaken("nobody", id(fresh))
    BY <2>1, <2>4, <2>5, <2>6, <2>7, AgentWrites
  <2>8. CASE UNCHANGED <<rows, overtaken>>
    BY <2>1, <2>4, <2>6, <2>8, AgentKeeps
  <2>9. QED
    BY <2>1, <2>7, <2>8
<1>3. QED
  BY <1>1, <1>2

\* A step of the run that saves one more message.
LEMMA SaidSafe ==
  ASSUME StoreInv, NEW from \in {"idle", "turn", "tool", "answered"},
         NEW to \in {"turn", "tool", "answered", "title"},
         Speak, RunStep(from, to, Append(agent.msgs, said + 1)), front # "library"
  PROVE  StoreInv' /\ Archive!Next
<1> DEFINE msgs == Append(agent.msgs, said + 1)
<1>1. said + 1 \in Messages /\ said' \in 0..MaxSaid
  BY SpeakIs DEF StoreInv
<1>2. msgs \in Seq(Messages) /\ IsPrefix(agent.msgs, msgs)
  BY <1>1, StoreParts, PrefixAppend DEF StoreInv
<1>3. /\ AgentSave(msgs) /\ work = from /\ work' = to
      /\ UNCHANGED <<front, loaded, dead, made, imports, shown, file, misled>>
  BY DEF RunStep, ui
<1> HIDE DEF msgs
<1>4. QED
  BY <1>1, <1>2, <1>3, AgentSaveSafe

\* The save at the end of the run, of the same messages.
LEMMA AnswerWholeSafe ==
  ASSUME StoreInv, AnswerWhole
  PROVE  StoreInv' /\ Archive!Next
<1>1. agent.msgs \in Seq(Messages) /\ IsPrefix(agent.msgs, agent.msgs)
  BY StoreParts, PrefixSelf DEF StoreInv
<1>2. /\ AgentSave(agent.msgs) /\ work = "answered" /\ work' = "title"
      /\ UNCHANGED <<front, loaded, dead, made, imports, shown, file, misled>>
      /\ said' \in 0..MaxSaid
  BY DEF AnswerWhole, RunStep, ui, StoreInv, StoreTyped
<1>3. front # "library"
  BY <1>2 DEF StoreInv, Stages
<1>4. QED
  BY <1>1, <1>2, <1>3, AgentSaveSafe

-----------------------------------------------------------------------------
(* Truncation and import                                                   *)
\* session_manager_truncate_history: the session is loose from then on.
LEMMA TruncateHistorySafe ==
  ASSUME StoreInv, NEW id \in SessionIds, TruncateHistory(id)
  PROVE  StoreInv' /\ Archive!Next
<1>1. PICK index \in 1..Len(rows[id].msgs) : rows'
      = [rows EXCEPT ![id].msgs = SubSeq(@, 1, index - 1)]
  BY DEF TruncateHistory
<1> DEFINE row == [rows[id] EXCEPT !.msgs = SubSeq(rows[id].msgs, 1, index - 1)]
<1>2. rows[id] \in Rows /\ rows[id] # NoRow /\ rows[id].msgs \in Seq(Messages)
  BY RowIs DEF TruncateHistory, Readable, StoreInv, StoreTyped
<1>3. row \in Rows
  <2>1. SubSeq(rows[id].msgs, 1, index - 1) \in Seq(Messages)
    BY <1>2
  <2>2. QED
    BY <1>2, <2>1, RowIs
<1>4. rows' = [rows EXCEPT ![id] = row]
  BY <1>1
<1> HIDE DEF row
<1>5. /\ UNCHANGED <<front, agent, work, loaded, shown, file, misled, said, dead, made,
         imports>>
      /\ overtaken' = Overtaken("nobody", id)
      /\ loose' = loose \cup {id}
      /\ front = "library"
  BY DEF TruncateHistory, Library, ui
<1>6. /\ agent.id = NoId /\ file = NoCopy /\ \A t \in Threads : loaded[t] = NoCopy
      /\ work = "idle"
  BY <1>5 DEF StoreInv, Stages, FileBehind, Threads
<1>7. rows'[id] = row /\ \A k \in SessionIds \ {id} : rows'[k] = rows[k]
  BY <1>4 DEF StoreInv, StoreTyped
<1>8. StoreTyped'
  BY <1>3, <1>4, <1>5, OvertakenIs DEF StoreInv, StoreTyped
<1>9. Stages' /\ Copies' /\ FileBehind' /\ AgentAhead'
  BY <1>5, <1>6, StoreNumbers DEF StoreInv, Stages, Copies, FileBehind, AgentAhead
<1>10. Buried'
  BY <1>5, <1>7 DEF StoreInv, Buried, StoreTyped
<1>11. TitledOnce'
  BY <1>5, <1>6, <1>7 DEF StoreInv, TitledOnce
<1>12. Moves(id)
  BY <1>5, Loosens DEF Moves
<1>13. Archive!Next
  BY <1>5, <1>7, <1>12, MovesAlone
<1>14. QED
  BY <1>8, <1>9, <1>10, <1>11, <1>13 DEF StoreInv

\* handle_session_import: the file's session is inserted where there is none, so it had been
\* deleted, and the agent that still has it is not behind the file.
LEMMA ImportSessionSafe ==
  ASSUME StoreInv, ImportSession
  PROVE  StoreInv' /\ Archive!Next
<1> DEFINE i == file.id
           row == file.row
<1>1. file # NoCopy /\ i \in SessionIds /\ row \in Rows /\ row # NoRow
  BY StoreParts, RowIs DEF ImportSession, StoreInv
<1>2. PICK before \in {<<>>, <<System>>} :
         IfAbsent(i, Imported([row EXCEPT !.msgs = before \o @]))
  BY DEF ImportSession
<1>3. rows[i] = NoRow /\ rows' = [rows EXCEPT ![i] = row]
  BY <1>1, <1>2, ImportKeeps DEF IfAbsent
<1>4. /\ UNCHANGED <<front, agent, work, loaded, shown, said, file, misled, loose>>
      /\ overtaken' = Overtaken("nobody", i) /\ dead' = dead \ {i}
      /\ made' = [made EXCEPT ![i] = 0]
      /\ imports' = 1 - imports
      /\ work \in {"idle", "tool"}
  BY DEF ImportSession, Rest
<1> HIDE DEF i, row
<1>5. rows'[i] = row /\ \A k \in SessionIds \ {i} : rows'[k] = rows[k]
  BY <1>1, <1>3 DEF StoreInv, StoreTyped
<1>6. made' \in [SessionIds -> Nat] /\ made'[i] = 0
      /\ \A k \in SessionIds \ {i} : made'[k] = made[k]
  BY <1>1, <1>4 DEF StoreInv, StoreTyped
<1>o. overtaken' \in [Threads -> BOOLEAN]
      /\ \A t \in Threads : (overtaken[t] => overtaken'[t])
         /\ (loaded[t].id = i => overtaken'[t])
  BY <1>1, <1>4, OvertakenIs, NobodyIs DEF StoreInv
<1>7. StoreTyped'
  BY <1>1, <1>3, <1>4, <1>6, <1>o DEF StoreInv, StoreTyped
<1>8. Stages'
  BY <1>4 DEF StoreInv, Stages
<1>9. Copies'
  <2>1. ASSUME NEW t \in Threads, loaded[t] # NoCopy, ~overtaken'[t]
        PROVE  loaded[t].row = rows'[loaded[t].id] /\ loaded[t].id \in SessionIds
               /\ rows'[loaded[t].id] # NoRow /\ rows'[loaded[t].id].good
    <3>1. ~overtaken[t] /\ loaded[t].id # i /\ loaded[t].id \in SessionIds
      BY <1>o, <2>1, StoreParts DEF StoreInv
    <3>2. Readable(loaded[t].id) /\ loaded[t].row = rows[loaded[t].id]
      BY <2>1, <3>1 DEF StoreInv, Copies
    <3>3. QED
      BY <1>5, <3>1, <3>2 DEF Readable
  <2>2. \A t \in Threads : loaded[t] # NoCopy => loaded[t].row.good
    BY DEF StoreInv, Copies
  <2>3. QED
    BY <1>4, <2>1, <2>2 DEF Copies, Readable
<1>10. Buried'
  BY <1>4, <1>5 DEF StoreInv, Buried, StoreTyped
<1>11. AgentAhead'
  <2>1. row.good /\ (agent.id = i /\ i \notin loose => IsPrefix(row.msgs, agent.msgs))
    BY <1>1 DEF StoreInv, FileBehind, i, row
  <2>2. QED
    BY <1>4, <1>5, <2>1 DEF StoreInv, AgentAhead
<1>12. FileBehind'
  <2>1. IsPrefix(row.msgs, row.msgs)
    BY <1>1, RowIs, PrefixSelf
  <2>2. QED
    BY <1>1, <1>4, <1>5, <2>1 DEF StoreInv, FileBehind, i, row
<1>13. TitledOnce'
  BY <1>4, <1>5, <1>6 DEF StoreInv, TitledOnce
<1>14. Moves(i)
  <2>1. CASE i \in loose
    BY <1>1, <1>4, <2>1, Loosens DEF Moves
  <2>2. CASE i \notin loose
    <3>1. i \in dead
      BY <1>1, <1>3, <2>2 DEF StoreInv, FileBehind, i
    <3>2. QED
      BY <1>1, <1>3, <1>4, <1>5, <2>2, <3>1, Returns DEF Moves
  <2>3. QED
    BY <2>1, <2>2
<1>15. Archive!Next
  BY <1>1, <1>4, <1>5, <1>6, <1>14, MovesAlone
<1>16. QED
  BY <1>7, <1>8, <1>9, <1>10, <1>11, <1>12, <1>13, <1>15 DEF StoreInv

-----------------------------------------------------------------------------
(* The whole store                                                         *)
\* The vault as it is opened, damaged rows included, has the invariant and is an
\* archive.
LEMMA StoreStarts ==
  ASSUME StoreInit
  PROVE  StoreInv /\ Archive!Init
<1> DEFINE Row(id, b) == [Blank("user") EXCEPT !.msgs = Stored[id], !.good = b]
<1>1. PICK hurt \in SUBSET DOMAIN Stored :
          rows = [id \in SessionIds |->
                    IF id \notin DOMAIN Stored THEN NoRow ELSE Row(id, id \notin hurt)]
  BY DEF StoreInit
<1>2. ASSUME NEW id \in DOMAIN Stored, NEW b \in BOOLEAN
      PROVE  /\ Row(id, b) \in Rows /\ Row(id, b).msgs = Stored[id]
  <2>1. Stored[id] \in Seq(Messages)
    BY StoreAssumption DEF Messages
  <2>2. Blank("user") \in Rows
    BY EmptySeq DEF Blank, Rows, Titles
  <2>3. ASSUME NEW r \in Rows, NEW m \in Seq(Messages)
        PROVE  LET q == [r EXCEPT !.msgs = m, !.good = b] IN q \in Rows /\ q.msgs = m
    <3>1. [r EXCEPT !.msgs = m] \in Rows /\ [r EXCEPT !.msgs = m].msgs = m
      <4>1. [r EXCEPT !.msgs = m] \in Rows
        BY RowIs
      <4>2. [r EXCEPT !.msgs = m].msgs = m
        BY RowKeeps
      <4>3. QED
        BY <4>1, <4>2
    <3>2. ASSUME NEW q \in Rows
          PROVE  [q EXCEPT !.good = b] \in Rows /\ [q EXCEPT !.good = b].msgs = q.msgs
      BY DEF Rows
    <3>3. QED
      BY <3>1, <3>2
  <2>4. QED
    BY <2>1, <2>2, <2>3
<1> HIDE DEF Row
<1>3. \A id \in SessionIds :
         /\ id \in DOMAIN Stored => rows[id] \in Rows /\ rows[id].msgs = Stored[id]
         /\ id \notin DOMAIN Stored => rows[id] = NoRow
  <2>1. ASSUME NEW id \in SessionIds, id \in DOMAIN Stored
        PROVE  rows[id] \in Rows /\ rows[id].msgs = Stored[id]
    <3>1. \E b \in BOOLEAN : rows[id] = Row(id, b)
      <4>1. rows[id] = Row(id, id \notin hurt) /\ (id \notin hurt) \in BOOLEAN
        BY <1>1, <2>1
      <4>2. QED
        BY <4>1
    <3>2. QED
      BY <1>2, <2>1, <3>1
  <2>2. ASSUME NEW id \in SessionIds, id \notin DOMAIN Stored PROVE rows[id] = NoRow
    BY <1>1, <2>2
  <2>3. QED
    BY <2>1, <2>2
<1>4. rows \in [SessionIds -> Rows \cup {NoRow}]
  <2>1. rows \in [SessionIds -> {rows[id] : id \in SessionIds}]
    BY <1>1
  <2>2. {rows[id] : id \in SessionIds} \subseteq Rows \cup {NoRow}
    BY <1>3
  <2>3. QED
    BY <2>1, <2>2
<1>5. said \in 0..MaxSaid
  <2> DEFINE c == Cardinality(DOMAIN Stored)
  <2>1. c \in Nat
    BY StoreAssumption, FS_Subset, FS_CardinalityType
  <2>2. c <= MaxSaid /\ MaxSaid \in Nat
    BY StoreAssumption
  <2>3. said = c
    BY DEF StoreInit
  <2> HIDE DEF c
  <2>4. QED
    BY <2>1, <2>2, <2>3
<1>6. /\ front \in {"terminal", "server", "library"}
      /\ agent = [id |-> NoId, msgs |-> <<>>, store |-> TRUE]
      /\ work = "idle" /\ shown = NoId /\ file = NoCopy /\ misled = FALSE
      /\ loaded \in [Threads -> {NoCopy}] /\ overtaken \in [Threads -> {FALSE}]
      /\ loose = {} /\ dead = {} /\ made \in [SessionIds -> {0}] /\ imports = 0
  BY DEF StoreInit
<1>7. StoreInv
  <2>1. /\ agent \in [id : SessionIds \cup {NoId}, msgs : Seq(Messages), store : BOOLEAN]
        /\ agent.id = NoId
    <3> DEFINE a == [id |-> NoId, msgs |-> <<>>, store |-> TRUE]
    <3>1. /\ a \in [id : SessionIds \cup {NoId}, msgs : Seq(Messages), store : BOOLEAN]
          /\ a.id = NoId
      <4>1. <<>> \in Seq(Messages)
        OBVIOUS
      <4>2. QED
        BY <4>1
    <3>2. agent = a
      BY <1>6
    <3> HIDE DEF a
    <3>3. QED
      BY <3>1, <3>2
  <2>f. /\ loaded \in [Threads -> {NoCopy} \cup [id : SessionIds, row : Rows]]
        /\ overtaken \in [Threads -> BOOLEAN] /\ made \in [SessionIds -> Nat]
    <3>1. /\ loaded \in [Threads -> {NoCopy}]
          /\ overtaken \in [Threads -> {FALSE}]
          /\ made \in [SessionIds -> {0}]
      BY <1>6
    <3>2. loaded \in [Threads -> {NoCopy} \cup [id : SessionIds, row : Rows]]
      BY <3>1
    <3>3. overtaken \in [Threads -> BOOLEAN]
      BY <3>1
    <3>4. made \in [SessionIds -> Nat]
      BY <3>1
    <3>5. QED
      BY <3>2, <3>3, <3>4
  <2>2. StoreTyped
    <3>1. /\ front \in {"terminal", "server", "library"}
          /\ work = "idle"
          /\ misled \in BOOLEAN
          /\ shown = NoId /\ file = NoCopy /\ loose = {} /\ dead = {}
      BY <1>6
    <3>2. QED
      BY <1>4, <1>5, <2>1, <2>f, <3>1 DEF StoreTyped
  <2>3. Stages /\ Copies /\ Buried /\ AgentAhead /\ FileBehind
    BY <1>6, <2>1, StoreNumbers DEF Stages, Copies, Buried, AgentAhead, FileBehind, Threads
  <2>4. TitledOnce
    BY <1>6, <2>1, StoreNumbers DEF TitledOnce
  <2>5. QED
    BY <2>2, <2>3, <2>4 DEF StoreInv
<1>8. Archive!Init
  <2>1. ASSUME NEW id \in SessionIds
        PROVE  Archived(id)
               = IF id \in DOMAIN Stored THEN Archive!Entry("kept", Stored[id], 0)
                              ELSE Archive!None
    <3>0. id \notin loose /\ id \notin dead /\ made[id] = 0
      BY <1>6
    <3>1. CASE id \in DOMAIN Stored
      <4>1. rows[id] # NoRow /\ rows[id].msgs = Stored[id]
        BY <1>3, <3>1, RowIs
      <4>2. QED
        BY <3>0, <3>1, <4>1 DEF Archived, Archive!Entry
    <3>2. CASE id \notin DOMAIN Stored
      <4>1. rows[id] = NoRow
        BY <1>3, <3>2
      <4>2. QED
        BY <3>0, <3>2, <4>1 DEF Archived, Archive!None, Archive!Entry
    <3>3. QED
      BY <3>1, <3>2
  <2>2. QED
    BY <1>6, <2>1 DEF Archive!Init
<1>9. QED
  BY <1>7, <1>8

\* The steps of a run keep both.
LEMMA AgentRunSafe ==
  ASSUME StoreInv, AgentRun
  PROVE  StoreInv' /\ Archive!Next
<1>0. work = "turn" \/ work = "tool" => front # "library"
  BY DEF StoreInv, Stages
<1>1. CASE AskAgent
  BY <1>1, SaidSafe DEF AskAgent
<1>2. CASE ToolTurn
  BY <1>0, <1>2, SaidSafe DEF ToolTurn, RunStep
<1>3. CASE ToolResult
  BY <1>0, <1>3, SaidSafe DEF ToolResult, RunStep
<1>4. CASE TurnFails
  BY <1>4, TurnFailsSafe
<1>5. CASE AnswerTurn
  BY <1>0, <1>5, SaidSafe DEF AnswerTurn, RunStep
<1>6. CASE AnswerWhole
  BY <1>6, AnswerWholeSafe
<1>7. CASE TitleLook
  BY <1>7, TitleLookSafe
<1>8. CASE TitleLoad("mark", "marking")
  BY <1>8, TitleLoadSafe
<1>9. CASE TitleMark
  BY <1>9, TitleMarkSafe
<1>10. CASE TitleLoad("model", "titling")
  BY <1>10, TitleLoadSafe
<1>11. CASE TitleApply
  BY <1>11, TitleApplySafe
<1>12. CASE EndRun
  BY <1>12, EndRunSafe
<1>13. QED
  BY <1>1, <1>2, <1>3, <1>4, <1>5, <1>6, <1>7, <1>8, <1>9, <1>10, <1>11, <1>12 DEF AgentRun

\* So do the steps of the terminal's threads.
LEMMA TerminalSafe ==
  ASSUME StoreInv, Terminal
  PROVE  StoreInv' /\ Archive!Next
<1>1. CASE JobNew
  BY <1>1, JobNewSafe
<1>2. CASE JobLock
  BY <1>2, JobLockSafe
<1>3. CASE JobUnlock
  BY <1>3, JobUnlockSafe
<1>4. ASSUME NEW id \in SessionIds, JobLoad(id) PROVE StoreInv' /\ Archive!Next
  BY <1>4, JobLoadSafe
<1>5. ASSUME NEW id \in SessionIds, JobDelete(id) PROVE StoreInv' /\ Archive!Next
  BY <1>5, JobDeleteSafe
<1>6. ASSUME NEW id \in SessionIds, JobRename(id) PROVE StoreInv' /\ Archive!Next
  BY <1>6, JobRenameSafe
<1>7. CASE RenameSave
  <2> DEFINE t == "worker"
  <2>1. t \in Threads /\ loaded[t] # NoCopy
    BY <1>7 DEF RenameSave, StoreInv, Stages, Threads
  <2>2. /\ Drops(t) /\ SaveMay(t, loaded[t].id, [loaded[t].row EXCEPT !.title = "user"])
        /\ UNCHANGED <<front, agent, said, shown, file, misled, dead, made, imports>>
        /\ work = "rename" /\ work' = "idle"
    BY <1>7 DEF RenameSave, ui
  <2>3. QED
    BY <2>1, <2>2, RenameSaveSafe
<1>8. CASE SlashSave
  BY <1>8, SlashSaveSafe
<1>9. CASE SlashSaveEnds
  <2> DEFINE t == "other"
  <2>1. t \in Threads /\ loaded[t] # NoCopy
    BY <1>9 DEF SlashSaveEnds, Threads
  <2>2. /\ Drops(t) /\ SaveMay(t, loaded[t].id, [loaded[t].row EXCEPT !.title = "user"])
        /\ UNCHANGED <<front, agent, said, shown, file, misled, dead, made, imports>>
        /\ work' = work
    BY <1>9 DEF SlashSaveEnds, Ui
  <2>3. QED
    BY <2>1, <2>2, RenameSaveSafe
<1>10. QED
  BY <1>1, <1>2, <1>3, <1>4, <1>5, <1>6, <1>7, <1>8, <1>9 DEF Terminal, Jobs

\* So do the REST handlers and the connections.
LEMMA ServerSafe ==
  ASSUME StoreInv, Server
  PROVE  StoreInv' /\ Archive!Next
<1>1. CASE CreateSession
  BY <1>1, CreateSessionSafe
<1>2. CASE ImportSession
  BY <1>2, ImportSessionSafe
<1>3. ASSUME NEW id \in SessionIds, UpdateSession(id) PROVE StoreInv' /\ Archive!Next
  BY <1>3, UpdateSessionSafe
<1>4. ASSUME NEW id \in SessionIds, RenameSession(id) PROVE StoreInv' /\ Archive!Next
  BY <1>4, UpdateSessionSafe DEF RenameSession
<1>5. ASSUME NEW id \in SessionIds, DeleteSession(id) PROVE StoreInv' /\ Archive!Next
  BY <1>5, DeleteSessionSafe
<1>6. ASSUME NEW id \in SessionIds, ExportSession(id) PROVE StoreInv' /\ Archive!Next
  BY <1>6, ExportSessionSafe
<1>7. ASSUME NEW id \in SessionIds, Connect(id) PROVE StoreInv' /\ Archive!Next
  BY <1>7, ConnectSafe
<1>8. QED
  BY <1>1, <1>2, <1>3, <1>4, <1>5, <1>6, <1>7 DEF Server

\* Each step keeps the invariant and is a step of the archive.
LEMMA StoreSteps ==
  ASSUME StoreInv, StoreNext
  PROVE  StoreInv' /\ Archive!Next
<1>1. CASE AgentRun
  BY <1>1, AgentRunSafe
<1>2. CASE Terminal
  BY <1>2, TerminalSafe
<1>3. CASE Server
  BY <1>3, ServerSafe
<1>4. CASE PurgeSessions
  BY <1>4, PurgeSessionsSafe
<1>5. ASSUME NEW id \in SessionIds, AddMessage(id) PROVE StoreInv' /\ Archive!Next
  BY <1>5, AddMessageSafe
<1>6. ASSUME NEW id \in SessionIds, TruncateHistory(id) PROVE StoreInv' /\ Archive!Next
  BY <1>6, TruncateHistorySafe
<1>7. ASSUME NEW id \in SessionIds, LogEvent(id) PROVE StoreInv' /\ Archive!Next
  BY <1>7, LogEventSafe
<1>8. QED
  BY <1>1, <1>2, <1>3, <1>4, <1>5, <1>6, <1>7 DEF StoreNext, LibraryCalls

\* Where the store rests the archive does.
LEMMA StoreIdles ==
  ASSUME StoreInv, UNCHANGED sessions
  PROVE  StoreInv' /\ UNCHANGED <<[id \in SessionIds |-> Archived(id)], imports>>
<1>1. /\ UNCHANGED <<front, rows, agent, work, loaded, shown, file, said, misled>>
      /\ UNCHANGED <<overtaken, loose, dead, made, imports>>
  BY DEF sessions
<1>2. StoreTyped' /\ Stages' /\ Buried' /\ AgentAhead' /\ FileBehind' /\ TitledOnce'
  BY <1>1 DEF StoreInv, StoreTyped, Stages, Buried, AgentAhead, FileBehind, TitledOnce
<1>3. Copies'
  BY <1>1 DEF StoreInv, Copies, Readable
<1>4. \A id \in SessionIds : Archived(id)' = Archived(id)
  BY <1>1, StaysSo
<1>5. [id \in SessionIds |-> Archived(id)]' = [id \in SessionIds |-> Archived(id)]
  BY <1>4
<1>6. QED
  BY <1>1, <1>2, <1>3, <1>5 DEF StoreInv

-----------------------------------------------------------------------------
(* Theorems                                                                *)
\* The invariant holds at all times, for any sessions in the vault and whoever uses
\* the store.
THEOREM StoreHolds == MCSpec => []StoreInv
<1>1. Start => StoreInv
  BY StoreStarts DEF Start
<1>2. StoreInv /\ [Step /\ UNCHANGED subject]_<<subject, vars, sessions>> => StoreInv'
  <2> SUFFICES ASSUME StoreInv, [Step /\ UNCHANGED subject]_<<subject, vars,
     sessions>> PROVE StoreInv'
    OBVIOUS
  <2>1. CASE StoreNext
    BY <2>1, StoreSteps
  <2>2. CASE UNCHANGED sessions
    BY <2>2, StoreIdles
  <2>3. QED
    BY <2>1, <2>2 DEF Step
<1>3. QED
  BY <1>1, <1>2, PTL DEF MCSpec

\* The types hold at all times; the worker holds a copy only on its way to a save.
THEOREM StoreTypes == MCSpec => []StoreTypeOK
<1>1. StoreInv => StoreTypeOK
  <2> SUFFICES ASSUME StoreInv PROVE StoreTypeOK
    OBVIOUS
  <2>1. \A id \in SessionIds : rows[id] = NoRow \/ rows[id] \in Rows
    BY StoreParts DEF StoreInv
  <2>2. QED
    BY <2>1, StoreParts DEF StoreInv, StoreTyped, Stages, StoreTypeOK
<1>2. QED
  BY <1>1, StoreHolds, PTL

\* The program keeps its sessions like the archive (session_manager.c, agent.c:177,
\* agent_title.c:129, tui_cmd.c:34, routes_session.c:330): whatever the run, the UI
\* thread, the worker and the handlers do in between, no message is lost, what was
\* deleted returns only with an import and a title is made once, unless two callers
\* saved the session over each other.
THEOREM SessionsArchived == MCSpec => ImplementsArchive
<1>1. Start => Archive!Init
  BY StoreStarts DEF Start
<1>2. StoreInv /\ [Step /\ UNCHANGED subject]_<<subject, vars, sessions>>
        => [Archive!Next]_<<[id \in SessionIds |-> Archived(id)], imports>>
  <2> SUFFICES ASSUME StoreInv, [Step /\ UNCHANGED subject]_<<subject, vars, sessions>>
               PROVE  Archive!Next
                      \/ UNCHANGED <<[id \in SessionIds |-> Archived(id)], imports>>
    OBVIOUS
  <2>1. CASE StoreNext
    BY <2>1, StoreSteps
  <2>2. CASE UNCHANGED sessions
    BY <2>2, StoreIdles
  <2>3. QED
    BY <2>1, <2>2 DEF Step
<1>3. QED
  BY <1>1, <1>2, StoreHolds, PTL DEF MCSpec, ImplementsArchive, Archive!Spec

-----------------------------------------------------------------------------
(* Chains and the pills that link them                                     *)
\* A set of chains that no pill leaves, and chains that pills link all to the first.
ClosedIn(P, n, S) == \A i \in S, j \in 0..n : P[i] \cap P[j] # {} => j \in S
LinkedBy(P, n) == \A S \in SUBSET (0..n) : 0 \in S /\ ClosedIn(P, n, S) => S = 0..n

\* A pill leads both ways: what is linked to the first is linked to any.
LEMMA LinkedFrom ==
  ASSUME NEW n \in Nat, NEW P, LinkedBy(P, n), NEW S \in SUBSET (0..n), NEW k \in S, ClosedIn(P, n, S)
  PROVE  S = 0..n
<1> DEFINE T == (0..n) \ S
<1>1. CASE 0 \in S
  BY <1>1 DEF LinkedBy
<1>2. CASE 0 \notin S
  <2>1. T \in SUBSET (0..n) /\ 0 \in T
    BY <1>2
  <2>2. ASSUME NEW i \in T, NEW j \in 0..n, P[i] \cap P[j] # {} PROVE j \in T
    <3>1. CASE j \in S
      <4>1. P[j] \cap P[i] # {} /\ i \in 0..n
        BY <2>2
      <4>2. i \in S
        BY <3>1, <4>1 DEF ClosedIn
      <4>3. QED
        BY <4>2
    <3>2. QED
      BY <3>1
  <2> HIDE DEF T
  <2>3. ClosedIn(P, n, T)
    BY <2>2 DEF ClosedIn
  <2>4. T = 0..n
    BY <2>1, <2>3 DEF LinkedBy
  <2>5. QED
    BY <2>4 DEF T
<1>3. QED
  BY <1>1, <1>2

\* Chains may change places and gain pills: they stay linked.
Permutes(p, n) ==
    /\ \A i \in 0..n : p[i] \in 0..n
    /\ \A i, j \in 0..n : p[i] = p[j] => i = j
    /\ \A i \in 0..n : \E j \in 0..n : p[j] = i
LEMMA LinkedMoved ==
  ASSUME NEW n \in Nat, NEW P, NEW Q, LinkedBy(P, n), NEW p, Permutes(p, n),
         \A i \in 0..n : P[p[i]] \subseteq Q[i]
  PROVE  LinkedBy(Q, n)
<1> SUFFICES ASSUME NEW S \in SUBSET (0..n), 0 \in S, ClosedIn(Q, n, S) PROVE S = 0..n
  BY DEF LinkedBy
<1> DEFINE T == {p[j] : j \in S}
<1>1. T \in SUBSET (0..n) /\ p[0] \in T
  <2>1. \A j \in S : j \in 0..n
    OBVIOUS
  <2>2. \A j \in S : p[j] \in 0..n
    BY <2>1 DEF Permutes
  <2>3. QED
    BY <2>2
<1>2. ASSUME NEW i \in T, NEW j \in 0..n, P[i] \cap P[j] # {} PROVE j \in T
  <2>1. PICK a \in S : i = p[a]
    OBVIOUS
  <2>2. PICK c \in 0..n : p[c] = j
    BY DEF Permutes
  <2>3. P[p[a]] \subseteq Q[a] /\ P[p[c]] \subseteq Q[c]
    <3>1. a \in 0..n
      OBVIOUS
    <3>2. QED
      BY <3>1
  <2>4. Q[a] \cap Q[c] # {}
    BY <1>2, <2>1, <2>2, <2>3
  <2>5. c \in S
    BY <2>4 DEF ClosedIn
  <2>6. QED
    BY <2>2, <2>5
<1> HIDE DEF T
<1>3. ClosedIn(P, n, T)
  BY <1>2 DEF ClosedIn
<1>4. T = 0..n
  BY <1>1, <1>3, LinkedFrom
<1>5. ASSUME NEW i \in 0..n PROVE i \in S
  <2>1. p[i] \in T
    BY <1>4 DEF Permutes
  <2>2. PICK a \in S : p[a] = p[i]
    BY <2>1 DEF T
  <2>3. a \in 0..n /\ a = i
    BY <2>2 DEF Permutes
  <2>4. QED
    BY <2>3
<1>6. QED
  BY <1>5

\* A fork leaves the first chain with its pills behind and begins another that
\* shares a pill with it.
LEMMA LinkedForked ==
  ASSUME NEW n \in Nat, NEW P, NEW Q, LinkedBy(P, n), P[0] \subseteq Q[n + 1],
         \A i \in 1..n : P[i] \subseteq Q[i], Q[0] \cap Q[n + 1] # {}
  PROVE  LinkedBy(Q, n + 1)
<1> SUFFICES ASSUME NEW S \in SUBSET (0..n + 1), 0 \in S, ClosedIn(Q, n + 1, S) PROVE S = 0..n + 1
  BY DEF LinkedBy
<1> DEFINE T == {0} \cup (S \cap (1..n))
<1>1. T \in SUBSET (0..n) /\ 0 \in T
  OBVIOUS
<1>2. n + 1 \in S
  <2>1. n + 1 \in 0..n + 1
    OBVIOUS
  <2>2. QED
    BY <2>1 DEF ClosedIn
<1>3. ASSUME NEW i \in T, NEW j \in 0..n, P[i] \cap P[j] # {} PROVE j \in T
  <2>1. CASE j = 0
    BY <2>1
  <2>2. CASE j # 0
    <3>1. j \in 1..n /\ j \in 0..n + 1 /\ P[j] \subseteq Q[j]
      BY <2>2
    <3>2. CASE i = 0
      <4>1. Q[n + 1] \cap Q[j] # {}
        BY <1>3, <3>1, <3>2
      <4>2. j \in S
        BY <1>2, <3>1, <4>1 DEF ClosedIn
      <4>3. QED
        BY <3>1, <4>2
    <3>3. CASE i # 0
      <4>1. i \in S /\ i \in 1..n /\ P[i] \subseteq Q[i]
        BY <3>3
      <4>2. Q[i] \cap Q[j] # {}
        BY <1>3, <3>1, <4>1
      <4>3. j \in S
        BY <3>1, <4>1, <4>2 DEF ClosedIn
      <4>4. QED
        BY <3>1, <4>3
    <3>4. QED
      BY <3>2, <3>3
  <2>3. QED
    BY <2>1, <2>2
<1> HIDE DEF T
<1>4. ClosedIn(P, n, T)
  BY <1>3 DEF ClosedIn
<1>5. T = 0..n
  BY <1>1, <1>4 DEF LinkedBy
<1>6. ASSUME NEW i \in 0..n + 1 PROVE i \in S
  <2>1. i = 0 \/ i = n + 1 \/ (i \in 1..n /\ i \in T)
    BY <1>5
  <2>2. QED
    BY <1>2, <2>1 DEF T
<1>7. QED
  BY <1>6

\* A function of the numbers may be given by its first value and a step from each
\* to the next.
IsFold(f, X, base, step) == f \in [Nat -> X] /\ f[0] = base /\ \A n \in Nat : n # 0 => f[n] = step[<<f[n - 1], n>>]
LEMMA FoldExists ==
  ASSUME NEW X, NEW base \in X, NEW step \in [X \X Nat -> X]
  PROVE  \E f : IsFold(f, X, base, step)
<1> DEFINE Good(h, n) == h \in [0..n -> X] /\ h[0] = base /\ \A k \in 1..n : h[k] = step[<<h[k - 1], k>>]
           Bad == {n \in Nat : ~\E h : Good(h, n)}
<1>1. Bad = {}
  <2>1. SUFFICES ASSUME Bad # {} PROVE FALSE
    OBVIOUS
  <2>2. PICK m \in Bad : \A k \in Bad : m <= k
    <3> HIDE DEF Bad
    <3>1. Bad \in SUBSET Nat
      BY DEF Bad
    <3>2. QED
      BY <2>1, <3>1, LeastNat
  <2>3. m # 0
    <3>1. PICK h : h = [k \in 0..0 |-> base]
      OBVIOUS
    <3>a. 0 \in 0..0
      OBVIOUS
    <3>b. h \in [0..0 -> X]
      BY <3>1
    <3>c. h[0] = base
      BY <3>1, <3>a
    <3>2. h \in [0..0 -> X] /\ h[0] = base /\ \A k \in 1..0 : FALSE
      BY <3>b, <3>c
    <3>3. Good(h, 0)
      BY <3>2
    <3>4. QED
      BY <3>3
  <2>4. m \in Nat /\ m - 1 \in Nat /\ m - 1 \notin Bad
    BY <2>2, <2>3
  <2>5. PICK h : Good(h, m - 1)
    BY <2>4
  <2> DEFINE x == step[<<h[m - 1], m>>]
             more == [k \in 0..m |-> IF k = m THEN x ELSE h[k]]
  <2>6. h[m - 1] \in X /\ x \in X
    BY <2>4, <2>5
  <2> HIDE DEF x
  <2>7. more \in [0..m -> X] /\ more[0] = base
    BY <2>3, <2>4, <2>5, <2>6
  <2>8. ASSUME NEW k \in 1..m PROVE more[k] = step[<<more[k - 1], k>>]
    <3>1. CASE k = m
      <4>1. m - 1 \in 0..m /\ m \in 0..m /\ m - 1 # m
        BY <2>4
      <4>2. more[m] = x /\ more[m - 1] = h[m - 1]
        BY <4>1
      <4>3. QED
        BY <3>1, <4>2 DEF x
    <3>2. CASE k # m
      <4>1. k \in 1..(m - 1) /\ k - 1 \in 0..(m - 1) /\ k - 1 \in 0..m /\ k - 1 # m
        BY <2>4, <3>2
      <4>2. QED
        BY <2>5, <3>2, <4>1
    <3>3. QED
      BY <3>1, <3>2
  <2>9. Good(more, m)
    <3> HIDE DEF more
    <3>1. QED
      BY <2>7, <2>8
  <2>10. QED
    BY <2>2, <2>9
<1>2. ASSUME NEW n \in Nat PROVE \E h : Good(h, n)
  <2> HIDE DEF Good
  <2>1. QED
    BY <1>1
<1> DEFINE H(n) == CHOOSE h : Good(h, n)
<1>3. ASSUME NEW n \in Nat PROVE Good(H(n), n)
  <2> HIDE DEF Good
  <2>1. QED
    BY <1>2
<1> HIDE DEF H
<1>4. ASSUME NEW n \in Nat, NEW k \in 0..n PROVE H(n)[k] = H(k)[k]
  <2> DEFINE Off == {j \in Nat : j <= k /\ H(n)[j] # H(k)[j]}
  <2>1. SUFFICES ASSUME Off # {} PROVE FALSE
    BY <1>4
  <2>2. PICK m \in Off : \A j \in Off : m <= j
    <3> HIDE DEF Off
    <3>1. Off \in SUBSET Nat
      BY DEF Off
    <3>2. QED
      BY <2>1, <3>1, LeastNat
  <2>3. k \in Nat /\ Good(H(n), n) /\ Good(H(k), k)
    BY <1>3
  <2>4. m # 0
    BY <2>2, <2>3
  <2>5. m \in Nat /\ m - 1 \in Nat /\ m - 1 \notin Off /\ m - 1 <= k /\ m \in 1..k /\ m \in 1..n
    BY <2>2, <2>3, <2>4
  <2>6. H(n)[m - 1] = H(k)[m - 1]
    BY <2>5
  <2>7. H(n)[m] = step[<<H(n)[m - 1], m>>] /\ H(k)[m] = step[<<H(k)[m - 1], m>>]
    BY <2>3, <2>5
  <2>8. QED
    BY <2>2, <2>6, <2>7
<1> DEFINE f == [n \in Nat |-> H(n)[n]]
<1>5. f \in [Nat -> X] /\ f[0] = base
  <2>1. ASSUME NEW n \in Nat PROVE H(n)[n] \in X
    BY <1>3
  <2>2. H(0)[0] = base
    BY <1>3
  <2>3. QED
    BY <2>1, <2>2
<1>6. ASSUME NEW n \in Nat, n # 0 PROVE f[n] = step[<<f[n - 1], n>>]
  <2>1. n - 1 \in Nat /\ n - 1 \in 0..n /\ n \in 1..n
    BY <1>6
  <2>2. H(n)[n - 1] = H(n - 1)[n - 1]
    BY <1>4, <2>1
  <2>3. H(n)[n] = step[<<H(n)[n - 1], n>>]
    BY <1>3, <2>1
  <2>4. QED
    BY <2>1, <2>2, <2>3
<1> HIDE DEF f
<1>7. IsFold(f, X, base, step)
  BY <1>5, <1>6 DEF IsFold
<1>8. QED
  BY <1>7

\* The steps that Reached takes over the pills: each adds the neighbours.
More(S) == S \union {r.messages : r \in {q \in Elements(list) : \E s \in S : Neighbours(s, q.messages)}}
Stepping(G) == G[0] = {live} /\ \A n \in 1..Len(list) : G[n] = More(G[n - 1])
LEMMA ReachSteps ==
  ASSUME list \in Seq(Record)
  PROVE  \E G : Stepping(G) /\ \A k \in DOMAIN list : Reached(k) <=> list[k].messages \in G[Len(list)]
<1> DEFINE M == {live} \cup {r.messages : r \in Elements(list)}
           step == [p \in (SUBSET M) \X Nat |-> More(p[1])]
           Is(f) == f = [n \in 0..Len(list) |-> IF n = 0 THEN {live} ELSE f[n - 1] \union
                           {r.messages : r \in {q \in Elements(list) : \E s \in f[n - 1] : Neighbours(s, q.messages)}}]
           G == CHOOSE f : Is(f)
<1>0. Len(list) \in Nat
  OBVIOUS
<1>1. PICK X : X = SUBSET M
  OBVIOUS
<1>2. PICK base \in X : base = {live}
  BY <1>1
<1>3. \A S \in SUBSET M : More(S) \in SUBSET M
  BY DEF More
<1>4. PICK st \in [X \X Nat -> X] : st = step
  <2> HIDE DEF M
  <2>1. step \in [(SUBSET M) \X Nat -> SUBSET M]
    BY <1>3
  <2>2. QED
    BY <1>1, <2>1
<1>5. \E f : IsFold(f, X, base, st)
  <2> HIDE DEF step
  <2>1. QED
    BY FoldExists
<1>6. PICK f : IsFold(f, X, base, st)
  BY <1>5
<1>7. f[0] = {live} /\ \A n \in Nat : n # 0 => f[n] = More(f[n - 1])
  <2>1. ASSUME NEW n \in Nat, n # 0 PROVE f[n] = More(f[n - 1])
    <3>1. n - 1 \in Nat /\ f[n - 1] \in SUBSET M /\ f[n] = st[<<f[n - 1], n>>]
      BY <1>1, <1>6, <2>1 DEF IsFold
    <3> HIDE DEF M
    <3>2. PICK q \in (SUBSET M) \X Nat : q = <<f[n - 1], n>>
      BY <3>1
    <3>3. step[q] = More(q[1]) /\ q[1] = f[n - 1]
      BY <3>2
    <3>4. QED
      BY <1>4, <3>1, <3>2, <3>3
  <2>2. QED
    BY <1>2, <1>6, <2>1 DEF IsFold
<1>8. PICK h : h = [n \in 0..Len(list) |-> f[n]]
  OBVIOUS
<1>9. Is(h)
  <2>1. ASSUME NEW n \in 0..Len(list)
        PROVE  h[n] = IF n = 0 THEN {live} ELSE h[n - 1] \union
                         {r.messages : r \in {q \in Elements(list) : \E s \in h[n - 1] : Neighbours(s, q.messages)}}
    <3>1. CASE n = 0
      BY <1>7, <1>8, <3>1
    <3>2. CASE n # 0
      <4>1. n \in Nat /\ n - 1 \in 0..Len(list)
        BY <1>0, <3>2
      <4>2. h[n] = More(h[n - 1])
        BY <1>7, <1>8, <3>2, <4>1
      <4>3. QED
        BY <3>2, <4>2 DEF More
    <3>3. QED
      BY <3>1, <3>2
  <2>2. h = [n \in 0..Len(list) |-> h[n]]
    BY <1>8
  <2>3. QED
    BY <2>1, <2>2
<1>10. Is(G)
  <2> HIDE DEF Is
  <2>1. QED
    BY <1>9
<1>11. \A k \in DOMAIN list : Reached(k) <=> list[k].messages \in G[Len(list)]
  BY DEF Reached
<1> HIDE DEF G
<1>12. ASSUME NEW n \in 0..Len(list)
       PROVE  G[n] = IF n = 0 THEN {live} ELSE G[n - 1] \union
                        {r.messages : r \in {q \in Elements(list) : \E s \in G[n - 1] : Neighbours(s, q.messages)}}
  BY <1>10
<1>13. Stepping(G)
  <2>1. G[0] = {live}
    <3>1. 0 \in 0..Len(list)
      BY <1>0
    <3>2. G[0] = IF 0 = 0 THEN {live} ELSE G[0 - 1] \union
             {r.messages : r \in {q \in Elements(list) : \E s \in G[0 - 1] : Neighbours(s, q.messages)}}
      BY <1>12, <3>1
    <3>3. QED
      BY <3>2
  <2>2. ASSUME NEW n \in 1..Len(list) PROVE G[n] = More(G[n - 1])
    <3>1. n \in 0..Len(list) /\ n # 0
      BY <1>0
    <3>2. QED
      BY <1>12, <3>1 DEF More
  <2>3. QED
    BY <2>1, <2>2 DEF Stepping
<1>14. QED
  BY <1>11, <1>13

\* When no set of chains is cut off, these steps lead to every chain: as long as one
\* is missing each of them finds another.
LEMMA LinkedReached ==
  ASSUME list \in Seq(Record), NEW P, LinkedBy(P, Len(list)), P[0] = GroupsOf(live),
         \A k \in 1..Len(list) : P[k] = GroupsOf(list[k].messages), NEW x \in DOMAIN list
  PROVE  Reached(x)
<1>0. PICK N \in Nat : N = Len(list)
  OBVIOUS
<1>1. PICK G : Stepping(G) /\ \A k \in DOMAIN list : Reached(k) <=> list[k].messages \in G[Len(list)]
  BY ReachSteps
<1>2. DOMAIN list = 1..N
  BY <1>0
<1> DEFINE R(m) == {k \in 1..N : list[k].messages \in G[m]}
<1>3. G[0] = {live} /\ \A m \in 0..N : m + 1 <= N => G[m + 1] = More(G[m])
  <2>1. ASSUME NEW m \in 0..N, m + 1 <= N PROVE G[m + 1] = More(G[m])
    <3>1. m + 1 \in 1..N /\ (m + 1) - 1 = m
      BY <1>0, <2>1
    <3>2. QED
      BY <1>0, <1>1, <3>1 DEF Stepping
  <2>2. QED
    BY <1>1, <2>1 DEF Stepping
<1>4. \A m \in 0..N : live \in G[m]
  <2> DEFINE Bad == {m \in 0..N : live \notin G[m]}
  <2>1. SUFFICES ASSUME Bad # {} PROVE FALSE
    OBVIOUS
  <2>2. PICK m \in Bad : \A k \in Bad : m <= k
    <3>1. Bad \in SUBSET Nat
      OBVIOUS
    <3> HIDE DEF Bad
    <3>2. QED
      BY <2>1, <3>1, LeastNat
  <2>3. m # 0
    BY <1>3, <2>2
  <2>4. m \in 1..N /\ m - 1 \in 0..N /\ (m - 1) + 1 = m /\ ~(m <= m - 1)
    BY <1>0, <2>2, <2>3
  <2>5. live \in G[m - 1]
    BY <2>2, <2>4
  <2>6. G[m] = More(G[m - 1])
    BY <1>0, <1>3, <2>4
  <2>7. QED
    BY <2>2, <2>5, <2>6 DEF More
<1>5. ASSUME NEW m \in 0..N, m + 1 <= N
      PROVE  /\ R(m) \subseteq R(m + 1)
             /\ R(m + 1) = R(m) => R(m) = 1..N
  <2>1. G[m + 1] = More(G[m])
    BY <1>3, <1>5
  <2>2. R(m) \subseteq R(m + 1)
    BY <2>1 DEF More
  <2>3. ASSUME R(m + 1) = R(m) PROVE R(m) = 1..N
    <3> DEFINE S == {0} \cup R(m)
    <3>1. ASSUME NEW i \in S, NEW j \in 0..N, P[i] \cap P[j] # {} PROVE j \in S
      <4>1. CASE j = 0
        BY <4>1
      <4>2. CASE j # 0
        <5>1. j \in 1..N /\ P[j] = GroupsOf(list[j].messages)
          BY <1>0, <4>2
        <5>2. PICK s \in G[m] : P[i] = GroupsOf(s)
          BY <1>0, <1>4
        <5>3. Neighbours(s, list[j].messages)
          BY <3>1, <5>1, <5>2 DEF Neighbours
        <5>4. list[j] \in Elements(list)
          BY <1>2, <5>1 DEF Elements
        <5>5. list[j].messages \in G[m + 1]
          BY <2>1, <5>3, <5>4 DEF More
        <5>6. j \in R(m + 1)
          BY <5>1, <5>5
        <5>7. QED
          BY <2>3, <5>6
      <4>3. QED
        BY <4>1, <4>2
    <3>2. S \in SUBSET (0..N) /\ 0 \in S
      BY <1>0
    <3> HIDE DEF S
    <3>3. ClosedIn(P, N, S)
      BY <3>1 DEF ClosedIn
    <3>4. S = 0..N
      BY <1>0, <3>2, <3>3 DEF LinkedBy
    <3>5. \A k \in 1..N : k \in S /\ k # 0
      BY <1>0, <3>4
    <3>6. QED
      BY <3>5 DEF S
  <2>4. QED
    BY <2>2, <2>3
<1>6. \A m \in 0..N : R(m) = 1..N \/ Cardinality(R(m)) >= m
  <2> DEFINE Bad == {m \in 0..N : ~(R(m) = 1..N \/ Cardinality(R(m)) >= m)}
  <2> HIDE DEF R
  <2>0. \A m \in 0..N : IsFiniteSet(R(m)) /\ Cardinality(R(m)) \in Nat
    <3>1. IsFiniteSet(1..N)
      BY <1>0, FS_Interval
    <3>2. \A m \in 0..N : R(m) \in SUBSET (1..N)
      BY DEF R
    <3>3. QED
      BY <3>1, <3>2, FS_Subset, FS_CardinalityType
  <2>1. SUFFICES ASSUME Bad # {} PROVE FALSE
    OBVIOUS
  <2>2. PICK m \in Bad : \A k \in Bad : m <= k
    <3>1. Bad \in SUBSET Nat
      BY <1>0
    <3> HIDE DEF Bad
    <3>2. QED
      BY <2>1, <3>1, LeastNat
  <2>3. m # 0
    BY <2>0, <2>2
  <2>4. m \in Nat /\ m - 1 \in 0..N /\ (m - 1) + 1 = m /\ m <= N /\ ~(m <= m - 1)
    BY <1>0, <2>2, <2>3
  <2>5. R(m - 1) = 1..N \/ Cardinality(R(m - 1)) >= m - 1
    BY <2>2, <2>4
  <2>6. R(m - 1) \subseteq R(m) /\ (R(m) = R(m - 1) => R(m - 1) = 1..N)
    BY <1>5, <2>4
  <2>7. CASE R(m - 1) = 1..N
    <3>1. R(m) = 1..N
      BY <2>6, <2>7 DEF R
    <3>2. QED
      BY <2>2, <3>1
  <2>8. CASE R(m - 1) # 1..N
    <3>1. R(m - 1) # R(m) /\ R(m - 1) \in SUBSET R(m)
      BY <2>6, <2>8
    <3>2. IsFiniteSet(R(m)) /\ Cardinality(R(m)) \in Nat /\ Cardinality(R(m - 1)) \in Nat
      BY <2>0, <2>2, <2>4
    <3>3. Cardinality(R(m - 1)) <= Cardinality(R(m)) /\ Cardinality(R(m - 1)) # Cardinality(R(m))
      BY <3>1, <3>2, FS_Subset
    <3>4. Cardinality(R(m)) >= m
      BY <2>4, <2>5, <2>8, <3>2, <3>3
    <3>5. QED
      BY <2>2, <3>4
  <2>9. QED
    BY <2>7, <2>8
<1>7. R(N) = 1..N
  <2> HIDE DEF R
  <2>1. N \in 0..N /\ IsFiniteSet(1..N) /\ Cardinality(1..N) = N
    <3>1. 1 \in Int /\ N \in Int /\ N \in 0..N
      BY <1>0
    <3>2. IsFiniteSet(1..N) /\ Cardinality(1..N) = IF 1 > N THEN 0 ELSE N - 1 + 1
      BY <3>1, FS_Interval
    <3>3. (IF 1 > N THEN 0 ELSE N - 1 + 1) = N
      BY <1>0
    <3>4. QED
      BY <3>1, <3>2, <3>3
  <2>2. R(N) \in SUBSET (1..N)
    BY DEF R
  <2>3. CASE Cardinality(R(N)) >= N
    <3>1. Cardinality(R(N)) <= N /\ Cardinality(R(N)) \in Nat
      BY <2>1, <2>2, FS_Subset, FS_CardinalityType
    <3>2. Cardinality(1..N) = Cardinality(R(N))
      BY <2>1, <2>3, <3>1
    <3>3. QED
      BY <2>1, <2>2, <3>2, FS_Subset
  <2>4. QED
    BY <1>6, <2>1, <2>3
<1>8. x \in R(N)
  BY <1>2, <1>7
<1>9. QED
  BY <1>0, <1>1, <1>8

-----------------------------------------------------------------------------
(* The invariant of the branches                                           *)
\* The chains of a session: the live one is number 0, then those in the records.
Chain(k) == IF k = 0 THEN live ELSE list[k].messages
Number(k) == IF k = 0 THEN chain ELSE list[k].chain
Birth(k) == IF k = 0 THEN birth ELSE list[k].birth

\* The runs that owe a group, and the groups they owe.
Owing(s) == {i \in 1..Len(s) : s[i].group # None}
OwedBy(s) == {s[i].group : i \in Owing(s)}

\* A chain is no longer than what was written, and its ids are its own.
Proper(s, n, b) ==
    /\ Len(s) <= b /\ \A i \in 1..Len(s) : s[i].id <= n
    /\ \A i, j \in 1..Len(s) : s[i].id # None /\ s[i].id = s[j].id => i = j

\* Ids are minted for forks and for regenerates that were answered; the chains of the
\* store and the copies of the tabs are proper.
IdsLeft == ids + Cardinality(Owing(runs)) <= 2 * chains
Chained == \A k \in 0..Len(list) : Proper(Chain(k), ids, bodies)
Copied == \A t \in Tabs : Proper(mem[t], ids, bodies)

\* Chains are born in the order of their numbers, those in records before now.
Born ==
    /\ birth <= clock /\ \A k \in 1..Len(list) : list[k].birth < clock
    /\ \A k \in 0..Len(list) : Number(k) <= chains
    /\ \A j, k \in 0..Len(list) : (Birth(j) < Birth(k) <=> Number(j) < Number(k)) /\ (Number(j) = Number(k) => j = k)

\* A tab that is up to date has the stored chain but for tags and, after a
\* regenerate without an answer, its last message, whose body a record has.
Follows(t) ==
    /\ \/ Len(live) = Len(mem[t])
       \/ /\ Len(live) = Len(mem[t]) + 1
          /\ \E k \in 1..Len(list) : live[Len(live)].body \in BodiesOf(list[k].messages)
    /\ \A i \in 1..Len(mem[t]) : mem[t][i].body = live[i].body /\ mem[t][i].id \in {None, live[i].id}

\* A regenerate writes behind where it began; its group is on the stored chain
\* until its tab has written there.
WritesAt(r) ==
    /\ r.at \in 1..Len(mem[r.tab]) + 1
    /\ \A j \in r.at..Len(mem[r.tab]) : mem[r.tab][j].id = None /\ mem[r.tab][j].group = None
    /\ ~stale /\ ~untagged /\ r.tab \notin behind => r.group \in GroupsOf(live) \/ r.at <= Len(mem[r.tab])
Writing == \A i \in Owing(runs) : WritesAt(runs[i])

\* Every message is on some chain; the pills link the chains when those that
\* regenerates owe the live one are counted with it.
Written == 1..bodies = UNION {BodiesOf(Chain(k)) : k \in 0..Len(list)}
Pills == [k \in 0..Len(list) |-> IF k = 0 THEN GroupsOf(live) \cup OwedBy(runs) ELSE GroupsOf(list[k].messages)]

UpToDate == \A t \in Tabs \ behind : Follows(t)
NoneLost == ~stale => Written
Linked == ~stale /\ ~untagged => LinkedBy(Pills, Len(list))

BranchInv ==
    /\ TypeOK /\ IdsLeft /\ Chained /\ Copied /\ Born
    /\ Writing /\ UpToDate /\ NoneLost /\ Linked

-----------------------------------------------------------------------------
(* Sequences of messages, of records and of runs                           *)
\* The constants are numbers.
LEMMA BranchNumbers == MaxBodies \in Nat /\ MaxForks \in Nat /\ MaxClock \in Nat /\ MaxBodies > 0
BY SessionBranchAssumption

\* A message's parts are numbers.
LEMMA MessageIs ==
  ASSUME NEW m \in Message
  PROVE  m.body \in Nat /\ m.body \in 1..MaxBodies /\ m.id \in Nat /\ m.id \in Ids /\ m.group \in Nat /\ m.group \in Groups
BY BranchNumbers DEF Message, Ids, Groups

\* The bodies and groups of a chain, one by one.
LEMMA OfIs ==
  ASSUME NEW s \in Seq(Message)
  PROVE  /\ \A b : b \in BodiesOf(s) <=> \E i \in 1..Len(s) : s[i].body = b
         /\ \A g : g \in GroupsOf(s) <=> g # None /\ \E i \in 1..Len(s) : s[i].group = g
         /\ Len(s) \in Nat /\ \A i \in 1..Len(s) : s[i] \in Message
<1>1. DOMAIN s = 1..Len(s)
  OBVIOUS
<1>2. QED
  BY <1>1 DEF BodiesOf, GroupsOf

\* Chains with the same bodies in order have the same bodies.
LEMMA SameBodies ==
  ASSUME NEW s \in Seq(Message), NEW t \in Seq(Message), Len(t) = Len(s), \A i \in 1..Len(s) : t[i].body = s[i].body
  PROVE  BodiesOf(t) = BodiesOf(s)
<1>1. DOMAIN s = 1..Len(s) /\ DOMAIN t = 1..Len(s)
  OBVIOUS
<1>2. QED
  BY <1>1 DEF BodiesOf

\* A message more behind a part of a chain.
LEMMA CutAppend ==
  ASSUME NEW s \in Seq(Message), NEW n \in Nat, n <= Len(s), NEW m \in Message, NEW t, t = Append(SubSeq(s, 1, n), m)
  PROVE  t \in Seq(Message) /\ Len(t) = n + 1 /\ t[n + 1] = m /\ \A i \in 1..n : t[i] = s[i]
<1>1. PICK c : c = SubSeq(s, 1, n)
  OBVIOUS
<1>2. c \in Seq(Message) /\ Len(c) = n /\ \A i \in 1..n : c[i] = s[i]
  BY <1>1
<1>3. PICK d \in Seq(Message) : d = c
  BY <1>2
<1>4. t = Append(d, m)
  BY <1>1, <1>3
<1>5. t \in Seq(Message) /\ Len(t) = Len(d) + 1 /\ t[Len(d) + 1] = m /\ \A i \in 1..Len(d) : t[i] = d[i]
  <2>1. PICK u : u = Append(d, m)
    OBVIOUS
  <2>2. u \in Seq(Message) /\ Len(u) = Len(d) + 1 /\ u[Len(d) + 1] = m /\ \A i \in 1..Len(d) : u[i] = d[i]
    BY <2>1
  <2>3. QED
    BY <1>4, <2>1, <2>2
<1>6. QED
  BY <1>2, <1>3, <1>5

\* agent_append_message puts a fresh body without id or group behind the others.
LEMMA SayIs ==
  ASSUME NEW s \in Seq(Message), bodies \in Nat, ids \in Nat, bodies < MaxBodies
  PROVE  /\ Say(s) \in Seq(Message) /\ Len(Say(s)) = Len(s) + 1 /\ \A i \in 1..Len(s) : Say(s)[i] = s[i]
         /\ Say(s)[Len(s) + 1].body = bodies + 1 /\ Say(s)[Len(s) + 1].id = None /\ Say(s)[Len(s) + 1].group = None
         /\ BodiesOf(Say(s)) = BodiesOf(s) \cup {bodies + 1} /\ GroupsOf(Say(s)) = GroupsOf(s)
         /\ Proper(s, ids, bodies) => Proper(Say(s), ids, bodies + 1)
<1> DEFINE m == [body |-> bodies + 1, id |-> None, group |-> None]
<1>1. m \in Message
  BY BranchNumbers DEF Message, Ids, Groups, None
<1>2. m.body = bodies + 1 /\ m.id = None /\ m.group = None
  OBVIOUS
<1> HIDE DEF m
<1>3. PICK t : t = Append(s, m)
  OBVIOUS
<1>4. t \in Seq(Message) /\ Len(t) = Len(s) + 1 /\ t[Len(s) + 1] = m /\ (\A i \in 1..Len(s) : t[i] = s[i]) /\ Len(s) \in Nat
  BY <1>1, <1>3
<1>5. Say(s) = t
  BY <1>3 DEF Say, m
<1>6. 1..Len(t) = (1..Len(s)) \cup {Len(s) + 1}
  BY <1>4
<1>7. BodiesOf(t) = BodiesOf(s) \cup {bodies + 1}
  BY <1>2, <1>4, <1>6, OfIs
<1>8. GroupsOf(t) = GroupsOf(s)
  <2>1. ASSUME NEW g PROVE g \in GroupsOf(t) <=> g \in GroupsOf(s)
    <3>1. g \in GroupsOf(t) <=> g # None /\ \E i \in 1..Len(t) : t[i].group = g
      BY <1>4, OfIs
    <3>2. g \in GroupsOf(s) <=> g # None /\ \E i \in 1..Len(s) : s[i].group = g
      BY OfIs
    <3>3. QED
      BY <1>2, <1>4, <1>6, <3>1, <3>2
  <2>2. QED
    BY <2>1
<1>9. ASSUME Proper(s, ids, bodies) PROVE Proper(t, ids, bodies + 1)
  <2>1. Len(s) <= bodies /\ (\A i \in 1..Len(s) : s[i].id <= ids) /\ \A i, j \in 1..Len(s) : s[i].id # None /\ s[i].id = s[j].id => i = j
    BY <1>9 DEF Proper
  <2>2. \A i \in 1..Len(t) : t[i].id # None => i \in 1..Len(s)
    BY <1>2, <1>4, <1>6
  <2>3. ASSUME NEW i \in 1..Len(t) PROVE t[i].id <= ids
    <3>1. CASE i \in 1..Len(s)
      BY <1>4, <2>1, <3>1
    <3>2. CASE i = Len(s) + 1
      BY <1>2, <1>4, <3>2 DEF None
    <3>3. QED
      BY <1>6, <3>1, <3>2
  <2>4. ASSUME NEW i \in 1..Len(t), NEW j \in 1..Len(t), t[i].id # None, t[i].id = t[j].id PROVE i = j
    <3>1. i \in 1..Len(s) /\ j \in 1..Len(s)
      BY <2>2, <2>4
    <3>2. QED
      BY <1>4, <2>1, <2>4, <3>1
  <2>5. Len(t) <= bodies + 1
    BY <1>4, <2>1
  <2>6. QED
    BY <2>3, <2>4, <2>5 DEF Proper
<1>10. QED
  BY <1>2, <1>4, <1>5, <1>7, <1>8, <1>9

\* The pre-fork chain is the live one whose message at the fork has the group, and an
\* id (branch_do_fork).
LEMMA PreForkIs ==
  ASSUME TypeOK, NEW n \in 1..Len(live), chains < MaxForks, ids < 2 * MaxForks
  PROVE  /\ ForkGroup(n) \in Groups /\ ForkGroup(n) # None
         /\ PreFork(n) \in Seq(Message) /\ Len(PreFork(n)) = Len(live)
         /\ \A i \in 1..Len(live) : i # n => PreFork(n)[i] = live[i]
         /\ PreFork(n)[n].body = live[n].body /\ PreFork(n)[n].group = ForkGroup(n)
         /\ PreFork(n)[n].id \in {live[n].id, ids + 1}
         /\ BodiesOf(PreFork(n)) = BodiesOf(live) /\ GroupsOf(live) \subseteq GroupsOf(PreFork(n))
         /\ ForkGroup(n) \in GroupsOf(PreFork(n))
         /\ Proper(live, ids, bodies) => Proper(PreFork(n), ids + 1, bodies)
<1>1. PICK s \in Seq(Message) : s = live
  BY DEF TypeOK
<1>2. ids \in Nat /\ chains \in Nat /\ ids + 1 \in Ids /\ chains + 1 \in Groups /\ bodies \in Nat
  BY BranchNumbers DEF TypeOK, Ids, Groups
<1>3. n \in 1..Len(s) /\ s[n] \in Message
  BY <1>1
<1>4. ForkGroup(n) \in Groups /\ ForkGroup(n) # None
  <2>1. s[n].group \in Groups
    BY <1>3, MessageIs
  <2>2. chains + 1 # None
    BY <1>2 DEF None
  <2>3. QED
    BY <1>1, <1>2, <2>1, <2>2 DEF ForkGroup
<1>5. PICK m : m = [[s[n] EXCEPT !.group = ForkGroup(n)] EXCEPT !.id = IF @ = None THEN ids + 1 ELSE @]
  OBVIOUS
<1>6. /\ m \in Message /\ m.body = s[n].body /\ m.group = ForkGroup(n)
      /\ m.id = IF s[n].id = None THEN ids + 1 ELSE s[n].id
  BY <1>2, <1>3, <1>4, <1>5 DEF Message
<1>7. PICK t : t = [s EXCEPT ![n] = m]
  OBVIOUS
<1>8. t \in Seq(Message) /\ Len(t) = Len(s) /\ t[n] = m /\ (\A i \in 1..Len(s) : i # n => t[i] = s[i]) /\ Len(s) \in Nat
  BY <1>3, <1>6, <1>7
<1>9. PreFork(n) = t
  <2>1. PreFork(n) = [[s EXCEPT ![n].group = ForkGroup(n)] EXCEPT ![n].id = IF @ = None THEN ids + 1 ELSE @]
    BY <1>1 DEF PreFork
  <2>2. [[s EXCEPT ![n].group = ForkGroup(n)] EXCEPT ![n].id = IF @ = None THEN ids + 1 ELSE @] = [s EXCEPT ![n] = m]
    BY <1>3, <1>5
  <2>3. QED
    BY <1>7, <2>1, <2>2
<1>10. BodiesOf(t) = BodiesOf(s)
  <2>1. ASSUME NEW i \in 1..Len(s) PROVE t[i].body = s[i].body
    <3>1. CASE i = n
      BY <1>6, <1>8, <3>1
    <3>2. CASE i # n
      BY <1>8, <3>2
    <3>3. QED
      BY <3>1, <3>2
  <2>2. QED
    BY <1>8, <2>1, SameBodies
<1>11. ForkGroup(n) \in GroupsOf(t)
  BY <1>3, <1>4, <1>6, <1>8, OfIs
<1>12. ASSUME NEW g \in GroupsOf(s) PROVE g \in GroupsOf(t)
  <2>1. PICK i \in 1..Len(s) : s[i].group = g /\ g # None
    BY OfIs
  <2>2. CASE i = n
    BY <1>1, <1>11, <2>1, <2>2 DEF ForkGroup
  <2>3. CASE i # n
    <3>1. t[i].group = g
      BY <1>8, <2>1, <2>3
    <3>2. QED
      BY <1>8, <2>1, <3>1, OfIs
  <2>4. QED
    BY <2>2, <2>3
<1>13. ASSUME Proper(s, ids, bodies) PROVE Proper(t, ids + 1, bodies)
  <2>1. Len(s) <= bodies /\ (\A i \in 1..Len(s) : s[i].id <= ids) /\ \A i, j \in 1..Len(s) : s[i].id # None /\ s[i].id = s[j].id => i = j
    BY <1>13 DEF Proper
  <2>2. \A i \in 1..Len(s) : s[i].id \in Nat
    BY MessageIs
  <2>3. ASSUME NEW i \in 1..Len(s) PROVE t[i].id \in Nat /\ (t[i].id = s[i].id \/ (i = n /\ t[i].id = ids + 1))
    BY <1>2, <1>6, <1>8, <2>2
  <2>4. ASSUME NEW i \in 1..Len(s) PROVE t[i].id <= ids + 1
    BY <1>2, <2>1, <2>2, <2>3
  <2>5. ASSUME NEW i \in 1..Len(s), NEW j \in 1..Len(s), t[i].id # None, t[i].id = t[j].id PROVE i = j
    <3>1. s[i].id <= ids /\ s[j].id <= ids /\ s[i].id \in Nat /\ s[j].id \in Nat
      BY <2>1, <2>2
    <3>2. CASE t[i].id = s[i].id /\ t[j].id = s[j].id
      BY <2>1, <2>5, <3>2
    <3>3. CASE t[i].id = ids + 1 /\ i = n
      <4>1. t[j].id # s[j].id
        BY <1>2, <2>5, <3>1, <3>3
      <4>2. QED
        BY <2>3, <3>3, <4>1
    <3>4. CASE t[j].id = ids + 1 /\ j = n
      <4>1. t[i].id # s[i].id
        BY <1>2, <2>5, <3>1, <3>4
      <4>2. QED
        BY <2>3, <3>4, <4>1
    <3>5. QED
      BY <2>3, <3>2, <3>3, <3>4
  <2>6. QED
    BY <1>8, <2>1, <2>4, <2>5 DEF Proper
<1>14. m.id \in {s[n].id, ids + 1}
  BY <1>6
<1>15. GroupsOf(s) \subseteq GroupsOf(t)
  BY <1>12
<1>16. QED
  BY <1>1, <1>4, <1>6, <1>8, <1>9, <1>10, <1>11, <1>13, <1>14, <1>15

\* The fork message takes the place of the one it replaces, with a fresh id and the
\* group.
LEMMA ForkCopyIs ==
  ASSUME TypeOK, NEW n \in 1..Len(live), chains < MaxForks, ids < 2 * MaxForks, NEW b \in 1..MaxBodies
  PROVE  /\ ForkCopy(n, b) \in Message /\ ForkCopy(n, b).body = b /\ ForkCopy(n, b).id = ids + 1
         /\ ForkCopy(n, b).group = ForkGroup(n)
<1>1. ids + 1 \in Ids
  BY BranchNumbers DEF TypeOK, Ids
<1>2. ForkGroup(n) \in Groups
  BY PreForkIs
<1>3. QED
  BY <1>1, <1>2 DEF ForkCopy, Message

\* A chain cut short with a fork message behind it is proper.
LEMMA ForkedProper ==
  ASSUME NEW s \in Seq(Message), ids \in Nat, NEW b \in Nat, Proper(s, ids, b), NEW n \in Nat, n <= Len(s),
         NEW m \in Message, m.id = ids + 1, NEW t, t = Append(SubSeq(s, 1, n), m), NEW c \in Nat, n + 1 <= c
  PROVE  Proper(t, ids + 1, c)
<1>1. t \in Seq(Message) /\ Len(t) = n + 1 /\ t[n + 1] = m /\ (\A i \in 1..n : t[i] = s[i]) /\ Len(s) \in Nat
  BY CutAppend
<1>2. (\A i \in 1..Len(s) : s[i].id <= ids) /\ \A i, j \in 1..Len(s) : s[i].id # None /\ s[i].id = s[j].id => i = j
  BY DEF Proper
<1>3. \A i \in 1..n : i \in 1..Len(s) /\ s[i].id \in Nat
  BY <1>1, MessageIs
<1>4. ASSUME NEW i \in 1..n PROVE t[i].id = s[i].id /\ t[i].id \in Nat /\ t[i].id <= ids
  BY <1>1, <1>2, <1>3
<1>5. t[n + 1].id = ids + 1
  BY <1>1
<1>6. ASSUME NEW i \in 1..Len(t), NEW j \in 1..Len(t), t[i].id # None, t[i].id = t[j].id PROVE i = j
  <2>1. (i \in 1..n \/ i = n + 1) /\ (j \in 1..n \/ j = n + 1)
    BY <1>1
  <2>2. CASE i \in 1..n /\ j \in 1..n
    BY <1>2, <1>3, <1>4, <1>6, <2>2
  <2>3. CASE i \in 1..n /\ j = n + 1
    BY <1>4, <1>5, <1>6, <2>3
  <2>4. CASE i = n + 1 /\ j \in 1..n
    BY <1>4, <1>5, <1>6, <2>4
  <2>5. QED
    BY <2>1, <2>2, <2>3, <2>4
<1>7. ASSUME NEW i \in 1..Len(t) PROVE t[i].id <= ids + 1
  <2>1. i \in 1..n \/ i = n + 1
    BY <1>1
  <2>2. QED
    BY <1>4, <1>5, <2>1
<1>8. QED
  BY <1>1, <1>6, <1>7 DEF Proper

\* The answer of a regenerate is tagged where it takes the fork message's place.
IsTagged(s, a, g, t) ==
    /\ t \in Seq(Message) /\ Len(t) = Len(s) /\ \A i \in 1..Len(s) : t[i].body = s[i].body
    /\ \A i \in 1..Len(s) : s[i].id \in {None, t[i].id}
    /\ BodiesOf(t) = BodiesOf(s) /\ GroupsOf(s) \subseteq GroupsOf(t)
    /\ a \in 1..Len(s) => g \in GroupsOf(t)
    /\ \A n \in Nat : Proper(s, ids, n) => Proper(t, ids + 1, n) /\ (a \notin 1..Len(s) => Proper(t, ids, n))
Untagged(s, a) == a \in 1..Len(s) => s[a].id = None /\ s[a].group = None
LEMMA TaggedIs ==
  ASSUME NEW s \in Seq(Message), ids \in Nat, ids < 2 * MaxForks, NEW a \in Nat, NEW g \in Groups, g # None,
         Untagged(s, a), NEW t, t = Tagged(s, a, g)
  PROVE  IsTagged(s, a, g, t)
<1>0. DOMAIN s = 1..Len(s) /\ Len(s) \in Nat /\ ids + 1 \in Ids
  BY BranchNumbers DEF Ids
<1>1. CASE a \notin 1..Len(s)
  <2>1. t = s
    BY <1>0, <1>1 DEF Tagged
  <2>2. ASSUME NEW n \in Nat, Proper(s, ids, n) PROVE Proper(s, ids + 1, n)
    <3>1. \A i \in 1..Len(s) : s[i].id \in Nat
      BY MessageIs
    <3>2. QED
      BY <2>2, <3>1 DEF Proper
  <2>3. QED
    BY <1>1, <2>1, <2>2 DEF IsTagged
<1>2. CASE a \in 1..Len(s)
  <2>1. PICK m : m = [s[a] EXCEPT !.group = g, !.id = ids + 1]
    OBVIOUS
  <2>0. s[a] \in Message
    BY <1>2
  <2>2. m \in Message /\ m.body = s[a].body /\ m.group = g /\ m.id = ids + 1
    BY <1>0, <2>0, <2>1 DEF Message
  <2>3. t = [s EXCEPT ![a] = m]
    <3>1. t = [s EXCEPT ![a].group = IF @ = None THEN g ELSE @, ![a].id = ids + 1]
      BY <1>0, <1>2 DEF Tagged
    <3>2. [s EXCEPT ![a].group = IF @ = None THEN g ELSE @, ![a].id = ids + 1] = [s EXCEPT ![a] = m]
      BY <1>2, <2>1 DEF Untagged
    <3>3. QED
      BY <3>1, <3>2
  <2>4. t \in Seq(Message) /\ Len(t) = Len(s) /\ t[a] = m /\ \A i \in 1..Len(s) : i # a => t[i] = s[i]
    <3>1. PICK u : u = [s EXCEPT ![a] = m]
      OBVIOUS
    <3>2. u \in Seq(Message) /\ Len(u) = Len(s) /\ u[a] = m /\ \A i \in 1..Len(s) : i # a => u[i] = s[i]
      BY <1>2, <2>2, <3>1
    <3>3. QED
      BY <2>3, <3>1, <3>2
  <2>5. ASSUME NEW i \in 1..Len(s) PROVE t[i].body = s[i].body
    <3>1. CASE i = a
      BY <2>2, <2>4, <3>1
    <3>2. CASE i # a
      BY <2>4, <3>2
    <3>3. QED
      BY <3>1, <3>2
  <2>6. \A i \in 1..Len(s) : s[i].id \in {None, t[i].id}
    BY <1>2, <2>4 DEF Untagged
  <2>7. BodiesOf(t) = BodiesOf(s)
    BY <2>4, <2>5, SameBodies
  <2>8. g \in GroupsOf(t)
    BY <1>2, <2>2, <2>4, OfIs
  <2>9. ASSUME NEW h \in GroupsOf(s) PROVE h \in GroupsOf(t)
    <3>1. PICK i \in 1..Len(s) : s[i].group = h /\ h # None
      BY OfIs
    <3>2. t[i].group = h
      BY <1>2, <2>4, <3>1 DEF Untagged
    <3>3. QED
      BY <2>4, <3>1, <3>2, OfIs
  <2>10. ASSUME NEW n \in Nat, Proper(s, ids, n) PROVE Proper(t, ids + 1, n)
    <3>1. Len(s) <= n /\ (\A i \in 1..Len(s) : s[i].id <= ids) /\ \A i, j \in 1..Len(s) : s[i].id # None /\ s[i].id = s[j].id => i = j
      BY <2>10 DEF Proper
    <3>2. \A i \in 1..Len(s) : s[i].id \in Nat
      BY MessageIs
    <3>3. ASSUME NEW i \in 1..Len(s) PROVE t[i].id = IF i = a THEN ids + 1 ELSE s[i].id
      BY <2>2, <2>4
    <3>4. ASSUME NEW i \in 1..Len(s) PROVE t[i].id <= ids + 1
      BY <3>1, <3>2, <3>3
    <3>5. ASSUME NEW i \in 1..Len(s), NEW j \in 1..Len(s), t[i].id # None, t[i].id = t[j].id PROVE i = j
      <4>1. s[i].id <= ids /\ s[j].id <= ids /\ s[i].id \in Nat /\ s[j].id \in Nat
        BY <3>1, <3>2
      <4>2. CASE i = a \/ j = a
        BY <3>3, <3>5, <4>1, <4>2
      <4>3. CASE i # a /\ j # a
        BY <3>1, <3>3, <3>5, <4>3
      <4>4. QED
        BY <4>2, <4>3
    <3>6. QED
      BY <2>4, <3>1, <3>4, <3>5 DEF Proper
  <2>11. GroupsOf(s) \subseteq GroupsOf(t)
    BY <2>9
  <2>12. QED
    BY <1>2, <2>4, <2>5, <2>6, <2>7, <2>8, <2>10, <2>11 DEF IsTagged
<1>3. QED
  BY <1>1, <1>2

\* A run more: it owes its group, if it has one.
Pushed(s, r, u) ==
    /\ u \in Seq(Run) /\ u[Len(s) + 1] = r
    /\ Owing(u) = IF r.group = None THEN Owing(s) ELSE Owing(s) \cup {Len(s) + 1}
    /\ \A i \in Owing(s) : u[i] = s[i]
    /\ OwedBy(s) \subseteq OwedBy(u)
    /\ Cardinality(Owing(s)) \in Nat
    /\ Cardinality(Owing(u)) = IF r.group = None THEN Cardinality(Owing(s)) ELSE Cardinality(Owing(s)) + 1
LEMMA PushIs ==
  ASSUME NEW s \in Seq(Run), NEW r \in Run, NEW u, u = Append(s, r)
  PROVE  Pushed(s, r, u)
<1>1. u \in Seq(Run) /\ Len(u) = Len(s) + 1 /\ u[Len(s) + 1] = r /\ (\A i \in 1..Len(s) : u[i] = s[i]) /\ Len(s) \in Nat
  OBVIOUS
<1>2. 1..Len(u) = (1..Len(s)) \cup {Len(s) + 1} /\ Len(s) + 1 \notin 1..Len(s)
  BY <1>1
<1>3. \A i \in Owing(s) : u[i] = s[i]
  BY <1>1 DEF Owing
<1>4. Owing(u) = IF r.group = None THEN Owing(s) ELSE Owing(s) \cup {Len(s) + 1}
  BY <1>1, <1>2 DEF Owing
<1>5. OwedBy(s) \subseteq OwedBy(u)
  <2>1. ASSUME NEW i \in Owing(s) PROVE s[i].group \in OwedBy(u)
    BY <1>3, <1>4 DEF OwedBy
  <2>2. QED
    BY <2>1 DEF OwedBy
<1>6. IsFiniteSet(Owing(s)) /\ Cardinality(Owing(s)) \in Nat /\ Len(s) + 1 \notin Owing(s)
  <2>1. IsFiniteSet(1..Len(s)) /\ Owing(s) \in SUBSET (1..Len(s))
    BY <1>1, FS_Interval DEF Owing
  <2>2. QED
    BY <1>2, <2>1, FS_Subset, FS_CardinalityType
<1>7. QED
  BY <1>1, <1>3, <1>4, <1>5, <1>6, FS_AddElement DEF Pushed

\* A run less.
Popped(s, r, u) ==
    /\ u \in Seq(Run) /\ r \in Run
    /\ Owing(u) = Owing(s) \ {Len(s)}
    /\ \A i \in Owing(u) : u[i] = s[i] /\ i \in Owing(s)
    /\ r.group # None => Len(s) \in Owing(s)
    /\ OwedBy(s) \subseteq OwedBy(u) \cup {r.group}
    /\ Cardinality(Owing(s)) \in Nat
    /\ Cardinality(Owing(u)) = IF r.group = None THEN Cardinality(Owing(s)) ELSE Cardinality(Owing(s)) - 1
LEMMA PopIs ==
  ASSUME NEW s \in Seq(Run), s # <<>>, NEW r, r = s[Len(s)], NEW u, u = SubSeq(s, 1, Len(s) - 1)
  PROVE  Popped(s, r, u)
<1>1. Len(s) \in Nat /\ Len(s) # 0
  OBVIOUS
<1>2. u \in Seq(Run) /\ Len(u) = Len(s) - 1 /\ (\A i \in 1..Len(s) - 1 : u[i] = s[i])
  <2>1. PICK n \in Nat : n = Len(s) - 1
    BY <1>1
  <2>2. PICK v : v = SubSeq(s, 1, n)
    OBVIOUS
  <2>3. v \in Seq(Run) /\ Len(v) = n /\ \A i \in 1..n : v[i] = s[i]
    BY <2>1, <2>2
  <2>4. QED
    BY <2>1, <2>2, <2>3
<1>3. Len(s) \in 1..Len(s) /\ 1..Len(u) = (1..Len(s)) \ {Len(s)}
  BY <1>1, <1>2
<1>4. s[Len(s)] \in Run
  BY <1>3
<1>5. Owing(u) = Owing(s) \ {Len(s)}
  BY <1>1, <1>2, <1>3 DEF Owing
<1>6. \A i \in Owing(u) : u[i] = s[i] /\ i \in Owing(s)
  BY <1>2, <1>3, <1>5 DEF Owing
<1>7. OwedBy(s) \subseteq OwedBy(u) \cup {s[Len(s)].group}
  <2>1. ASSUME NEW i \in Owing(s) PROVE s[i].group \in OwedBy(u) \cup {s[Len(s)].group}
    <3>1. CASE i = Len(s)
      BY <3>1
    <3>2. CASE i # Len(s)
      BY <1>5, <1>6, <3>2 DEF OwedBy
    <3>3. QED
      BY <3>1, <3>2
  <2>2. QED
    BY <2>1 DEF OwedBy
<1>8. IsFiniteSet(Owing(s)) /\ Cardinality(Owing(s)) \in Nat
  <2>1. IsFiniteSet(1..Len(s)) /\ Owing(s) \in SUBSET (1..Len(s))
    BY <1>1, FS_Interval DEF Owing
  <2>2. QED
    BY <2>1, FS_Subset, FS_CardinalityType
<1>9. s[Len(s)].group # None <=> Len(s) \in Owing(s)
  BY <1>3 DEF Owing
<1>10. Cardinality(Owing(u)) = IF Len(s) \in Owing(s) THEN Cardinality(Owing(s)) - 1 ELSE Cardinality(Owing(s))
  BY <1>5, <1>8, FS_RemoveElement
<1>11. QED
  BY <1>2, <1>4, <1>5, <1>6, <1>7, <1>8, <1>9, <1>10 DEF Popped

\* The chains of the store are sequences of messages; a tab's copy is one.
LEMMA ChainIs ==
  ASSUME TypeOK
  PROVE  /\ \A k \in 0..Len(list) : Chain(k) \in Seq(Message) /\ Number(k) \in Nat /\ Birth(k) \in Nat
         /\ \A k \in 1..Len(list) : list[k] \in Record /\ list[k].messages \in Seq(Message) /\ Chain(k) = list[k].messages
                                    /\ Number(k) = list[k].chain /\ Birth(k) = list[k].birth
         /\ \A t \in Tabs : mem[t] \in Seq(Message)
         /\ Chain(0) = live /\ Number(0) = chain /\ Birth(0) = birth
         /\ live \in Seq(Message) /\ list \in Seq(Record) /\ Len(list) \in Nat
         /\ chain \in Nat /\ chains \in Nat /\ birth \in Nat /\ clock \in Nat /\ ids \in Nat /\ bodies \in Nat
         /\ stale \in BOOLEAN /\ untagged \in BOOLEAN /\ runs \in Seq(Run)
<1>1. /\ live \in Seq(Message) /\ list \in Seq(Record) /\ Len(list) \in Nat
      /\ chain \in Nat /\ chains \in Nat /\ birth \in Nat /\ clock \in Nat /\ ids \in Nat /\ bodies \in Nat
      /\ stale \in BOOLEAN /\ untagged \in BOOLEAN /\ runs \in Seq(Run)
  BY BranchNumbers DEF TypeOK, Groups, Births, Ids
<1>2. ASSUME NEW k \in 1..Len(list)
      PROVE  /\ list[k] \in Record /\ list[k].messages \in Seq(Message) /\ list[k].chain \in Nat /\ list[k].birth \in Nat
             /\ Chain(k) = list[k].messages /\ Number(k) = list[k].chain /\ Birth(k) = list[k].birth
  <2>1. list[k] \in Record /\ k # 0
    BY <1>1
  <2>2. QED
    BY <2>1, BranchNumbers DEF Record, Groups, Births, Chain, Number, Birth
<1>3. Chain(0) = live /\ Number(0) = chain /\ Birth(0) = birth
  BY DEF Chain, Number, Birth
<1>4. ASSUME NEW k \in 0..Len(list) PROVE Chain(k) \in Seq(Message) /\ Number(k) \in Nat /\ Birth(k) \in Nat
  <2>1. k = 0 \/ k \in 1..Len(list)
    BY <1>1
  <2>2. QED
    BY <1>1, <1>2, <1>3, <2>1
<1>5. \A t \in Tabs : mem[t] \in Seq(Message)
  BY DEF TypeOK
<1>6. QED
  BY <1>1, <1>2, <1>3, <1>4, <1>5

\* While the records stay and the live chain with what runs owe it keeps its groups,
\* all chains stay linked.
LEMMA LinksKept ==
  ASSUME TypeOK, LinkedBy(Pills, Len(list)), list' = list,
         GroupsOf(live) \cup OwedBy(runs) \subseteq GroupsOf(live)' \cup OwedBy(runs)'
  PROVE  LinkedBy(Pills, Len(list))'
<1>1. PICK n \in Nat : n = Len(list)
  BY ChainIs
<1>2. PICK P : P = Pills
  OBVIOUS
<1>3. PICK Q : Q = Pills'
  OBVIOUS
<1> DEFINE p == [k \in 0..n |-> k]
<1>4. Permutes(p, n)
  BY DEF Permutes
<1>5. ASSUME NEW i \in 0..n PROVE P[p[i]] \subseteq Q[i]
  <2>1. p[i] = i
    OBVIOUS
  <2>2. CASE i = 0
    <3>1. P[0] = GroupsOf(live) \cup OwedBy(runs) /\ Q[0] = GroupsOf(live)' \cup OwedBy(runs)'
      BY <1>1, <1>2, <1>3 DEF Pills
    <3>2. QED
      BY <2>1, <2>2, <3>1
  <2>3. CASE i # 0
    <3>1. P[i] = GroupsOf(list[i].messages) /\ Q[i] = GroupsOf(list[i].messages)'
      BY <1>1, <1>2, <1>3, <2>3 DEF Pills
    <3>2. GroupsOf(list[i].messages)' = GroupsOf(list[i].messages)
      BY DEF GroupsOf
    <3>3. QED
      BY <2>1, <3>1, <3>2
  <2>4. QED
    BY <2>2, <2>3
<1> HIDE DEF p
<1>6. LinkedBy(P, n)
  BY <1>1, <1>2
<1>7. LinkedBy(Q, n)
  BY <1>4, <1>5, <1>6, LinkedMoved
<1>8. Len(list)' = n
  BY <1>1
<1>9. QED
  BY <1>3, <1>7, <1>8 DEF LinkedBy, ClosedIn

-----------------------------------------------------------------------------
(* What saves, forks and switches keep                                     *)
\* agent_save_session by a tab: as long as nobody saves what another has outdated,
\* the stored chain has all it had, and the tab that saved is up to date.
LEMMA SavedKeeps ==
  ASSUME BranchInv, NEW t \in Tabs, NEW owed, NEW copy \in Seq(Message), Save(t, copy, owed), clock' = clock,
         bodies' \in {bodies, bodies + 1}, ids' \in {ids, ids + 1},
         mem' \in [Tabs -> Seq(Message)], \A u \in Tabs \ {t} : mem'[u] = mem[u],
         Proper(copy, ids', bodies'), Proper(mem[t], ids, bodies)', Len(copy) = Len(mem[t])',
         \A i \in 1..Len(copy) : mem'[t][i].body = copy[i].body /\ mem'[t][i].id \in {None, copy[i].id},
         BodiesOf(copy) = BodiesOf(mem[t]) \cup (bodies + 1..bodies')
  PROVE  Born' /\ Chained' /\ Copied' /\ UpToDate' /\ NoneLost'
<1>1. /\ live' = copy /\ birth' = birth /\ list' = list /\ chain' = chain /\ chains' = chains
      /\ behind' = behind \cup (Tabs \ {t}) /\ stale' = (stale \/ t \in behind)
  BY DEF Save, Outdate
<1>2. ids \in Nat /\ ids' \in Nat /\ ids <= ids' /\ bodies \in Nat /\ bodies' \in Nat /\ bodies <= bodies'
  BY ChainIs DEF BranchInv
<1>3. TypeOK /\ Len(list) \in Nat
  BY ChainIs DEF BranchInv
<1>4. ASSUME NEW s \in Seq(Message), Proper(s, ids, bodies) PROVE Proper(s, ids', bodies')
  <2>1. (\A i \in 1..Len(s) : s[i].id \in Nat) /\ Len(s) \in Nat
    BY MessageIs
  <2>2. QED
    BY <1>2, <1>4, <2>1 DEF Proper
<1>5. Born'
  BY <1>1 DEF BranchInv, Born, Number, Birth
<1>6. Chained'
  <2>1. ASSUME NEW k \in 0..Len(list) PROVE Proper(Chain(k), ids, bodies)'
    <3>1. CASE k = 0
      <4>1. Chain(k)' = copy
        BY <1>1, <3>1 DEF Chain
      <4>2. QED
        BY <4>1 DEF Proper
    <3>2. CASE k # 0
      <4>1. Chain(k) \in Seq(Message) /\ Proper(Chain(k), ids, bodies)
        BY <1>3, ChainIs DEF BranchInv, Chained
      <4>2. PICK s \in Seq(Message) : s = Chain(k)
        BY <4>1
      <4>3. Proper(s, ids', bodies')
        BY <1>4, <4>1, <4>2
      <4>4. Chain(k)' = s
        BY <1>1, <3>2, <4>2 DEF Chain
      <4>5. QED
        BY <4>3, <4>4 DEF Proper
    <3>3. QED
      BY <3>1, <3>2
  <2>2. QED
    BY <1>1, <2>1 DEF Chained
<1>7. Copied'
  <2>1. ASSUME NEW u \in Tabs PROVE Proper(mem[u], ids, bodies)'
    <3>1. CASE u = t
      BY <3>1 DEF Proper
    <3>2. CASE u # t
      <4>1. mem[u] \in Seq(Message) /\ Proper(mem[u], ids, bodies)
        BY <1>3, ChainIs DEF BranchInv, Copied
      <4>2. PICK s \in Seq(Message) : s = mem[u]
        BY <4>1
      <4>3. Proper(s, ids', bodies') /\ mem'[u] = s
        BY <1>4, <3>2, <4>1, <4>2
      <4>4. QED
        BY <4>3 DEF Proper
    <3>3. QED
      BY <3>1, <3>2
  <2>2. QED
    BY <2>1 DEF Copied
<1>8. UpToDate'
  <2>1. ASSUME NEW u \in Tabs, u \notin behind' PROVE Follows(u)'
    <3>1. u = t
      BY <1>1, <2>1
    <3>2. Len(live)' = Len(mem[u])' /\ \A i \in 1..Len(mem[u])' : mem'[u][i].body = live'[i].body /\ mem'[u][i].id \in {None, live'[i].id}
      BY <1>1, <3>1
    <3>3. QED
      BY <3>2 DEF Follows
  <2>2. QED
    BY <2>1 DEF UpToDate
<1>9. NoneLost'
  <2>1. SUFFICES ASSUME ~stale' PROVE Written'
    BY DEF NoneLost
  <2>2. ~stale /\ t \notin behind
    BY <1>1, <1>3, <2>1, ChainIs
  <2>3. Written /\ Follows(t)
    BY <2>2 DEF BranchInv, NoneLost, UpToDate
  <2>4. Len(live) \in Nat /\ Len(mem[t]) \in Nat /\ live \in Seq(Message) /\ mem[t] \in Seq(Message)
    BY <1>3, ChainIs
  <2>5. BodiesOf(mem[t]) \subseteq BodiesOf(live)
    <3>1. ASSUME NEW b \in BodiesOf(mem[t]) PROVE b \in BodiesOf(live)
      <4>1. PICK i \in 1..Len(mem[t]) : mem[t][i].body = b
        BY <2>4, OfIs
      <4>2. i \in 1..Len(live) /\ live[i].body = b
        BY <2>3, <2>4, <4>1 DEF Follows
      <4>3. QED
        BY <2>4, <4>2, OfIs
    <3>2. QED
      BY <3>1
  <2>6. ASSUME NEW b \in BodiesOf(live) PROVE b \in BodiesOf(mem[t]) \/ \E k \in 1..Len(list) : b \in BodiesOf(list[k].messages)
    <3>1. PICK i \in 1..Len(live) : live[i].body = b
      BY <2>4, OfIs
    <3>2. CASE i \in 1..Len(mem[t])
      <4>1. mem[t][i].body = b
        BY <2>3, <3>1, <3>2 DEF Follows
      <4>2. QED
        BY <2>4, <3>2, <4>1, OfIs
    <3>3. CASE i \notin 1..Len(mem[t])
      <4>1. Len(live) # Len(mem[t])
        BY <3>3
      <4>2. i = Len(live) /\ \E k \in 1..Len(list) : live[Len(live)].body \in BodiesOf(list[k].messages)
        BY <2>3, <2>4, <3>3, <4>1 DEF Follows
      <4>3. QED
        BY <3>1, <4>2
    <3>4. QED
      BY <3>2, <3>3
  <2>7. ASSUME NEW k \in 1..Len(list) PROVE Chain(k) = list[k].messages /\ Chain(k)' = list[k].messages /\ BodiesOf(Chain(k))' = BodiesOf(Chain(k))
    <3>1. k # 0
      BY <1>3
    <3>2. Chain(k) = list[k].messages /\ Chain(k)' = list[k].messages
      BY <1>1, <3>1 DEF Chain
    <3>3. QED
      BY <3>2 DEF BodiesOf
  <2>8. Chain(0) = live /\ BodiesOf(Chain(0))' = BodiesOf(copy)
    <3>1. Chain(0)' = copy
      BY <1>1 DEF Chain
    <3>2. QED
      BY <3>1 DEF Chain, BodiesOf
  <2>9. 1..bodies' = 1..bodies \cup (bodies + 1..bodies')
    BY <1>2
  <2>10. 0..Len(list) = {0} \cup (1..Len(list))
    BY <1>3
  <2>11. ASSUME NEW b \in 1..bodies' PROVE \E k \in 0..Len(list) : b \in BodiesOf(Chain(k))'
    <3>1. CASE b \in bodies + 1..bodies'
      BY <2>8, <2>10, <3>1
    <3>2. CASE b \in 1..bodies
      <4>1. PICK k \in 0..Len(list) : b \in BodiesOf(Chain(k))
        BY <2>3, <3>2 DEF Written
      <4>2. CASE k = 0
        <5>1. b \in BodiesOf(mem[t]) \/ \E j \in 1..Len(list) : b \in BodiesOf(list[j].messages)
          BY <2>6, <2>8, <4>1, <4>2
        <5>2. QED
          BY <2>7, <2>8, <2>10, <5>1
      <4>3. CASE k \in 1..Len(list)
        BY <2>7, <2>10, <4>1, <4>3
      <4>4. QED
        BY <2>10, <4>2, <4>3
    <3>3. QED
      BY <2>9, <3>1, <3>2
  <2>12. ASSUME NEW k \in 0..Len(list), NEW b \in BodiesOf(Chain(k))' PROVE b \in 1..bodies'
    <3>1. CASE k = 0
      <4>1. b \in BodiesOf(live) \/ b \in bodies + 1..bodies'
        BY <2>5, <2>8, <2>12, <3>1
      <4>2. b \in BodiesOf(live) => b \in 1..bodies
        BY <2>3, <2>8, <2>10 DEF Written
      <4>3. QED
        BY <2>9, <4>1, <4>2
    <3>2. CASE k \in 1..Len(list)
      <4>1. b \in BodiesOf(Chain(k))
        BY <2>7, <2>12, <3>2
      <4>2. b \in 1..bodies
        BY <2>3, <2>10, <3>2, <4>1 DEF Written
      <4>3. QED
        BY <2>9, <4>2
    <3>3. QED
      BY <2>10, <3>1, <3>2
  <2>13. Len(list)' = Len(list)
    BY <1>1
  <2>14. QED
    BY <2>11, <2>12, <2>13 DEF Written
<1>10. QED
  BY <1>5, <1>6, <1>7, <1>8, <1>9

\* What a fork does to the chains (branch_do_fork): the live one is recorded with its
\* group, behind the records there are, and one that ends with the fork message is
\* live.
LEMMA ForkIs ==
  ASSUME BranchInv, NEW t \in Tabs, NEW n \in 1..Len(live), NEW b \in 1..MaxBodies, Fork(t, n, b)
  PROVE  /\ chains < MaxForks /\ ids < 2 * MaxForks /\ ids' = ids + 1 /\ ids' \in Ids
         /\ chain' = chains + 1 /\ chains' = chains + 1 /\ chains' \in Groups
         /\ birth' > birth /\ birth' >= clock /\ clock' = birth' /\ birth' \in Births
         /\ (list = <<>> \/ birth' >= clock)
         /\ list' \in Seq(Record) /\ Len(list') = Len(list) + 1
         /\ \A k \in 1..Len(list) : list'[k] = list[k]
         /\ list'[Len(list) + 1] = [chain |-> chain, birth |-> birth, messages |-> PreFork(n)]
         /\ live' = Append(SubSeq(live, 1, n - 1), ForkCopy(n, b)) /\ live' \in Seq(Message) /\ Len(live') = n
         /\ live'[n] = ForkCopy(n, b) /\ \A i \in 1..n - 1 : live'[i] = live[i]
         /\ behind' = behind \cup (Tabs \ {t})
         /\ (untagged' <=> untagged \/ \E r \in Elements(runs) : r.group \notin GroupsOf(live) \union {None})
<1>1. /\ live \in Seq(Message) /\ list \in Seq(Record) /\ Len(list) \in Nat /\ Len(live) \in Nat
      /\ chain \in Nat /\ chains \in Nat /\ birth \in Nat /\ clock \in Nat /\ ids \in Nat /\ birth <= clock
  BY ChainIs DEF BranchInv, Born
<1>2. chains < MaxForks /\ chain' = chains + 1 /\ chains' = chains + 1 /\ ids' = ids + 1
  BY DEF Fork
<1>3. ids < 2 * MaxForks
  <2>1. Cardinality(Owing(runs)) \in Nat
    <3>1. IsFiniteSet(1..Len(runs)) /\ Owing(runs) \in SUBSET (1..Len(runs))
      BY ChainIs, FS_Interval DEF Owing, BranchInv
    <3>2. QED
      BY <3>1, FS_Subset, FS_CardinalityType
  <2>2. ids + Cardinality(Owing(runs)) <= 2 * chains
    BY DEF BranchInv, IdsLeft
  <2>3. QED
    BY <1>1, <1>2, <2>1, <2>2, BranchNumbers
<1>4. ids' \in Ids /\ chains' \in Groups
  BY <1>1, <1>2, <1>3, BranchNumbers DEF Ids, Groups
<1>5. birth' > birth /\ birth' >= clock /\ clock' = birth' /\ birth' \in Births
  <2>1. PICK now \in {clock, clock + 1} : NextBirth(now) <= MaxClock /\ birth' = NextBirth(now) /\ clock' = NextBirth(now)
    BY DEF Fork
  <2>2. QED
    BY <1>1, <2>1, BranchNumbers DEF NextBirth, Births
<1>6. PICK r : r = [chain |-> chain, birth |-> birth, messages |-> PreFork(n)]
  OBVIOUS
<1>7. r \in Record
  BY <1>2, <1>3, <1>6, PreForkIs DEF BranchInv, TypeOK, Record
<1>8. PICK l : l = Append(list, r)
  OBVIOUS
<1>9. l \in Seq(Record) /\ Len(l) = Len(list) + 1 /\ l[Len(list) + 1] = r /\ \A k \in 1..Len(list) : l[k] = list[k]
  BY <1>1, <1>7, <1>8
<1>10. list' = l
  BY <1>6, <1>8 DEF Fork
<1>11. live' = Append(SubSeq(live, 1, n - 1), ForkCopy(n, b))
  BY DEF Fork
<1>12. live' \in Seq(Message) /\ Len(live') = n /\ live'[n] = ForkCopy(n, b) /\ \A i \in 1..n - 1 : live'[i] = live[i]
  <2>1. n - 1 \in Nat /\ n - 1 <= Len(live) /\ (n - 1) + 1 = n
    BY <1>1
  <2>2. PICK m \in Message : m = ForkCopy(n, b)
    BY <1>2, <1>3, ForkCopyIs DEF BranchInv
  <2>3. PICK u : u = Append(SubSeq(live, 1, n - 1), m)
    OBVIOUS
  <2>4. u \in Seq(Message) /\ Len(u) = (n - 1) + 1 /\ u[(n - 1) + 1] = m /\ \A i \in 1..n - 1 : u[i] = live[i]
    BY <1>1, <2>1, <2>3, CutAppend
  <2>5. QED
    BY <1>11, <2>1, <2>2, <2>3, <2>4
<1>13. behind' = behind \cup (Tabs \ {t}) /\ (untagged' <=> untagged \/ \E x \in Elements(runs) : x.group \notin GroupsOf(live) \union {None})
  BY DEF Fork, Outdate, LeaveUntagged
<1>14. QED
  BY <1>2, <1>3, <1>4, <1>5, <1>6, <1>9, <1>10, <1>11, <1>12, <1>13

\* A fork loses no message and keeps the births in order, and the pill of its group
\* links the chain that leaves with the one that comes.
LEMMA ForkKeeps ==
  ASSUME BranchInv, NEW t \in Tabs, NEW n \in 1..Len(live), NEW b \in 1..MaxBodies, Fork(t, n, b), stale' = stale,
         (b = bodies + 1 /\ bodies' = bodies + 1) \/ (b = live[n].body /\ bodies' = bodies),
         mem' \in [Tabs -> Seq(Message)], \A u \in Tabs \ {t} : mem'[u] = mem[u], Proper(mem[t], ids, bodies)'
  PROVE  Born' /\ Chained' /\ Copied' /\ NoneLost' /\ Linked'
<1>1. PICK N \in Nat : N = Len(list)
  BY ChainIs DEF BranchInv
<1>2. /\ TypeOK /\ live \in Seq(Message) /\ Len(live) \in Nat /\ list \in Seq(Record)
      /\ chain \in Nat /\ chains \in Nat /\ birth \in Nat /\ clock \in Nat /\ ids \in Nat /\ bodies \in Nat
  BY ChainIs DEF BranchInv
<1>3. /\ chains < MaxForks /\ ids < 2 * MaxForks /\ ids' = ids + 1
      /\ chain' = chains + 1 /\ chains' = chains + 1
      /\ birth' > birth /\ birth' >= clock /\ clock' = birth' /\ birth' \in Nat
      /\ Len(list') = N + 1
      /\ \A k \in 1..N : list'[k] = list[k]
      /\ list'[N + 1] = [chain |-> chain, birth |-> birth, messages |-> PreFork(n)]
      /\ live' = Append(SubSeq(live, 1, n - 1), ForkCopy(n, b)) /\ live' \in Seq(Message) /\ Len(live') = n
      /\ live'[n] = ForkCopy(n, b) /\ \A i \in 1..n - 1 : live'[i] = live[i]
      /\ (untagged' <=> untagged \/ \E r \in Elements(runs) : r.group \notin GroupsOf(live) \union {None})
  BY <1>1, ForkIs, BranchNumbers DEF Births
<1>4. bodies' \in Nat /\ bodies <= bodies'
  BY <1>2
<1>5. /\ ForkGroup(n) \in Groups /\ ForkGroup(n) # None
      /\ PreFork(n) \in Seq(Message) /\ BodiesOf(PreFork(n)) = BodiesOf(live) /\ GroupsOf(live) \subseteq GroupsOf(PreFork(n))
      /\ ForkGroup(n) \in GroupsOf(PreFork(n))
      /\ (Proper(live, ids, bodies) => Proper(PreFork(n), ids + 1, bodies))
  BY <1>2, <1>3, PreForkIs
<1>6. /\ ForkCopy(n, b) \in Message /\ ForkCopy(n, b).body = b /\ ForkCopy(n, b).id = ids + 1 /\ ForkCopy(n, b).group = ForkGroup(n)
  BY <1>2, <1>3, ForkCopyIs
<1> DEFINE from(k) == IF k = N + 1 THEN 0 ELSE k
<1>7. ASSUME NEW k \in 1..N + 1
      PROVE  /\ from(k) \in 0..N /\ Number(k)' = Number(from(k)) /\ Birth(k)' = Birth(from(k))
             /\ Chain(k)' = IF k = N + 1 THEN PreFork(n) ELSE Chain(k)
             /\ list'[k].birth = Birth(from(k))
  <2>1. CASE k = N + 1
    BY <1>1, <1>3, <2>1 DEF Chain, Number, Birth
  <2>2. CASE k \in 1..N
    BY <1>1, <1>3, <2>2 DEF Chain, Number, Birth
  <2>3. QED
    BY <1>1, <2>1, <2>2
<1>8. Number(0)' = chains + 1 /\ Birth(0)' = birth' /\ Chain(0)' = live'
  BY <1>3 DEF Chain, Number, Birth
<1> HIDE DEF from
<1>9. Born'
  <2>1. ASSUME NEW k \in 0..N PROVE Number(k) \in Nat /\ Birth(k) \in Nat /\ Number(k) <= chains /\ Birth(k) < birth'
    <3>1. Number(k) \in Nat /\ Birth(k) \in Nat /\ Number(k) <= chains
      <4>1. k \in 0..Len(list)
        BY <1>1
      <4>2. Number(k) \in Nat /\ Birth(k) \in Nat
        BY <1>2, <4>1, ChainIs
      <4>3. Number(k) <= chains
        BY <4>1 DEF BranchInv, Born
      <4>4. QED
        BY <4>2, <4>3
    <3>2. CASE k = 0
      BY <1>3, <3>1, <3>2 DEF Birth
    <3>3. CASE k \in 1..N
      <4>1. Birth(k) < clock
        <5>1. k \in 1..Len(list)
          BY <1>1, <3>3
        <5>2. list[k].birth < clock
          BY <5>1 DEF BranchInv, Born
        <5>3. Birth(k) = list[k].birth
          BY <1>2, <5>1, ChainIs
        <5>4. QED
          BY <5>2, <5>3
      <4>2. clock \in Nat /\ birth' \in Nat /\ birth' >= clock
        BY <1>2, <1>3
      <4>3. Birth(k) \in Nat
        BY <3>1
      <4>4. Birth(k) < birth'
        BY <4>1, <4>2, <4>3
      <4>5. QED
        BY <3>1, <4>4
    <3>4. QED
      BY <1>1, <3>1, <3>2, <3>3
  <2>2. \A j, k \in 0..N : (Birth(j) < Birth(k) <=> Number(j) < Number(k)) /\ (Number(j) = Number(k) => j = k)
    BY <1>1 DEF BranchInv, Born
  <2>3. ASSUME NEW k \in 1..N + 1 PROVE Number(k)' \in Nat /\ Birth(k)' \in Nat /\ Number(k)' <= chains /\ Birth(k)' < birth' /\ list'[k].birth < clock'
    BY <1>3, <1>7, <2>1
  <2>4. ASSUME NEW j \in 1..N + 1, NEW k \in 1..N + 1
        PROVE  (Birth(j)' < Birth(k)' <=> Number(j)' < Number(k)') /\ (Number(j)' = Number(k)' => j = k)
    <3>1. from(j) \in 0..N /\ from(k) \in 0..N /\ (from(j) = from(k) => j = k)
      BY <1>1 DEF from
    <3>2. QED
      BY <1>7, <2>2, <3>1
  <2>5. ASSUME NEW j \in 0..N + 1, NEW k \in 0..N + 1
        PROVE  (Birth(j)' < Birth(k)' <=> Number(j)' < Number(k)') /\ (Number(j)' = Number(k)' => j = k)
    <3>1. (j = 0 \/ j \in 1..N + 1) /\ (k = 0 \/ k \in 1..N + 1)
      BY <1>1
    <3>2. CASE j \in 1..N + 1 /\ k \in 1..N + 1
      BY <2>4, <3>2
    <3>3. CASE j = 0 /\ k \in 1..N + 1
      <4>1. Number(k)' \in Nat /\ Birth(k)' \in Nat /\ Number(k)' <= chains /\ Birth(k)' < birth'
        BY <2>3, <3>3
      <4>2. Number(j)' = chains + 1 /\ Birth(j)' = birth'
        BY <1>8, <3>3
      <4>3. Number(k)' < Number(j)' /\ Birth(k)' < Birth(j)' /\ Number(j)' \in Nat /\ Birth(j)' \in Nat
        BY <1>2, <1>3, <4>1, <4>2
      <4>4. QED
        BY <4>1, <4>3
    <3>4. CASE j \in 1..N + 1 /\ k = 0
      <4>1. Number(j)' \in Nat /\ Birth(j)' \in Nat /\ Number(j)' <= chains /\ Birth(j)' < birth'
        BY <2>3, <3>4
      <4>2. Number(k)' = chains + 1 /\ Birth(k)' = birth'
        BY <1>8, <3>4
      <4>3. Number(j)' < Number(k)' /\ Birth(j)' < Birth(k)' /\ Number(k)' \in Nat /\ Birth(k)' \in Nat
        BY <1>2, <1>3, <4>1, <4>2
      <4>4. QED
        BY <4>1, <4>3
    <3>5. CASE j = 0 /\ k = 0
      BY <1>3, <1>8, <3>5
    <3>6. QED
      BY <3>1, <3>2, <3>3, <3>4, <3>5
  <2>6. ASSUME NEW k \in 0..N + 1 PROVE Number(k)' <= chains'
    <3>1. CASE k = 0
      BY <1>2, <1>3, <1>8, <3>1
    <3>2. CASE k \in 1..N + 1
      <4>1. Number(k)' \in Nat /\ Number(k)' <= chains
        BY <2>3, <3>2
      <4>2. QED
        BY <1>2, <1>3, <4>1
    <3>3. QED
      BY <1>1, <3>1, <3>2
  <2>7. birth' <= clock'
    BY <1>3
  <2>8. Len(list)' = N + 1
    BY <1>3
  <2>9. QED
    BY <2>3, <2>5, <2>6, <2>7, <2>8 DEF Born
<1>10. ASSUME NEW s \in Seq(Message), Proper(s, ids, bodies) PROVE Proper(s, ids + 1, bodies')
  <2>1. (\A i \in 1..Len(s) : s[i].id \in Nat) /\ Len(s) \in Nat
    <3>1. \A i \in 1..Len(s) : s[i] \in Message
      OBVIOUS
    <3>2. QED
      BY <3>1, MessageIs
  <2>2. Len(s) <= bodies /\ (\A i \in 1..Len(s) : s[i].id <= ids) /\ \A i, j \in 1..Len(s) : s[i].id # None /\ s[i].id = s[j].id => i = j
    BY <1>10 DEF Proper
  <2>3. Len(s) <= bodies'
    BY <1>2, <1>4, <2>1, <2>2
  <2>4. \A i \in 1..Len(s) : s[i].id <= ids + 1
    BY <1>2, <2>1, <2>2
  <2>5. QED
    BY <2>2, <2>3, <2>4 DEF Proper
<1>11. Proper(live, ids, bodies) /\ \A k \in 1..N : Chain(k) \in Seq(Message) /\ Proper(Chain(k), ids, bodies)
  <2>1. \A k \in 0..N : Chain(k) \in Seq(Message) /\ Proper(Chain(k), ids, bodies)
    BY <1>1, <1>2, ChainIs DEF BranchInv, Chained
  <2>2. Chain(0) = live
    BY <1>2, ChainIs
  <2>3. 0 \in 0..N /\ \A k \in 1..N : k \in 0..N
    BY <1>1
  <2>4. QED
    BY <2>1, <2>2, <2>3
<1>12. Chained'
  <2>1. Proper(live', ids + 1, bodies')
    <3>1. n - 1 \in Nat /\ n - 1 <= Len(live) /\ (n - 1) + 1 <= bodies'
      BY <1>2, <1>4, <1>11 DEF Proper
    <3>2. PICK m \in Message : m = ForkCopy(n, b)
      BY <1>6
    <3>3. PICK u : u = Append(SubSeq(live, 1, n - 1), m)
      OBVIOUS
    <3>4. PICK c \in Nat : c = bodies'
      BY <1>4
    <3>5. Proper(u, ids + 1, c)
      BY <1>2, <1>6, <1>11, <3>1, <3>2, <3>3, <3>4, ForkedProper
    <3>6. QED
      BY <1>3, <3>2, <3>3, <3>4, <3>5
  <2>2. Proper(PreFork(n), ids + 1, bodies')
    <3>1. PICK s \in Seq(Message) : s = PreFork(n)
      BY <1>5
    <3>2. Proper(s, ids + 1, bodies)
      BY <1>5, <1>11, <3>1
    <3>3. Proper(s, ids + 1, bodies')
      BY <1>2, <1>4, <3>2 DEF Proper
    <3>4. QED
      BY <3>1, <3>3
  <2>3. ASSUME NEW k \in 0..N + 1 PROVE Proper(Chain(k), ids, bodies)'
    <3>1. PICK s : s = Chain(k)'
      OBVIOUS
    <3>2. Proper(s, ids + 1, bodies')
      <4>1. CASE k = 0
        BY <1>8, <2>1, <3>1, <4>1
      <4>2. CASE k = N + 1
        BY <1>1, <1>7, <2>2, <3>1, <4>2
      <4>3. CASE k \in 1..N
        <5>1. s = Chain(k)
          BY <1>1, <1>7, <3>1, <4>3
        <5>2. QED
          BY <1>10, <1>11, <4>3, <5>1
      <4>4. QED
        BY <1>1, <4>1, <4>2, <4>3
    <3>3. QED
      BY <1>3, <3>1, <3>2 DEF Proper
  <2>4. Len(list)' = N + 1
    BY <1>3
  <2>5. QED
    BY <2>3, <2>4 DEF Chained
<1>13. Copied'
  <2>1. ASSUME NEW u \in Tabs PROVE Proper(mem[u], ids, bodies)'
    <3>1. CASE u = t
      BY <3>1 DEF Proper
    <3>2. CASE u # t
      <4>1. PICK s \in Seq(Message) : s = mem[u]
        BY <1>2, ChainIs
      <4>2. Proper(s, ids + 1, bodies') /\ mem'[u] = s
        BY <1>10, <3>2, <4>1 DEF BranchInv, Copied
      <4>3. QED
        BY <1>3, <4>2 DEF Proper
    <3>3. QED
      BY <3>1, <3>2
  <2>2. QED
    BY <2>1 DEF Copied
<1>14. NoneLost'
  <2>1. SUFFICES ASSUME ~stale' PROVE Written'
    BY DEF NoneLost
  <2>2. 1..bodies = UNION {BodiesOf(Chain(k)) : k \in 0..N}
    BY <1>1, <2>1 DEF BranchInv, NoneLost, Written
  <2>3. live[n].body \in 1..bodies
    <3>1. live[n].body \in BodiesOf(live)
      BY <1>2, OfIs
    <3>2. Chain(0) = live /\ 0 \in 0..N
      BY <1>1, <1>2, ChainIs
    <3>3. QED
      BY <2>2, <3>1, <3>2
  <2>4. 1..bodies' = 1..bodies \cup {b}
    <3>1. CASE b = bodies + 1 /\ bodies' = bodies + 1
      BY <1>2, <3>1
    <3>2. CASE b = live[n].body /\ bodies' = bodies
      BY <2>3, <3>2
    <3>3. QED
      BY <3>1, <3>2
  <2>5. BodiesOf(live') \subseteq BodiesOf(live) \cup {b} /\ b \in BodiesOf(live')
    <3>1. PICK u \in Seq(Message) : u = live'
      BY <1>3
    <3>2. Len(u) = n /\ u[n].body = b /\ \A i \in 1..n - 1 : u[i] = live[i]
      BY <1>3, <1>6, <3>1
    <3>3. ASSUME NEW x \in BodiesOf(u) PROVE x \in BodiesOf(live) \cup {b}
      <4>1. PICK i \in 1..n : u[i].body = x
        BY <3>2, <3>3, OfIs
      <4>2. CASE i = n
        BY <3>2, <4>1, <4>2
      <4>3. CASE i # n
        <5>1. i \in 1..n - 1 /\ i \in 1..Len(live)
          BY <1>2, <4>3
        <5>2. live[i].body = x
          BY <3>2, <4>1, <5>1
        <5>3. QED
          BY <1>2, <5>1, <5>2, OfIs
      <4>4. QED
        BY <4>2, <4>3
    <3>4. n \in 1..Len(u)
      BY <1>2, <3>2
    <3>5. b \in BodiesOf(u)
      BY <3>2, <3>4, OfIs
    <3>6. BodiesOf(live') = BodiesOf(u)
      BY <3>1
    <3>7. QED
      BY <3>3, <3>5, <3>6
  <2>6. PICK B : B = [k \in 0..N + 1 |-> BodiesOf(Chain(k))']
    OBVIOUS
  <2>7. /\ B[0] = BodiesOf(live') /\ B[N + 1] = BodiesOf(live)
        /\ \A k \in 1..N : B[k] = BodiesOf(Chain(k))
    <3>1. ASSUME NEW k \in 0..N + 1, NEW s, s = Chain(k)' PROVE B[k] = BodiesOf(s)
      BY <2>6, <3>1 DEF BodiesOf
    <3>2. B[0] = BodiesOf(live')
      <4>1. PICK s : s = Chain(0)'
        OBVIOUS
      <4>2. B[0] = BodiesOf(s)
        BY <1>1, <3>1, <4>1
      <4>3. QED
        BY <1>8, <4>1, <4>2
    <3>3. ASSUME NEW k \in 1..N + 1 PROVE B[k] = BodiesOf(IF k = N + 1 THEN PreFork(n) ELSE Chain(k))
      <4>1. PICK s : s = Chain(k)'
        OBVIOUS
      <4>2. B[k] = BodiesOf(s)
        BY <1>1, <3>1, <4>1
      <4>3. QED
        BY <1>7, <4>1, <4>2
    <3>4. B[N + 1] = BodiesOf(live)
      BY <1>1, <1>5, <3>3
    <3>5. \A k \in 1..N : B[k] = BodiesOf(Chain(k))
      BY <1>1, <3>3
    <3>6. QED
      BY <3>2, <3>4, <3>5
  <2>8. Chain(0) = live
    BY <1>2, ChainIs
  <2>9. 1..bodies' = UNION {B[k] : k \in 0..N + 1}
    <3>1. ASSUME NEW x \in 1..bodies' PROVE \E k \in 0..N + 1 : x \in B[k]
      <4>1. CASE x = b
        BY <1>1, <2>5, <2>7, <4>1
      <4>2. CASE x \in 1..bodies
        <5>1. PICK k \in 0..N : x \in BodiesOf(Chain(k))
          BY <2>2, <4>2
        <5>2. CASE k = 0
          BY <1>1, <2>7, <2>8, <5>1, <5>2
        <5>3. CASE k \in 1..N
          BY <1>1, <2>7, <5>1, <5>3
        <5>4. QED
          BY <1>1, <5>2, <5>3
      <4>3. QED
        BY <2>4, <4>1, <4>2
    <3>2. ASSUME NEW k \in 0..N + 1, NEW x \in B[k] PROVE x \in 1..bodies'
      <4>1. ASSUME NEW y \in BodiesOf(live) PROVE y \in 1..bodies
        BY <1>1, <2>2, <2>8
      <4>2. CASE k = 0
        BY <2>4, <2>5, <2>7, <3>2, <4>1, <4>2
      <4>3. CASE k = N + 1
        BY <2>4, <2>7, <3>2, <4>1, <4>3
      <4>4. CASE k \in 1..N
        <5>1. x \in BodiesOf(Chain(k)) /\ k \in 0..N
          BY <1>1, <2>7, <3>2, <4>4
        <5>2. QED
          BY <2>2, <2>4, <5>1
      <4>5. QED
        BY <1>1, <4>2, <4>3, <4>4
    <3>3. QED
      BY <3>1, <3>2
  <2>10. Len(list)' = N + 1
    BY <1>3
  <2>11. QED
    BY <2>6, <2>9, <2>10 DEF Written
<1>15. Linked'
  <2>1. SUFFICES ASSUME ~stale', ~untagged' PROVE LinkedBy(Pills, Len(list))'
    BY DEF Linked
  <2>2. PICK P : P = Pills
    OBVIOUS
  <2>3. PICK Q : Q = Pills'
    OBVIOUS
  <2>4. LinkedBy(P, N)
    BY <1>1, <1>3, <2>1, <2>2 DEF BranchInv, Linked, TypeOK
  <2>5. OwedBy(runs) \subseteq GroupsOf(live)
    <3>1. ASSUME NEW i \in Owing(runs) PROVE runs[i].group \in GroupsOf(live)
      <4>1. runs[i] \in Elements(runs) /\ runs[i].group # None
        BY <1>2, ChainIs DEF Owing, Elements
      <4>2. QED
        BY <1>3, <2>1, <4>1
    <3>2. QED
      BY <3>1 DEF OwedBy
  <2>6. P[0] = GroupsOf(live) \cup OwedBy(runs) /\ \A k \in 1..N : P[k] = GroupsOf(list[k].messages)
    BY <1>1, <2>2 DEF Pills
  <2>7. Q[0] = GroupsOf(live)' \cup OwedBy(runs)' /\ \A k \in 1..N + 1 : Q[k] = GroupsOf(list[k].messages)'
    BY <1>1, <1>3, <2>3 DEF Pills
  <2>8. ForkGroup(n) \in GroupsOf(live)'
    <3>1. PICK s \in Seq(Message) : s = live'
      BY <1>3
    <3>2. n \in 1..Len(s) /\ s[n].group = ForkGroup(n)
      <4>1. Len(s) = n /\ s[n] = ForkCopy(n, b)
        BY <1>3, <3>1
      <4>2. QED
        BY <1>2, <1>6, <4>1
    <3>3. ForkGroup(n) \in GroupsOf(s)
      BY <1>5, <3>2, OfIs
    <3>4. QED
      BY <3>1, <3>3 DEF GroupsOf
  <2>9. Q[N + 1] = GroupsOf(PreFork(n))
    <3>1. list'[N + 1].messages = PreFork(n)
      BY <1>3
    <3>2. PICK s : s = PreFork(n)
      OBVIOUS
    <3>3. GroupsOf(list[N + 1].messages)' = GroupsOf(s)
      BY <3>1, <3>2 DEF GroupsOf
    <3>4. QED
      BY <1>1, <2>7, <3>2, <3>3
  <2>10. ASSUME NEW k \in 1..N PROVE P[k] \subseteq Q[k]
    <3>1. GroupsOf(list[k].messages)' = GroupsOf(list[k].messages)
      BY <1>3 DEF GroupsOf
    <3>2. QED
      BY <1>1, <2>6, <2>7, <3>1
  <2>11. P[0] \subseteq Q[N + 1] /\ Q[0] \cap Q[N + 1] # {}
    BY <1>5, <2>5, <2>6, <2>7, <2>8, <2>9
  <2>12. LinkedBy(Q, N + 1)
    BY <2>4, <2>10, <2>11, LinkedForked
  <2>13. Len(list)' = N + 1
    BY <1>3
  <2>14. QED
    BY <2>3, <2>12, <2>13 DEF LinkedBy, ClosedIn
<1>16. QED
  BY <1>9, <1>12, <1>13, <1>14, <1>15

\* Where each chain stood before a switch to record k of n: record k goes live, those
\* behind it move up, and the chain that was live is recorded last.
Placing(k, n) == [j \in 0..n |-> IF j = 0 THEN k ELSE IF j < k THEN j ELSE IF j < n THEN j + 1 ELSE 0]
LEMMA PlacingPermutes ==
  ASSUME NEW n \in Nat, NEW k \in 1..n
  PROVE  Permutes(Placing(k, n), n)
<1>1. PICK p : p = Placing(k, n)
  OBVIOUS
<1>2. \A j \in 0..n : p[j] = IF j = 0 THEN k ELSE IF j < k THEN j ELSE IF j < n THEN j + 1 ELSE 0
  BY <1>1 DEF Placing
<1>3. \A j \in 0..n : p[j] \in 0..n
  BY <1>2
<1>4. ASSUME NEW i \in 0..n, NEW j \in 0..n, p[i] = p[j] PROVE i = j
  BY <1>2, <1>4
<1>5. ASSUME NEW i \in 0..n PROVE \E j \in 0..n : p[j] = i
  <2>1. CASE i = 0
    <3>1. n \in 0..n /\ p[n] = 0
      BY <1>2
    <3>2. QED
      BY <2>1, <3>1
  <2>2. CASE i = k
    <3>1. 0 \in 0..n /\ p[0] = k
      BY <1>2
    <3>2. QED
      BY <2>2, <3>1
  <2>3. CASE i # 0 /\ i < k
    <3>1. p[i] = i
      BY <1>2, <2>3
    <3>2. QED
      BY <3>1
  <2>4. CASE i > k
    <3>1. i - 1 \in 0..n /\ p[i - 1] = i
      BY <1>2, <2>4
    <3>2. QED
      BY <3>1
  <2>5. QED
    BY <2>1, <2>2, <2>3, <2>4
<1>6. QED
  BY <1>1, <1>3, <1>4, <1>5 DEF Permutes

\* What a switch does to the chains (session_manager_switch_branch): they change places
\* and none is touched.
LEMMA SwitchIs ==
  ASSUME TypeOK, NEW N \in Nat, N = Len(list), NEW k \in 1..N, SwitchTo(k), NEW p, p = Placing(k, N)
  PROVE  /\ list' \in Seq(Record) /\ Len(list') = N
         /\ live' = list[k].messages /\ live' \in Seq(Message) /\ birth' \in Births /\ chain' \in Groups
         /\ list'[N].messages = live
         /\ \A j \in 0..N : Chain(j)' = Chain(p[j]) /\ Number(j)' = Number(p[j]) /\ Birth(j)' = Birth(p[j])
<1>1. PICK r : r = [chain |-> chain, birth |-> birth, messages |-> live]
  OBVIOUS
<1>2. r \in Record
  BY <1>1 DEF TypeOK, Record
<1>3. PICK l \in Seq(Record) : l = list
  BY DEF TypeOK
<1>4. PICK a : a = Append(l, r)
  OBVIOUS
<1>5. a \in Seq(Record) /\ Len(a) = N + 1 /\ a[N + 1] = r /\ \A j \in 1..N : a[j] = l[j]
  BY <1>2, <1>3, <1>4
<1>6. PICK s : s = SubSeq(a, 1, k - 1)
  OBVIOUS
<1>7. PICK t : t = SubSeq(a, k + 1, N + 1)
  OBVIOUS
<1>8. s \in Seq(Record) /\ Len(s) = k - 1 /\ \A j \in 1..k - 1 : s[j] = a[j]
  BY <1>5, <1>6
<1>9. t \in Seq(Record) /\ Len(t) = N + 1 - k /\ \A j \in 1..N + 1 - k : t[j] = a[j + k]
  <2>1. PICK m \in Nat : m = N + 1 - k
    OBVIOUS
  <2>2. k + 1 \in 1..N + 2 /\ N + 1 = Len(a) /\ (N + 1) - (k + 1) + 1 = m
    BY <1>5, <2>1
  <2>3. t \in Seq(Record) /\ Len(t) = m
    BY <1>5, <1>7, <2>1, <2>2
  <2>4. ASSUME NEW j \in 1..m PROVE t[j] = a[j + k]
    <3>1. t[j] = a[(k + 1) + j - 1]
      BY <1>5, <1>7, <2>1, <2>2
    <3>2. (k + 1) + j - 1 = j + k
      BY <2>1
    <3>3. QED
      BY <3>1, <3>2
  <2>5. QED
    BY <2>1, <2>3, <2>4
<1>10. PICK u : u = s \o t
  OBVIOUS
<1>11. u \in Seq(Record) /\ Len(u) = N /\ (\A j \in 1..k - 1 : u[j] = a[j]) /\ \A j \in k..N : u[j] = a[j + 1]
  <2>1. /\ u \in Seq(Record) /\ Len(u) = Len(s) + Len(t)
        /\ \A i \in 1..Len(s) + Len(t) : u[i] = IF i <= Len(s) THEN s[i] ELSE t[i - Len(s)]
    <3>1. PICK c \in Seq(Record) : c = s
      BY <1>8
    <3>2. PICK d \in Seq(Record) : d = t
      BY <1>9
    <3>3. /\ c \o d \in Seq(Record) /\ Len(c \o d) = Len(c) + Len(d)
          /\ \A i \in 1..Len(c) + Len(d) : (c \o d)[i] = IF i <= Len(c) THEN c[i] ELSE d[i - Len(c)]
      BY ConcatProperties
    <3>4. QED
      BY <1>10, <3>1, <3>2, <3>3
  <2>2. ASSUME NEW j \in 1..k - 1 PROVE u[j] = a[j]
    <3>1. j \in 1..Len(s) + Len(t) /\ j <= Len(s)
      BY <1>8, <1>9
    <3>2. u[j] = s[j]
      BY <2>1, <3>1
    <3>3. QED
      BY <1>8, <3>2
  <2>3. ASSUME NEW j \in k..N PROVE u[j] = a[j + 1]
    <3>1. j - (k - 1) \in 1..N + 1 - k /\ (j - (k - 1)) + k = j + 1
      OBVIOUS
    <3>2. u[j] = t[j - (k - 1)]
      <4>1. j \in 1..Len(s) + Len(t) /\ ~(j <= Len(s)) /\ Len(s) = k - 1
        BY <1>8, <1>9
      <4>2. QED
        BY <2>1, <4>1
    <3>3. QED
      BY <1>9, <3>1, <3>2
  <2>4. QED
    BY <1>8, <1>9, <2>1, <2>2, <2>3
<1>12. list' = u
  <2>1. list' = SubSeq(a, 1, k - 1) \o SubSeq(a, k + 1, Len(a))
    BY <1>1, <1>3, <1>4 DEF SwitchTo
  <2>2. QED
    BY <1>5, <1>6, <1>7, <1>10, <2>1
<1>13. live' = list[k].messages /\ birth' = list[k].birth /\ chain' = list[k].chain
  BY DEF SwitchTo
<1>14. list[k] \in Record
  BY <1>3
<1>15. live' \in Seq(Message) /\ birth' \in Births /\ chain' \in Groups
  BY <1>13, <1>14 DEF Record
<1>16. u[N] = r
  <2>1. N \in k..N
    OBVIOUS
  <2>2. QED
    BY <1>5, <1>11, <2>1
<1>17. ASSUME NEW j \in 0..N PROVE Chain(j)' = Chain(p[j]) /\ Number(j)' = Number(p[j]) /\ Birth(j)' = Birth(p[j])
  <2>1. p[j] = IF j = 0 THEN k ELSE IF j < k THEN j ELSE IF j < N THEN j + 1 ELSE 0
    BY DEF Placing
  <2>2. CASE j = 0
    BY <1>13, <2>1, <2>2 DEF Chain, Number, Birth
  <2>3. CASE j \in 1..k - 1
    <3>1. p[j] = j /\ j \in 1..N
      BY <2>1, <2>3
    <3>2. list'[j] = list[j]
      BY <1>3, <1>5, <1>11, <1>12, <2>3, <3>1
    <3>3. QED
      BY <2>3, <3>1, <3>2 DEF Chain, Number, Birth
  <2>4. CASE j \in k..N /\ j < N
    <3>1. p[j] = j + 1 /\ j + 1 \in 1..N /\ j # 0 /\ j + 1 # 0
      BY <2>1, <2>4
    <3>2. list'[j] = list[j + 1]
      BY <1>3, <1>5, <1>11, <1>12, <2>4, <3>1
    <3>3. QED
      BY <3>1, <3>2 DEF Chain, Number, Birth
  <2>5. CASE j = N
    <3>1. p[j] = 0 /\ j # 0
      BY <2>1, <2>5
    <3>2. list'[j] = r
      BY <1>12, <1>16, <2>5
    <3>3. list'[j].chain = chain /\ list'[j].birth = birth /\ list'[j].messages = live
      BY <1>1, <3>2
    <3>4. QED
      BY <3>1, <3>3 DEF Chain, Number, Birth
  <2>6. QED
    BY <2>2, <2>3, <2>4, <2>5
<1>18. list'[N].messages = live
  BY <1>1, <1>12, <1>16
<1>19. QED
  BY <1>11, <1>12, <1>13, <1>15, <1>17, <1>18

\* A switch loses no message and no pill, and births stay in order.
LEMMA SwitchKeeps ==
  ASSUME BranchInv, NEW k \in DOMAIN list, SwitchTo(k), clock' = clock + 1, LeaveUntagged,
         UNCHANGED <<runs, ids, bodies, chains, stale>>
  PROVE  Born' /\ Chained' /\ NoneLost' /\ Linked'
<1>1. PICK N \in Nat : N = Len(list)
  BY ChainIs DEF BranchInv
<1>2. k \in 1..N /\ TypeOK
  BY <1>1 DEF BranchInv, TypeOK
<1>3. PICK p : p = Placing(k, N)
  OBVIOUS
<1>4. /\ list' \in Seq(Record) /\ Len(list') = N /\ live' = list[k].messages /\ live' \in Seq(Message)
      /\ list'[N].messages = live
      /\ \A j \in 0..N : Chain(j)' = Chain(p[j]) /\ Number(j)' = Number(p[j]) /\ Birth(j)' = Birth(p[j])
  BY <1>1, <1>2, <1>3, SwitchIs
<1>5. Permutes(p, N)
  BY <1>2, <1>3, PlacingPermutes
<1>6. /\ \A j \in 0..N : Number(j) <= chains /\ Proper(Chain(j), ids, bodies)
                         /\ Number(j) \in Nat /\ Birth(j) \in Nat
      /\ \A i, j \in 0..N : (Birth(i) < Birth(j) <=> Number(i) < Number(j)) /\ (Number(i) = Number(j) => i = j)
      /\ birth <= clock /\ \A j \in 1..N : list[j].birth < clock
  BY <1>1, <1>2, ChainIs DEF BranchInv, Born, Chained
<1>7. clock \in Nat /\ chains' = chains /\ ids' = ids /\ bodies' = bodies /\ runs' = runs /\ stale' = stale /\ Len(list)' = N
  BY <1>2, <1>4, ChainIs
<1>8. ASSUME NEW j \in 0..N PROVE Birth(j) <= clock
  <2>1. CASE j = 0
    BY <1>6, <2>1 DEF Birth
  <2>2. CASE j # 0
    <3>1. j \in 1..N /\ Birth(j) = list[j].birth
      BY <2>2 DEF Birth
    <3>2. Birth(j) < clock /\ Birth(j) \in Nat
      BY <1>6, <3>1
    <3>3. QED
      BY <1>7, <3>2
  <2>3. QED
    BY <2>1, <2>2
<1>9. \A j \in 0..N : p[j] \in 0..N
  BY <1>5 DEF Permutes
<1>10. Born'
  <2>1. ASSUME NEW j \in 0..N PROVE Number(j)' <= chains /\ Birth(j)' <= clock /\ Birth(j)' \in Nat
    BY <1>4, <1>6, <1>8, <1>9
  <2>2. ASSUME NEW i \in 0..N, NEW j \in 0..N
        PROVE  (Birth(i)' < Birth(j)' <=> Number(i)' < Number(j)') /\ (Number(i)' = Number(j)' => i = j)
    <3>1. p[i] \in 0..N /\ p[j] \in 0..N /\ (p[i] = p[j] => i = j)
      BY <1>5 DEF Permutes
    <3>2. Number(i)' = Number(p[i]) /\ Number(j)' = Number(p[j]) /\ Birth(i)' = Birth(p[i]) /\ Birth(j)' = Birth(p[j])
      BY <1>4
    <3>3. (Birth(p[i]) < Birth(p[j]) <=> Number(p[i]) < Number(p[j])) /\ (Number(p[i]) = Number(p[j]) => p[i] = p[j])
      BY <1>6, <3>1
    <3>4. QED
      BY <3>1, <3>2, <3>3
  <2>3. birth' <= clock'
    <3>1. Birth(0)' = birth' /\ 0 \in 0..N
      BY <1>1 DEF Birth
    <3>2. birth' <= clock /\ birth' \in Nat
      BY <2>1, <3>1
    <3>3. QED
      BY <1>7, <3>2
  <2>4. ASSUME NEW j \in 1..N PROVE list'[j].birth < clock'
    <3>1. Birth(j)' = list'[j].birth /\ j \in 0..N
      BY <1>1 DEF Birth
    <3>2. list'[j].birth <= clock /\ list'[j].birth \in Nat
      BY <2>1, <3>1
    <3>3. QED
      BY <1>7, <3>2
  <2>5. QED
    BY <1>7, <2>1, <2>2, <2>3, <2>4 DEF Born
<1>11. Chained'
  <2>1. ASSUME NEW j \in 0..N PROVE Proper(Chain(j), ids, bodies)'
    <3>1. Proper(Chain(p[j]), ids, bodies) /\ Chain(j)' = Chain(p[j])
      BY <1>4, <1>6, <1>9
    <3>2. PICK s : s = Chain(p[j])
      OBVIOUS
    <3>3. Proper(s, ids, bodies) /\ Chain(j)' = s
      BY <3>1, <3>2
    <3>4. QED
      BY <1>7, <3>3 DEF Proper
  <2>2. QED
    BY <1>7, <2>1 DEF Chained
<1>12. NoneLost'
  <2>1. SUFFICES ASSUME ~stale' PROVE Written'
    BY DEF NoneLost
  <2>2. PICK A : A = [j \in 0..N |-> BodiesOf(Chain(j))]
    OBVIOUS
  <2>3. PICK B : B = [j \in 0..N |-> BodiesOf(Chain(j))']
    OBVIOUS
  <2>4. ASSUME NEW j \in 0..N PROVE B[j] = A[p[j]]
    <3>1. PICK s : s = Chain(p[j])
      OBVIOUS
    <3>2. BodiesOf(Chain(j))' = BodiesOf(s)
      BY <1>4, <3>1 DEF BodiesOf
    <3>3. QED
      BY <1>9, <2>2, <2>3, <3>1, <3>2
  <2>5. 1..bodies = UNION {A[j] : j \in 0..N}
    BY <1>1, <1>7, <2>1, <2>2 DEF BranchInv, NoneLost, Written
  <2>6. UNION {B[j] : j \in 0..N} = UNION {A[j] : j \in 0..N}
    <3>1. ASSUME NEW j \in 0..N PROVE B[j] \in {A[i] : i \in 0..N}
      BY <1>9, <2>4
    <3>2. ASSUME NEW j \in 0..N PROVE A[j] \in {B[i] : i \in 0..N}
      <4>1. PICK i \in 0..N : p[i] = j
        BY <1>5 DEF Permutes
      <4>2. QED
        BY <2>4, <4>1
    <3>3. QED
      BY <3>1, <3>2
  <2>7. QED
    BY <1>7, <2>3, <2>5, <2>6 DEF Written
<1>13. Linked'
  <2>1. SUFFICES ASSUME ~stale', ~untagged' PROVE LinkedBy(Pills, Len(list))'
    BY DEF Linked
  <2>2. PICK P : P = Pills
    OBVIOUS
  <2>3. PICK Q : Q = Pills'
    OBVIOUS
  <2>4. ~untagged /\ \A r \in Elements(runs) : r.group \in GroupsOf(live) \union {None}
    BY <2>1, <1>2 DEF LeaveUntagged, TypeOK
  <2>5. LinkedBy(P, N)
    BY <1>1, <1>7, <2>1, <2>2, <2>4 DEF BranchInv, Linked
  <2>6. OwedBy(runs) \subseteq GroupsOf(live)
    <3>1. ASSUME NEW i \in Owing(runs) PROVE runs[i].group \in GroupsOf(live)
      <4>1. runs[i] \in Elements(runs) /\ runs[i].group # None
        BY <1>2, ChainIs DEF Owing, Elements
      <4>2. QED
        BY <2>4, <4>1
    <3>2. QED
      BY <3>1 DEF OwedBy
  <2>7. ASSUME NEW j \in 0..N PROVE P[j] = GroupsOf(Chain(j))
    <3>1. CASE j = 0
      BY <1>1, <2>2, <2>6, <3>1 DEF Pills, Chain
    <3>2. CASE j # 0
      BY <1>1, <2>2, <3>2 DEF Pills, Chain
    <3>3. QED
      BY <3>1, <3>2
  <2>8. ASSUME NEW j \in 0..N, NEW s, s = Chain(j)' PROVE GroupsOf(s) \subseteq Q[j]
    <3>1. CASE j = 0
      <4>1. Q[0] = GroupsOf(live)' \cup OwedBy(runs)' /\ s = live'
        BY <1>7, <2>3, <2>8, <3>1 DEF Pills, Chain
      <4>2. GroupsOf(s) = GroupsOf(live)'
        BY <4>1 DEF GroupsOf
      <4>3. QED
        BY <3>1, <4>1, <4>2
    <3>2. CASE j # 0
      <4>1. Q[j] = GroupsOf(list[j].messages)' /\ s = list'[j].messages
        BY <1>7, <2>3, <2>8, <3>2 DEF Pills, Chain
      <4>2. GroupsOf(s) = GroupsOf(list[j].messages)'
        BY <4>1 DEF GroupsOf
      <4>3. QED
        BY <4>1, <4>2
    <3>3. QED
      BY <3>1, <3>2
  <2>9. ASSUME NEW j \in 0..N PROVE P[p[j]] \subseteq Q[j]
    <3>1. PICK s : s = Chain(p[j])
      OBVIOUS
    <3>2. s = Chain(j)'
      BY <1>4, <3>1
    <3>3. P[p[j]] = GroupsOf(s)
      BY <1>9, <2>7, <3>1
    <3>4. GroupsOf(s) \subseteq Q[j]
      BY <2>8, <3>2
    <3>5. QED
      BY <3>3, <3>4
  <2>10. LinkedBy(Q, N)
    BY <1>5, <2>5, <2>9, LinkedMoved
  <2>11. QED
    BY <1>7, <2>3, <2>10 DEF LinkedBy, ClosedIn
<1>14. QED
  BY <1>10, <1>11, <1>12, <1>13

-----------------------------------------------------------------------------
(* The runs and the steps                                                  *)
\* One tab's copy changes.
LEMMA MemIs ==
  ASSUME TypeOK, NEW t \in Tabs, NEW c \in Seq(Message), mem' = [mem EXCEPT ![t] = c]
  PROVE  mem' \in [Tabs -> Seq(Message)] /\ mem'[t] = c /\ \A u \in Tabs \ {t} : mem'[u] = mem[u]
<1>1. PICK f \in [Tabs -> Seq(Message)] : f = mem
  BY DEF TypeOK
<1>2. mem' = [f EXCEPT ![t] = c]
  BY <1>1
<1>3. QED
  BY <1>1, <1>2

\* A run's parts, one that owes a group's too.
LEMMA RunIs ==
  ASSUME NEW s \in Seq(Run)
  PROVE  \A i \in Owing(s) : /\ s[i] \in Elements(s) /\ s[i] \in Run /\ s[i].tab \in Tabs /\ s[i].at \in Nat
                             /\ s[i].group \in Groups /\ s[i].group # None
<1>1. DOMAIN s = 1..Len(s)
  OBVIOUS
<1>2. ASSUME NEW i \in Owing(s) PROVE s[i] \in Elements(s) /\ s[i] \in Run /\ s[i].group # None
  BY <1>1 DEF Owing, Elements
<1>3. QED
  BY <1>2, BranchNumbers DEF Run

\* What a regenerate that runs relies on survives a save: other tabs fall behind, and
\* the saving tab's own copy keeps or grows (agent_save_session).
LEMMA WritingSaved ==
  ASSUME BranchInv, NEW t \in Tabs, NEW owed, NEW copy \in Seq(Message), Save(t, copy, owed),
         mem' \in [Tabs -> Seq(Message)], \A u \in Tabs \ {t} : mem'[u] = mem[u],
         \/ mem'[t] = mem[t] /\ owed = None
         \/ /\ Len(mem'[t]) = Len(mem[t]) + 1 /\ \A i \in 1..Len(mem[t]) : mem'[t][i] = mem[t][i]
            /\ mem'[t][Len(mem[t]) + 1].id = None /\ mem'[t][Len(mem[t]) + 1].group = None,
         runs' \in Seq(Run), \A i \in Owing(runs') : i \in Owing(runs) /\ runs'[i] = runs[i]
  PROVE  Writing'
<1>1. TypeOK /\ runs \in Seq(Run) /\ mem \in [Tabs -> Seq(Message)]
  BY DEF BranchInv, TypeOK
<1>2. ASSUME NEW i \in Owing(runs') PROVE WritesAt(runs[i])'
  <2>1. i \in Owing(runs) /\ runs'[i] = runs[i]
    BY <1>2
  <2>2. PICK r \in Run : r = runs[i]
    BY <1>1, <2>1, RunIs
  <2>3. r.tab \in Tabs /\ r.at \in Nat /\ r.group \in Groups /\ r.group # None /\ WritesAt(r) /\ runs'[i] = r
    BY <1>1, <2>1, <2>2, RunIs DEF BranchInv, Writing
  <2>4. CASE r.tab # t
    <3>1. mem'[r.tab] = mem[r.tab] /\ r.tab \in behind'
      BY <2>3, <2>4 DEF Save, Outdate
    <3>2. WritesAt(r)'
      BY <2>3, <3>1 DEF WritesAt
    <3>3. QED
      BY <2>3, <3>2 DEF WritesAt
  <2>5. CASE r.tab = t
    <3>1. PICK m \in Seq(Message) : m = mem[t]
      BY <1>1
    <3>2. PICK n \in Seq(Message) : n = mem'[t]
      OBVIOUS
    <3>3. /\ r.at \in 1..Len(m) + 1 /\ \A j \in r.at..Len(m) : m[j].id = None /\ m[j].group = None
          /\ ~stale /\ ~untagged /\ r.tab \notin behind => r.group \in GroupsOf(live) \/ r.at <= Len(m)
      BY <2>3, <2>5, <3>1 DEF WritesAt
    <3>4. Len(m) \in Nat /\ Len(n) \in Nat
      OBVIOUS
    <3>5. CASE mem'[t] = mem[t] /\ owed = None
      <4>1. m = n
        BY <3>1, <3>2, <3>5
      <4>2. ASSUME ~stale', ~untagged', r.tab \notin behind' PROVE r.group \in GroupsOf(live') \/ r.at <= Len(n)
        <5>1. ~stale /\ ~untagged /\ r.tab \notin behind /\ GroupsOf(live) \subseteq GroupsOf(live') \cup {None}
          BY <1>1, <3>5, <4>2 DEF Save, Outdate, TypeOK
        <5>2. QED
          BY <2>3, <3>3, <4>1, <5>1
      <4>3. r.group \in GroupsOf(live') <=> r.group \in GroupsOf(live)'
        BY DEF GroupsOf
      <4>4. WritesAt(r)'
        BY <2>5, <3>2, <3>3, <4>1, <4>2, <4>3 DEF WritesAt
      <4>5. QED
        BY <2>3, <4>4 DEF WritesAt
    <3>6. CASE /\ Len(mem'[t]) = Len(mem[t]) + 1 /\ \A j \in 1..Len(mem[t]) : mem'[t][j] = mem[t][j]
               /\ mem'[t][Len(mem[t]) + 1].id = None /\ mem'[t][Len(mem[t]) + 1].group = None
      <4>1. /\ Len(n) = Len(m) + 1 /\ (\A j \in 1..Len(m) : n[j] = m[j]) /\ n[Len(m) + 1].id = None /\ n[Len(m) + 1].group = None
        BY <3>1, <3>2, <3>6
      <4>2. r.at \in 1..Len(n) + 1 /\ r.at <= Len(n)
        BY <3>3, <3>4, <4>1
      <4>3. ASSUME NEW j \in r.at..Len(n) PROVE n[j].id = None /\ n[j].group = None
        <5>1. CASE j = Len(m) + 1
          BY <4>1, <5>1
        <5>2. CASE j # Len(m) + 1
          <6>1. j \in r.at..Len(m) /\ j \in 1..Len(m)
            BY <2>3, <3>3, <3>4, <4>1, <5>2
          <6>2. QED
            BY <3>3, <4>1, <6>1
        <5>3. QED
          BY <5>1, <5>2
      <4>4. WritesAt(r)'
        BY <2>5, <3>2, <4>2, <4>3 DEF WritesAt
      <4>5. QED
        BY <2>3, <4>4 DEF WritesAt
    <3>7. QED
      BY <3>5, <3>6
  <2>6. QED
    BY <2>4, <2>5
<1>3. QED
  BY <1>2 DEF Writing

\* What a regenerate that runs relies on survives what an idle tab does, as long as
\* the tabs that may have fallen behind are counted.
LEMMA WritingLeft ==
  ASSUME BranchInv, NEW t \in Tabs, Idle(t), mem' \in [Tabs -> Seq(Message)], \A u \in Tabs \ {t} : mem'[u] = mem[u],
         behind' = behind \cup (Tabs \ {t}) \/ behind' = Tabs \ {t} \/ (behind' = behind \ {t} /\ UNCHANGED <<live, stale, untagged>>),
         NEW i \in Owing(runs)
  PROVE  /\ WritesAt(runs[i]) /\ runs[i].tab \in Tabs /\ runs[i].tab # t
         /\ \A r \in Run : r = runs[i] => WritesAt(r)'
<1>1. TypeOK /\ runs \in Seq(Run)
  BY DEF BranchInv, TypeOK
<1>2. runs[i].tab \in Tabs /\ runs[i] \in Elements(runs) /\ runs[i].tab # t
  BY <1>1, RunIs DEF Idle
<1>3. WritesAt(runs[i])
  BY DEF BranchInv, Writing
<1>4. ASSUME NEW r \in Run, r = runs[i] PROVE WritesAt(r)'
  <2>1. mem'[r.tab] = mem[r.tab] /\ WritesAt(r)
    BY <1>2, <1>3, <1>4
  <2>2. CASE behind' = behind \cup (Tabs \ {t}) \/ behind' = Tabs \ {t}
    <3>1. r.tab \in behind'
      BY <1>2, <1>4, <2>2
    <3>2. QED
      BY <2>1, <3>1 DEF WritesAt
  <2>3. CASE behind' = behind \ {t} /\ UNCHANGED <<live, stale, untagged>>
    <3>1. r.tab \notin behind' => r.tab \notin behind
      BY <1>2, <1>4, <2>3
    <3>2. GroupsOf(live)' = GroupsOf(live)
      BY <2>3 DEF GroupsOf
    <3>3. QED
      BY <2>1, <2>3, <3>1, <3>2 DEF WritesAt
  <2>4. QED
    BY <2>2, <2>3
<1>5. QED
  BY <1>2, <1>3, <1>4

\* The user's turn is saved before the model is asked (ws_handle_message_frame).
LEMMA SendKeeps ==
  ASSUME BranchInv, NEW t \in Tabs, SendMessage(t)
  PROVE  BranchInv'
<1>1. TypeOK /\ runs \in Seq(Run) /\ ids \in Nat /\ bodies \in Nat /\ mem[t] \in Seq(Message) /\ Proper(mem[t], ids, bodies)
  BY ChainIs DEF BranchInv, Copied
<1>2. /\ bodies < MaxBodies /\ mem' = [mem EXCEPT ![t] = Say(mem[t])] /\ bodies' = bodies + 1
      /\ Save(t, mem'[t], None) /\ Push(t, 0, None) /\ clock' = clock /\ ids' = ids
  BY DEF SendMessage
<1>3. PICK s \in Seq(Message) : s = mem[t]
  BY <1>1
<1>4. PICK c \in Seq(Message) : c = Say(s)
  BY <1>1, <1>2, SayIs
<1>5. /\ Len(c) = Len(s) + 1 /\ (\A i \in 1..Len(s) : c[i] = s[i])
      /\ c[Len(s) + 1].body = bodies + 1 /\ c[Len(s) + 1].id = None /\ c[Len(s) + 1].group = None
      /\ BodiesOf(c) = BodiesOf(s) \cup {bodies + 1}
      /\ Proper(c, ids, bodies + 1)
  BY <1>1, <1>2, <1>3, <1>4, SayIs
<1>6. mem' \in [Tabs -> Seq(Message)] /\ mem'[t] = c /\ \A u \in Tabs \ {t} : mem'[u] = mem[u]
  BY <1>1, <1>2, <1>3, <1>4, MemIs
<1>7. Save(t, c, None)
  BY <1>2, <1>6
<1>8. PICK r \in Run : r = [tab |-> t, at |-> 0, group |-> None]
  <2>1. 0 \in 0..MaxBodies /\ None \in Groups
    BY BranchNumbers DEF Groups, None
  <2>2. QED
    BY <2>1 DEF Run
<1>9. PICK u \in Seq(Run) : u = Append(runs, r) /\ r.group = None
  <2>1. Append(runs, r) \in Seq(Run)
    BY <1>1
  <2>2. QED
    BY <1>8, <2>1
<1>10. runs' = u
  BY <1>2, <1>8, <1>9 DEF Push
<1>11. Pushed(runs, r, u)
  BY <1>1, <1>9, PushIs
<1>19. Owing(u) = Owing(runs) /\ \A i \in Owing(runs) : u[i] = runs[i]
  BY <1>9, <1>11 DEF Pushed
<1>12. /\ live' = c /\ birth' = birth /\ list' = list /\ chain' = chain /\ chains' = chains
       /\ behind' = behind \cup (Tabs \ {t}) /\ stale' = (stale \/ t \in behind)
       /\ (untagged' <=> untagged \/ ~(GroupsOf(live) \subseteq GroupsOf(c) \union {None}))
       /\ untagged' \in BOOLEAN
  BY <1>1, <1>7 DEF Save, Outdate, TypeOK
<1>13. TypeOK'
  BY <1>1, <1>2, <1>6, <1>10, <1>12, BranchNumbers DEF TypeOK
<1>14. Born' /\ Chained' /\ Copied' /\ UpToDate' /\ NoneLost'
  <2>1. BodiesOf(c) = BodiesOf(mem[t]) \cup (bodies + 1..bodies')
    BY <1>1, <1>2, <1>3, <1>5
  <2>2. Proper(c, ids', bodies') /\ Proper(mem[t], ids, bodies)'
    BY <1>2, <1>5, <1>6 DEF Proper
  <2>3. ASSUME NEW i \in 1..Len(c) PROVE mem'[t][i].body = c[i].body /\ mem'[t][i].id \in {None, c[i].id}
    BY <1>6
  <2>4. bodies' \in {bodies, bodies + 1} /\ ids' \in {ids, ids + 1} /\ Len(c) = Len(mem[t])'
    BY <1>2, <1>6
  <2>5. QED
    BY <1>2, <1>6, <1>7, <2>1, <2>2, <2>3, <2>4, SavedKeeps
<1>15. Writing'
  <2>1. /\ Len(mem'[t]) = Len(mem[t]) + 1 /\ \A i \in 1..Len(mem[t]) : mem'[t][i] = mem[t][i]
        /\ mem'[t][Len(mem[t]) + 1].id = None /\ mem'[t][Len(mem[t]) + 1].group = None
    BY <1>3, <1>5, <1>6
  <2>2. runs' \in Seq(Run) /\ \A i \in Owing(runs') : i \in Owing(runs) /\ runs'[i] = runs[i]
    BY <1>10, <1>19
  <2>3. QED
    BY <1>6, <1>7, <2>1, <2>2, WritingSaved
<1>16. IdsLeft'
  BY <1>2, <1>10, <1>19, <1>12 DEF BranchInv, IdsLeft
<1>17. Linked'
  <2>1. SUFFICES ASSUME ~stale', ~untagged' PROVE LinkedBy(Pills, Len(list))'
    BY DEF Linked
  <2>2. ~stale /\ ~untagged /\ GroupsOf(live) \subseteq GroupsOf(c) \cup {None} /\ None \notin GroupsOf(live)
    BY <1>1, <1>12, <2>1 DEF TypeOK, GroupsOf
  <2>3. GroupsOf(live)' = GroupsOf(c) /\ OwedBy(runs)' = OwedBy(u)
    BY <1>10, <1>12 DEF GroupsOf, OwedBy, Owing
  <2>4. OwedBy(runs) \subseteq OwedBy(u)
    BY <1>11 DEF Pushed
  <2>5. LinkedBy(Pills, Len(list))
    BY <2>2 DEF BranchInv, Linked
  <2>6. QED
    BY <1>1, <1>12, <2>2, <2>3, <2>4, <2>5, LinksKept
<1>18. QED
  BY <1>13, <1>14, <1>15, <1>16, <1>17 DEF BranchInv

\* A turn that is not the last is appended and saved (agent_run_loop).
LEMMA TurnKeeps ==
  ASSUME BranchInv, Turn
  PROVE  BranchInv'
<1>1. TypeOK /\ runs \in Seq(Run) /\ ids \in Nat /\ bodies \in Nat /\ runs # <<>>
  BY ChainIs DEF BranchInv, Turn
<1>2. PICK r \in Run : r = Top
  BY <1>1 DEF Top
<1>3. PICK t \in Tabs : t = r.tab
  BY DEF Run
<1>4. /\ bodies < MaxBodies /\ mem' = [mem EXCEPT ![t] = Say(mem[t])] /\ bodies' = bodies + 1
      /\ Save(t, mem'[t], r.group) /\ clock' = clock /\ ids' = ids /\ runs' = runs
  BY <1>2, <1>3 DEF Turn
<1>5. PICK s \in Seq(Message) : s = mem[t]
  BY <1>1, ChainIs
<1>6. Proper(s, ids, bodies)
  BY <1>5 DEF BranchInv, Copied
<1>7. PICK c \in Seq(Message) : c = Say(s)
  BY <1>1, <1>4, SayIs
<1>8. /\ Len(c) = Len(s) + 1 /\ (\A i \in 1..Len(s) : c[i] = s[i])
      /\ c[Len(s) + 1].body = bodies + 1 /\ c[Len(s) + 1].id = None /\ c[Len(s) + 1].group = None
      /\ BodiesOf(c) = BodiesOf(s) \cup {bodies + 1}
      /\ Proper(c, ids, bodies + 1)
  BY <1>1, <1>4, <1>6, <1>7, SayIs
<1>9. mem' \in [Tabs -> Seq(Message)] /\ mem'[t] = c /\ \A u \in Tabs \ {t} : mem'[u] = mem[u]
  BY <1>1, <1>4, <1>5, <1>7, MemIs
<1>10. Save(t, c, r.group)
  BY <1>4, <1>9
<1>12. /\ live' = c /\ birth' = birth /\ list' = list /\ chain' = chain /\ chains' = chains
       /\ behind' = behind \cup (Tabs \ {t}) /\ stale' = (stale \/ t \in behind)
       /\ (untagged' <=> untagged \/ ~(GroupsOf(live) \subseteq GroupsOf(c) \union {r.group}))
       /\ untagged' \in BOOLEAN
  BY <1>1, <1>10 DEF Save, Outdate, TypeOK
<1>13. TypeOK'
  BY <1>1, <1>4, <1>9, <1>12, BranchNumbers DEF TypeOK
<1>14. Born' /\ Chained' /\ Copied' /\ UpToDate' /\ NoneLost'
  <2>1. BodiesOf(c) = BodiesOf(mem[t]) \cup (bodies + 1..bodies')
    BY <1>1, <1>4, <1>5, <1>8
  <2>2. Proper(c, ids', bodies') /\ Proper(mem[t], ids, bodies)'
    BY <1>4, <1>8, <1>9 DEF Proper
  <2>3. ASSUME NEW i \in 1..Len(c) PROVE mem'[t][i].body = c[i].body /\ mem'[t][i].id \in {None, c[i].id}
    BY <1>9
  <2>4. bodies' \in {bodies, bodies + 1} /\ ids' \in {ids, ids + 1} /\ Len(c) = Len(mem[t])'
    BY <1>4, <1>9
  <2>5. QED
    BY <1>4, <1>9, <1>10, <2>1, <2>2, <2>3, <2>4, SavedKeeps
<1>15. Writing'
  <2>1. /\ Len(mem'[t]) = Len(mem[t]) + 1 /\ \A i \in 1..Len(mem[t]) : mem'[t][i] = mem[t][i]
        /\ mem'[t][Len(mem[t]) + 1].id = None /\ mem'[t][Len(mem[t]) + 1].group = None
    BY <1>5, <1>8, <1>9
  <2>2. runs' \in Seq(Run) /\ \A i \in Owing(runs') : i \in Owing(runs) /\ runs'[i] = runs[i]
    BY <1>1, <1>4
  <2>3. QED
    BY <1>9, <1>10, <2>1, <2>2, WritingSaved
<1>16. IdsLeft'
  BY <1>4, <1>12 DEF BranchInv, IdsLeft, Owing
<1>17. Linked'
  <2>1. SUFFICES ASSUME ~stale', ~untagged' PROVE LinkedBy(Pills, Len(list))'
    BY DEF Linked
  <2>2. ~stale /\ ~untagged /\ GroupsOf(live) \subseteq GroupsOf(c) \cup {r.group} /\ None \notin GroupsOf(live)
    BY <1>1, <1>12, <2>1 DEF TypeOK, GroupsOf
  <2>3. GroupsOf(live)' = GroupsOf(c) /\ OwedBy(runs)' = OwedBy(runs)
    BY <1>4, <1>12 DEF GroupsOf, OwedBy, Owing
  <2>4. r.group \in OwedBy(runs) \cup {None}
    <3>1. Len(runs) \in 1..Len(runs) /\ r = runs[Len(runs)]
      BY <1>1, <1>2 DEF Top
    <3>2. QED
      BY <3>1 DEF OwedBy, Owing
  <2>5. LinkedBy(Pills, Len(list))
    BY <2>2 DEF BranchInv, Linked
  <2>6. QED
    BY <1>1, <1>12, <2>2, <2>3, <2>4, <2>5, LinksKept
<1>18. QED
  BY <1>13, <1>14, <1>15, <1>16, <1>17 DEF BranchInv

\* The response of a run is appended and saved, and what a regenerate wrote where it
\* began gets its group back (ws_run_fork).
LEMMA AnswerKeeps ==
  ASSUME BranchInv, Answer
  PROVE  BranchInv'
<1>1. TypeOK /\ runs \in Seq(Run) /\ ids \in Nat /\ bodies \in Nat /\ runs # <<>>
  BY ChainIs DEF BranchInv, Answer
<1>2. PICK r \in Run : r = Top
  BY <1>1 DEF Top
<1>3. r.tab \in Tabs /\ r.at \in Nat /\ r.group \in Groups /\ r = runs[Len(runs)]
  BY <1>2, BranchNumbers DEF Run, Top
<1>4. PICK t \in Tabs : t = r.tab
  BY <1>3
<1>5. PICK content \in {TRUE, FALSE} :
           /\ content => bodies < MaxBodies
           /\ bodies' = IF content THEN bodies + 1 ELSE bodies
           /\ mem' = IF content THEN [mem EXCEPT ![t] = Say(mem[t])] ELSE mem
  BY <1>2, <1>4 DEF Answer
<1>6. PICK s \in Seq(Message) : s = mem[t]
  BY <1>1, ChainIs
<1>7. Proper(s, ids, bodies)
  BY <1>6 DEF BranchInv, Copied
<1>8. PICK c \in Seq(Message) : c = IF content THEN Say(s) ELSE s
  BY <1>1, <1>5, SayIs
<1>9. /\ mem' \in [Tabs -> Seq(Message)] /\ mem'[t] = c /\ \A u \in Tabs \ {t} : mem'[u] = mem[u]
      /\ BodiesOf(c) = BodiesOf(s) \cup (bodies + 1..bodies') /\ Proper(c, ids, bodies')
      /\ bodies' \in {bodies, bodies + 1} /\ bodies' \in 0..MaxBodies
      /\ \/ content /\ Len(c) = Len(s) + 1 /\ (\A i \in 1..Len(s) : c[i] = s[i])
            /\ c[Len(s) + 1].id = None /\ c[Len(s) + 1].group = None
         \/ ~content /\ c = s
  <2>1. CASE content
    <3>1. bodies < MaxBodies /\ bodies' = bodies + 1 /\ mem' = [mem EXCEPT ![t] = c] /\ c = Say(s)
      BY <1>5, <1>6, <1>8, <2>1
    <3>2. mem' \in [Tabs -> Seq(Message)] /\ mem'[t] = c /\ \A u \in Tabs \ {t} : mem'[u] = mem[u]
      BY <1>1, <3>1, MemIs
    <3>3. /\ Len(c) = Len(s) + 1 /\ (\A i \in 1..Len(s) : c[i] = s[i])
          /\ c[Len(s) + 1].id = None /\ c[Len(s) + 1].group = None
          /\ BodiesOf(c) = BodiesOf(s) \cup {bodies + 1} /\ Proper(c, ids, bodies + 1)
      BY <1>1, <1>7, <3>1, SayIs
    <3>4. (bodies + 1..bodies') = {bodies + 1} /\ bodies' \in 0..MaxBodies
      BY <1>1, <3>1, BranchNumbers
    <3>5. QED
      BY <2>1, <3>1, <3>2, <3>3, <3>4
  <2>2. CASE ~content
    <3>1. bodies' = bodies /\ mem' = mem /\ c = s
      BY <1>5, <1>8, <2>2
    <3>2. (bodies + 1..bodies') = {} /\ bodies' \in 0..MaxBodies
      BY <1>1, <3>1 DEF TypeOK
    <3>3. mem' \in [Tabs -> Seq(Message)]
      BY <1>1, <3>1 DEF TypeOK
    <3>4. QED
      BY <1>6, <1>7, <2>2, <3>1, <3>2, <3>3
  <2>3. QED
    BY <2>1, <2>2
<1>10. PICK u \in Seq(Run) : u = SubSeq(runs, 1, Len(runs) - 1) /\ Popped(runs, r, u)
  <2>1. PICK u : u = SubSeq(runs, 1, Len(runs) - 1)
    OBVIOUS
  <2>2. Popped(runs, r, u)
    BY <1>1, <1>3, <2>1, PopIs
  <2>3. QED
    BY <2>1, <2>2 DEF Popped
<1>11. /\ runs' = u /\ clock' = clock
       /\ IF r.group # None THEN Save(t, Tagged(c, r.at, r.group), None) /\ ids' = (IF r.at \in DOMAIN c THEN ids + 1 ELSE ids)
                            ELSE Save(t, c, None) /\ ids' = ids
  BY <1>2, <1>4, <1>9, <1>10 DEF Answer, Pop
<1>12. /\ Owing(u) = Owing(runs) \ {Len(runs)} /\ (\A i \in Owing(u) : u[i] = runs[i] /\ i \in Owing(runs))
       /\ r.group # None => Len(runs) \in Owing(runs)
       /\ OwedBy(runs) \subseteq OwedBy(u) \cup {r.group}
       /\ Cardinality(Owing(runs)) \in Nat
       /\ Cardinality(Owing(u)) = IF r.group = None THEN Cardinality(Owing(runs)) ELSE Cardinality(Owing(runs)) - 1
  BY <1>10 DEF Popped
<1>13. ids + Cardinality(Owing(runs)) <= 2 * chains /\ chains <= MaxForks /\ chains \in Nat
  BY BranchNumbers DEF BranchInv, IdsLeft, TypeOK, Groups
<1>14. r.group # None => WritesAt(r)
  BY <1>3, <1>12 DEF BranchInv, Writing
<1>15. PICK d : d = IF r.group # None THEN Tagged(c, r.at, r.group) ELSE c
  OBVIOUS
<1>16. Save(t, d, None)
  BY <1>11, <1>15
<1>17. r.group # None => Untagged(c, r.at) /\ ids < 2 * MaxForks
  <2>1. SUFFICES ASSUME r.group # None
                 PROVE  ids < 2 * MaxForks /\ Untagged(c, r.at)
    OBVIOUS
  <2>2. Cardinality(Owing(u)) \in Nat
    <3>1. IsFiniteSet(1..Len(u)) /\ Owing(u) \in SUBSET (1..Len(u))
      BY FS_Interval DEF Owing
    <3>2. QED
      BY <3>1, FS_Subset, FS_CardinalityType
  <2>3. ids < 2 * MaxForks
    BY <1>1, <1>12, <1>13, <2>1, <2>2, BranchNumbers
  <2>4. r.at \in 1..Len(s) + 1 /\ \A j \in r.at..Len(s) : s[j].id = None /\ s[j].group = None
    BY <1>4, <1>6, <1>14, <2>1 DEF WritesAt
  <2>5. ASSUME r.at \in 1..Len(c) PROVE c[r.at].id = None /\ c[r.at].group = None
    <3>1. Len(s) \in Nat
      OBVIOUS
    <3>2. CASE r.at = Len(s) + 1
      BY <1>9, <2>5, <3>1, <3>2
    <3>3. CASE r.at # Len(s) + 1
      <4>1. r.at \in r.at..Len(s) /\ r.at \in 1..Len(s)
        BY <1>3, <2>4, <3>1, <3>3
      <4>2. c[r.at] = s[r.at]
        BY <1>9, <4>1
      <4>3. QED
        BY <2>4, <4>1, <4>2
    <3>4. QED
      BY <3>2, <3>3
  <2>6. QED
    BY <2>3, <2>5 DEF Untagged
<1>18. /\ d \in Seq(Message) /\ Len(d) = Len(c) /\ (\A i \in 1..Len(c) : d[i].body = c[i].body /\ c[i].id \in {None, d[i].id})
       /\ BodiesOf(d) = BodiesOf(c) /\ GroupsOf(c) \subseteq GroupsOf(d)
       /\ (r.group # None /\ r.at \in 1..Len(c) => r.group \in GroupsOf(d))
       /\ Proper(d, ids', bodies') /\ ids' \in {ids, ids + 1} /\ ids' \in Ids
       /\ (r.group = None => ids' = ids)
  <2>1. CASE r.group = None
    BY <1>1, <1>9, <1>11, <1>15, <2>1 DEF TypeOK
  <2>2. CASE r.group # None
    <3>1. d = Tagged(c, r.at, r.group)
      BY <1>15, <2>2
    <3>2. /\ d \in Seq(Message) /\ Len(d) = Len(c) /\ (\A i \in 1..Len(c) : d[i].body = c[i].body)
          /\ (\A i \in 1..Len(c) : c[i].id \in {None, d[i].id})
          /\ BodiesOf(d) = BodiesOf(c) /\ GroupsOf(c) \subseteq GroupsOf(d)
          /\ (r.at \in 1..Len(c) => r.group \in GroupsOf(d))
          /\ \A n \in Nat : Proper(c, ids, n) => Proper(d, ids + 1, n) /\ (r.at \notin 1..Len(c) => Proper(d, ids, n))
      <4>1. IsTagged(c, r.at, r.group, d)
        BY <1>1, <1>3, <1>17, <2>2, <3>1, TaggedIs
      <4>2. QED
        BY <4>1 DEF IsTagged
    <3>3. bodies' \in Nat /\ DOMAIN c = 1..Len(c)
      BY <1>1, <1>9
    <3>4. ids' = IF r.at \in 1..Len(c) THEN ids + 1 ELSE ids
      BY <1>11, <2>2, <3>3
    <3>5. Proper(d, ids', bodies')
      BY <1>9, <3>2, <3>3, <3>4
    <3>6. ids' \in {ids, ids + 1} /\ ids' \in Ids
      BY <1>1, <1>17, <2>2, <3>4, BranchNumbers DEF Ids
    <3>7. QED
      BY <2>2, <3>2, <3>5, <3>6
  <2>3. QED
    BY <2>1, <2>2
<1>19. /\ live' = d /\ birth' = birth /\ list' = list /\ chain' = chain /\ chains' = chains
       /\ behind' = behind \cup (Tabs \ {t}) /\ stale' = (stale \/ t \in behind)
       /\ (untagged' <=> untagged \/ ~(GroupsOf(live) \subseteq GroupsOf(d) \union {None}))
       /\ untagged' \in BOOLEAN
  BY <1>1, <1>16 DEF Save, Outdate, TypeOK
<1>20. TypeOK'
  BY <1>1, <1>9, <1>11, <1>18, <1>19 DEF TypeOK
<1>21. Born' /\ Chained' /\ Copied' /\ UpToDate' /\ NoneLost'
  <2>1. BodiesOf(d) = BodiesOf(mem[t]) \cup (bodies + 1..bodies')
    BY <1>6, <1>9, <1>18
  <2>2. Proper(mem[t], ids, bodies)'
    <3>1. Proper(c, ids', bodies')
      <4>1. (\A i \in 1..Len(c) : c[i].id \in Nat)
        <5>1. \A i \in 1..Len(c) : c[i] \in Message
          OBVIOUS
        <5>2. QED
          BY <5>1, MessageIs
      <4>2. QED
        BY <1>1, <1>9, <1>18, <4>1 DEF Proper
    <3>2. QED
      BY <1>9, <3>1 DEF Proper
  <2>3. ASSUME NEW i \in 1..Len(d) PROVE mem'[t][i].body = d[i].body /\ mem'[t][i].id \in {None, d[i].id}
    BY <1>9, <1>18
  <2>4. Len(d) = Len(mem[t])' /\ clock' = clock
    BY <1>9, <1>11, <1>18
  <2>5. QED
    BY <1>9, <1>16, <1>18, <2>1, <2>2, <2>3, <2>4, SavedKeeps
<1>22. Writing'
  <2>1. \/ mem'[t] = mem[t] /\ None = None
        \/ /\ Len(mem'[t]) = Len(mem[t]) + 1 /\ \A i \in 1..Len(mem[t]) : mem'[t][i] = mem[t][i]
           /\ mem'[t][Len(mem[t]) + 1].id = None /\ mem'[t][Len(mem[t]) + 1].group = None
    BY <1>6, <1>9
  <2>2. runs' \in Seq(Run) /\ \A i \in Owing(runs') : i \in Owing(runs) /\ runs'[i] = runs[i]
    BY <1>11, <1>12
  <2>3. QED
    BY <1>9, <1>16, <1>18, <2>1, <2>2, WritingSaved
<1>23. IdsLeft'
  <2>1. Owing(runs)' = Owing(u)
    BY <1>11 DEF Owing
  <2>2. ids' + Cardinality(Owing(u)) <= 2 * chains
    <3>1. CASE r.group = None
      BY <1>12, <1>13, <1>18, <3>1
    <3>2. CASE r.group # None
      <4>1. Cardinality(Owing(u)) = Cardinality(Owing(runs)) - 1
        BY <1>12, <3>2
      <4>2. QED
        BY <1>1, <1>12, <1>13, <1>18, <4>1
    <3>3. QED
      BY <3>1, <3>2
  <2>3. QED
    BY <1>19, <2>1, <2>2 DEF IdsLeft
<1>24. Linked'
  <2>1. SUFFICES ASSUME ~stale', ~untagged' PROVE LinkedBy(Pills, Len(list))'
    BY DEF Linked
  <2>2. ~stale /\ ~untagged /\ GroupsOf(live) \subseteq GroupsOf(d) \cup {None} /\ None \notin GroupsOf(live) /\ t \notin behind
    BY <1>1, <1>19, <2>1 DEF TypeOK, GroupsOf
  <2>3. GroupsOf(live)' = GroupsOf(d) /\ OwedBy(runs)' = OwedBy(u)
    BY <1>11, <1>19 DEF GroupsOf, OwedBy, Owing
  <2>4. OwedBy(runs) \subseteq GroupsOf(d) \cup OwedBy(u)
    <3>1. CASE r.group = None
      <4>1. None \notin OwedBy(runs)
        BY DEF OwedBy, Owing
      <4>2. QED
        BY <1>12, <3>1, <4>1
    <3>2. CASE r.group # None
      <4>1. CASE r.at \in 1..Len(c)
        BY <1>12, <1>18, <3>2, <4>1
      <4>2. CASE r.at \notin 1..Len(c)
        <5>1. r.at \in 1..Len(s) + 1 /\ (r.group \in GroupsOf(live) \/ r.at <= Len(s))
          BY <1>4, <1>6, <1>14, <2>2, <3>2 DEF WritesAt
        <5>2. Len(c) >= Len(s) /\ Len(s) \in Nat /\ Len(c) \in Nat
          BY <1>9
        <5>3. r.group \in GroupsOf(live)
          BY <1>3, <4>2, <5>1, <5>2
        <5>4. r.group \in GroupsOf(d)
          BY <2>2, <3>2, <5>3
        <5>5. QED
          BY <1>12, <5>4
      <4>3. QED
        BY <4>1, <4>2
    <3>3. QED
      BY <3>1, <3>2
  <2>5. LinkedBy(Pills, Len(list))
    BY <2>2 DEF BranchInv, Linked
  <2>6. QED
    BY <1>1, <1>19, <2>2, <2>3, <2>4, <2>5, LinksKept
<1>25. QED
  BY <1>20, <1>21, <1>22, <1>23, <1>24 DEF BranchInv

\* The message an edit forks at is the one the page meant, when its tab is up to date
\* (branch_find_fork_index: by its id where it has one, else by its index).
LEMMA ForkIndexIs ==
  ASSUME BranchInv, NEW t \in Tabs, t \notin behind, NEW i \in Shown(t), NEW id \in KnownIds(t, i),
         ForkIndex(id, i) \in DOMAIN live
  PROVE  ForkIndex(id, i) = i
<1>1. PICK l \in Seq(Message) : l = live
  BY DEF BranchInv, TypeOK
<1>2. PICK m \in Seq(Message) : m = mem[t]
  BY ChainIs DEF BranchInv
<1>3. \A j, k \in 1..Len(l) : l[j].id # None /\ l[j].id = l[k].id => j = k
  <2>1. Chain(0) = live /\ 0 \in 0..Len(list)
    BY ChainIs DEF BranchInv
  <2>2. Proper(live, ids, bodies)
    BY <2>1 DEF BranchInv, Chained
  <2>3. QED
    BY <1>1, <2>2 DEF Proper
<1>4. (\A j \in 1..Len(m) : m[j].id \in {None, l[j].id}) /\ Len(m) <= Len(l) /\ Len(m) \in Nat /\ Len(l) \in Nat
  BY <1>1, <1>2 DEF BranchInv, UpToDate, Follows
<1>5. DOMAIN l = 1..Len(l) /\ DOMAIN m = 1..Len(m)
  OBVIOUS
<1>6. id = None \/ (i \in 1..Len(l) /\ id = l[i].id)
  <2>1. id = None \/ (i \in DOMAIN l /\ id = l[i].id) \/ (i \in DOMAIN m /\ id = m[i].id)
    BY <1>1, <1>2 DEF KnownIds
  <2>2. CASE i \in DOMAIN m /\ id = m[i].id
    <3>1. i \in 1..Len(l) /\ id \in {None, l[i].id}
      BY <1>4, <1>5, <2>2
    <3>2. QED
      BY <3>1
  <2>3. QED
    BY <1>5, <2>1, <2>2
<1>7. CASE id = None
  BY <1>7 DEF ForkIndex
<1>8. CASE id # None /\ i \in 1..Len(l) /\ id = l[i].id
  <2>1. {j \in DOMAIN live : id # None /\ live[j].id = id} = {i}
    BY <1>1, <1>3, <1>5, <1>8
  <2>2. PICK S : S = {j \in DOMAIN live : id # None /\ live[j].id = id}
    OBVIOUS
  <2>3. ForkIndex(id, i) = CHOOSE j \in S : \A k \in S : j <= k
    BY <2>1, <2>2 DEF ForkIndex
  <2>4. (CHOOSE j \in S : \A k \in S : j <= k) = i
    BY <2>1, <2>2, <1>8
  <2>5. QED
    BY <2>3, <2>4
<1>9. QED
  BY <1>6, <1>7, <1>8

\* An edit forks and runs (ws_run_fork).
LEMMA EditKeeps ==
  ASSUME BranchInv, NEW t \in Tabs, Edit(t)
  PROVE  BranchInv'
<1>0. PICK i \in Shown(t) : \E id \in KnownIds(t, i) :
        /\ Idle(t) /\ bodies < MaxBodies
        /\ Fork(t, ForkIndex(id, i), bodies + 1)
        /\ mem' = [mem EXCEPT ![t] = Append(SubSeq(mem[t], 1, Shorter(i - 1, Len(mem[t]))), ForkCopy(ForkIndex(id, i), bodies + 1))]
        /\ bodies' = bodies + 1 /\ Push(t, 0, None) /\ stale' = stale
  BY DEF Edit
<1>1. PICK id \in KnownIds(t, i) :
        /\ Idle(t) /\ bodies < MaxBodies
        /\ Fork(t, ForkIndex(id, i), bodies + 1)
        /\ mem' = [mem EXCEPT ![t] = Append(SubSeq(mem[t], 1, Shorter(i - 1, Len(mem[t]))), ForkCopy(ForkIndex(id, i), bodies + 1))]
        /\ bodies' = bodies + 1 /\ Push(t, 0, None) /\ stale' = stale
  BY <1>0
<1>2. PICK n : n = ForkIndex(id, i)
  OBVIOUS
<1>3. /\ TypeOK /\ live \in Seq(Message) /\ Len(live) \in Nat /\ runs \in Seq(Run) /\ DOMAIN live = 1..Len(live)
      /\ ids \in Nat /\ bodies \in Nat /\ chains \in Nat
  BY ChainIs DEF BranchInv
<1>4. Fork(t, n, bodies + 1) /\ n \in 1..Len(live) /\ bodies + 1 \in 1..MaxBodies
  <2>1. n \in DOMAIN live
    BY <1>1, <1>2 DEF Fork
  <2>2. QED
    BY <1>1, <1>2, <1>3, <2>1, BranchNumbers
<1>5. PICK s \in Seq(Message) : s = mem[t]
  BY <1>3, ChainIs
<1>6. Proper(s, ids, bodies) /\ Len(s) \in Nat /\ Len(s) <= bodies
  BY <1>5 DEF BranchInv, Copied, Proper
<1>7. i \in Nat /\ i >= 1
  BY <1>3, <1>5 DEF Shown
<1>8. PICK k \in Nat : k = Shorter(i - 1, Len(s)) /\ k <= Len(s) /\ (i - 1 <= Len(s) => k = i - 1)
  BY <1>6, <1>7 DEF Shorter
<1>9. /\ chains < MaxForks /\ ids < 2 * MaxForks /\ ids' = ids + 1 /\ ids' \in Ids
      /\ chain' = chains + 1 /\ chains' = chains + 1 /\ chains' \in Groups
      /\ clock' = birth' /\ birth' \in Births
      /\ list' \in Seq(Record)
      /\ live' \in Seq(Message) /\ Len(live') = n
      /\ live'[n] = ForkCopy(n, bodies + 1) /\ \A j \in 1..n - 1 : live'[j] = live[j]
      /\ behind' = behind \cup (Tabs \ {t})
      /\ (untagged' <=> untagged \/ \E r \in Elements(runs) : r.group \notin GroupsOf(live) \union {None})
  BY <1>4, ForkIs
<1>10. PICK m \in Message : m = ForkCopy(n, bodies + 1) /\ m.body = bodies + 1 /\ m.id = ids + 1
  BY <1>3, <1>4, <1>9, ForkCopyIs
<1>11. PICK c : c = Append(SubSeq(s, 1, k), m)
  OBVIOUS
<1>12. c \in Seq(Message) /\ Len(c) = k + 1 /\ c[k + 1] = m /\ \A j \in 1..k : c[j] = s[j]
  BY <1>6, <1>8, <1>11, CutAppend
<1>13. mem' \in [Tabs -> Seq(Message)] /\ mem'[t] = c /\ \A u \in Tabs \ {t} : mem'[u] = mem[u]
  BY <1>1, <1>2, <1>3, <1>5, <1>8, <1>10, <1>11, <1>12, MemIs
<1>14. Proper(mem[t], ids, bodies)'
  <2>1. PICK b \in Nat : b = bodies + 1
    BY <1>3
  <2>2. k + 1 <= b
    BY <1>3, <1>6, <1>8, <2>1
  <2>3. Proper(c, ids + 1, b)
    <3>1. PICK b0 \in Nat : b0 = bodies
      BY <1>3
    <3>2. Proper(s, ids, b0) /\ ids \in Nat /\ m.id = ids + 1 /\ k <= Len(s) /\ c = Append(SubSeq(s, 1, k), m)
      BY <1>3, <1>6, <1>8, <1>10, <1>11, <3>1
    <3>3. QED
      BY <2>2, <3>2, ForkedProper
  <2>4. Proper(c, ids', bodies') /\ mem'[t] = c
    BY <1>1, <1>9, <1>13, <2>1, <2>3
  <2>5. QED
    BY <2>4 DEF Proper
<1>15. Born' /\ Chained' /\ Copied' /\ NoneLost' /\ Linked'
  BY <1>1, <1>4, <1>13, <1>14, ForkKeeps
<1>16. PICK r \in Run : r = [tab |-> t, at |-> 0, group |-> None]
  <2>1. 0 \in 0..MaxBodies /\ None \in Groups
    BY BranchNumbers DEF Groups, None
  <2>2. QED
    BY <2>1 DEF Run
<1>17. PICK u \in Seq(Run) : u = Append(runs, r) /\ r.group = None
  <2>1. Append(runs, r) \in Seq(Run)
    BY <1>3
  <2>2. QED
    BY <1>16, <2>1
<1>18. runs' = u
  BY <1>1, <1>16, <1>17 DEF Push
<1>19. Pushed(runs, r, u)
  BY <1>3, <1>17, PushIs
<1>20. Owing(u) = Owing(runs) /\ \A j \in Owing(runs) : u[j] = runs[j]
  BY <1>17, <1>19 DEF Pushed
<1>21. TypeOK'
  <2>1. behind' \subseteq Tabs /\ untagged' \in BOOLEAN
    <3>1. behind \subseteq Tabs /\ untagged \in BOOLEAN
      BY <1>3 DEF TypeOK
    <3>2. behind' \subseteq Tabs
      BY <1>9, <3>1
    <3>3. untagged' \in BOOLEAN
      BY <1>4, <3>1 DEF Fork, LeaveUntagged
    <3>4. QED
      BY <3>2, <3>3
  <2>2. bodies' \in 0..MaxBodies /\ chain' \in Groups
    BY <1>1, <1>3, <1>9, BranchNumbers
  <2>3. QED
    BY <1>1, <1>3, <1>9, <1>13, <1>18, <2>1, <2>2 DEF TypeOK
<1>22. IdsLeft'
  <2>1. ids + Cardinality(Owing(runs)) <= 2 * chains /\ Cardinality(Owing(runs)) \in Nat
    BY <1>19 DEF BranchInv, IdsLeft, Pushed
  <2>2. Owing(runs)' = Owing(runs)
    BY <1>18, <1>20 DEF Owing
  <2>3. PICK w \in Nat : w = Cardinality(Owing(runs))
    BY <2>1
  <2>4. Cardinality(Owing(runs)') = w
    BY <2>2, <2>3
  <2>5. ids + w <= 2 * chains /\ ids + 1 + w <= 2 * (chains + 1)
    BY <1>3, <2>1, <2>3
  <2>6. QED
    BY <1>9, <2>4, <2>5 DEF IdsLeft
<1>23. Writing'
  <2>1. ASSUME NEW j \in Owing(u) PROVE WritesAt(u[j])'
    <3>1. j \in Owing(runs) /\ u[j] = runs[j] /\ runs[j] \in Run
      BY <1>3, <1>20, <2>1, RunIs
    <3>2. \A q \in Run : q = runs[j] => WritesAt(q)'
      BY <1>1, <1>9, <1>13, <3>1, WritingLeft
    <3>3. QED
      BY <3>1, <3>2
  <2>2. QED
    BY <1>18, <2>1 DEF Writing, WritesAt
<1>24. UpToDate'
  <2>1. ASSUME NEW x \in Tabs, x \notin behind' PROVE Follows(x)'
    <3>1. x = t /\ t \notin behind
      BY <1>9, <2>1
    <3>2. Follows(t)
      BY <3>1 DEF BranchInv, UpToDate
    <3>3. n = i
      <4>1. ForkIndex(id, i) \in DOMAIN live
        BY <1>2, <1>3, <1>4
      <4>2. QED
        BY <1>2, <3>1, <4>1, ForkIndexIs
    <3>4. /\ Len(live) <= Len(s) + 1 /\ Len(s) <= Len(live)
          /\ \A j \in 1..Len(s) : s[j].body = live[j].body /\ s[j].id \in {None, live[j].id}
      <4>1. Len(live) \in Nat /\ Len(s) \in Nat /\ (Len(live) = Len(s) \/ Len(live) = Len(s) + 1)
        <5>1. Len(live) = Len(s) \/ Len(live) = Len(s) + 1
          BY <1>5, <3>2 DEF Follows
        <5>2. QED
          BY <1>3, <1>6, <5>1
      <4>2. \A j \in 1..Len(s) : s[j].body = live[j].body /\ s[j].id \in {None, live[j].id}
        BY <1>5, <3>2 DEF Follows
      <4>3. QED
        BY <4>1, <4>2
    <3>5. k = n - 1 /\ Len(c) = n /\ c[n] = m
      BY <1>3, <1>4, <1>6, <1>7, <1>8, <1>12, <3>3, <3>4
    <3>6. ASSUME NEW j \in 1..n PROVE c[j].body = live'[j].body /\ c[j].id \in {None, live'[j].id}
      <4>1. CASE j = n
        BY <1>9, <1>10, <3>5, <4>1
      <4>2. CASE j # n
        <5>1. j \in 1..n - 1 /\ j \in 1..Len(s)
          BY <1>4, <1>8, <3>5, <4>2
        <5>2. c[j] = s[j] /\ live'[j] = live[j]
          BY <1>9, <1>12, <3>5, <5>1
        <5>3. QED
          BY <3>4, <5>1, <5>2
      <4>3. QED
        BY <4>1, <4>2
    <3>7. QED
      BY <1>9, <1>13, <3>1, <3>5, <3>6 DEF Follows
  <2>2. QED
    BY <2>1 DEF UpToDate
<1>25. QED
  BY <1>15, <1>21, <1>22, <1>23, <1>24 DEF BranchInv

\* A chain cut short is proper.
LEMMA CutProper ==
  ASSUME NEW s \in Seq(Message), ids \in Nat, NEW b \in Nat, Proper(s, ids, b), NEW n \in Nat, n <= Len(s), NEW t, t = SubSeq(s, 1, n)
  PROVE  Proper(t, ids + 1, b)
<1>1. t \in Seq(Message) /\ Len(t) = n /\ (\A i \in 1..n : t[i] = s[i]) /\ Len(s) \in Nat
  OBVIOUS
<1>2. Len(s) <= b /\ (\A i \in 1..Len(s) : s[i].id <= ids) /\ \A i, j \in 1..Len(s) : s[i].id # None /\ s[i].id = s[j].id => i = j
  BY DEF Proper
<1>3. ASSUME NEW i \in 1..n PROVE t[i].id <= ids + 1
  <2>1. i \in 1..Len(s) /\ s[i] \in Message
    BY <1>1
  <2>2. s[i].id \in Nat /\ s[i].id <= ids /\ t[i] = s[i]
    BY <1>1, <1>2, <2>1, MessageIs
  <2>3. QED
    BY <2>2
<1>4. ASSUME NEW i \in 1..n, NEW j \in 1..n, t[i].id # None, t[i].id = t[j].id PROVE i = j
  BY <1>1, <1>2, <1>4
<1>5. Len(t) <= b
  BY <1>1, <1>2
<1>6. QED
  BY <1>1, <1>3, <1>4, <1>5 DEF Proper

\* A regenerate forks with the body it replaces and owes the group until its answer
\* (ws_handle_regenerate).
LEMMA RegenerateKeeps ==
  ASSUME BranchInv, NEW t \in Tabs, Regenerate(t)
  PROVE  BranchInv'
<1>1. PICK n : /\ Idle(t) /\ n \in DOMAIN mem[t]
               /\ Fork(t, n, live[n].body)
               /\ mem' = [mem EXCEPT ![t] = SubSeq(mem[t], 1, n - 1)]
               /\ Push(t, n, ForkGroup(n))
               /\ bodies' = bodies /\ stale' = stale
  BY DEF Regenerate
<1>3. /\ TypeOK /\ live \in Seq(Message) /\ Len(live) \in Nat /\ runs \in Seq(Run) /\ DOMAIN live = 1..Len(live)
      /\ ids \in Nat /\ bodies \in Nat /\ chains \in Nat
  BY ChainIs DEF BranchInv
<1>4. n \in 1..Len(live) /\ live[n] \in Message /\ live[n].body \in 1..MaxBodies
  <2>1. n \in 1..Len(live)
    BY <1>1, <1>3 DEF Fork
  <2>2. live[n] \in Message
    BY <1>3, <2>1
  <2>3. QED
    BY <2>1, <2>2, MessageIs
<1>5. PICK s \in Seq(Message) : s = mem[t]
  BY <1>3, ChainIs
<1>6. Proper(s, ids, bodies) /\ Len(s) \in Nat /\ Len(s) <= bodies /\ n \in 1..Len(s)
  BY <1>1, <1>5 DEF BranchInv, Copied, Proper
<1>9. /\ chains < MaxForks /\ ids < 2 * MaxForks /\ ids' = ids + 1 /\ ids' \in Ids
      /\ chain' = chains + 1 /\ chains' = chains + 1 /\ chains' \in Groups
      /\ clock' = birth' /\ birth' \in Births
      /\ list' \in Seq(Record) /\ Len(list') = Len(list) + 1
      /\ list'[Len(list) + 1] = [chain |-> chain, birth |-> birth, messages |-> PreFork(n)]
      /\ live' \in Seq(Message) /\ Len(live') = n
      /\ live'[n] = ForkCopy(n, live[n].body) /\ \A j \in 1..n - 1 : live'[j] = live[j]
      /\ behind' = behind \cup (Tabs \ {t})
      /\ (untagged' <=> untagged \/ \E r \in Elements(runs) : r.group \notin GroupsOf(live) \union {None})
  BY <1>1, <1>4, ForkIs
<1>10. PICK m \in Message : m = ForkCopy(n, live[n].body) /\ m.body = live[n].body /\ m.id = ids + 1 /\ m.group = ForkGroup(n)
  BY <1>3, <1>4, <1>9, ForkCopyIs
<1>11. PICK c : c = SubSeq(s, 1, n - 1)
  OBVIOUS
<1>12. c \in Seq(Message) /\ Len(c) = n - 1 /\ (\A j \in 1..n - 1 : c[j] = s[j]) /\ Proper(c, ids + 1, bodies)
  <2>1. PICK k \in Nat : k = n - 1 /\ k <= Len(s)
    BY <1>6
  <2>2. PICK b \in Nat : b = bodies
    BY <1>3
  <2>3. Proper(s, ids, b) /\ ids \in Nat /\ c = SubSeq(s, 1, k)
    BY <1>3, <1>6, <1>11, <2>1, <2>2
  <2>4. Proper(c, ids + 1, b)
    BY <2>1, <2>3, CutProper
  <2>5. c \in Seq(Message) /\ Len(c) = k /\ \A i \in 1..k : c[i] = s[i]
    BY <2>1, <2>3
  <2>6. QED
    BY <2>1, <2>2, <2>4, <2>5
<1>13. mem' \in [Tabs -> Seq(Message)] /\ mem'[t] = c /\ \A u \in Tabs \ {t} : mem'[u] = mem[u]
  BY <1>1, <1>3, <1>5, <1>11, <1>12, MemIs
<1>14. Proper(mem[t], ids, bodies)'
  BY <1>1, <1>9, <1>12, <1>13 DEF Proper
<1>15. Born' /\ Chained' /\ Copied' /\ NoneLost' /\ Linked'
  BY <1>1, <1>4, <1>13, <1>14, ForkKeeps
<1>7. ForkGroup(n) \in Groups /\ ForkGroup(n) # None /\ BodiesOf(PreFork(n)) = BodiesOf(live)
  BY <1>3, <1>4, <1>9, PreForkIs
<1>16. PICK r \in Run : r = [tab |-> t, at |-> n, group |-> ForkGroup(n)]
  <2>1. n \in 0..MaxBodies
    BY <1>3, <1>6, BranchNumbers DEF TypeOK
  <2>2. QED
    BY <1>7, <2>1 DEF Run
<1>17. PICK u \in Seq(Run) : u = Append(runs, r) /\ r.group = ForkGroup(n) /\ r.tab = t /\ r.at = n
  <2>1. Append(runs, r) \in Seq(Run)
    BY <1>3
  <2>2. QED
    BY <1>16, <2>1
<1>18. runs' = u
  BY <1>1, <1>16, <1>17 DEF Push
<1>19. Pushed(runs, r, u)
  BY <1>3, <1>17, PushIs
<1>20. /\ Owing(u) = Owing(runs) \cup {Len(runs) + 1} /\ u[Len(runs) + 1] = r /\ (\A j \in Owing(runs) : u[j] = runs[j])
       /\ Cardinality(Owing(runs)) \in Nat /\ Cardinality(Owing(u)) = Cardinality(Owing(runs)) + 1
  BY <1>7, <1>17, <1>19 DEF Pushed
<1>21. TypeOK'
  <2>1. behind' \subseteq Tabs /\ untagged' \in BOOLEAN
    <3>1. behind \subseteq Tabs /\ untagged \in BOOLEAN
      BY <1>3 DEF TypeOK
    <3>2. behind' \subseteq Tabs
      BY <1>9, <3>1
    <3>3. untagged' \in BOOLEAN
      BY <1>1, <3>1 DEF Fork, LeaveUntagged
    <3>4. QED
      BY <3>2, <3>3
  <2>2. bodies' \in 0..MaxBodies /\ chain' \in Groups
    BY <1>1, <1>3, <1>9 DEF TypeOK
  <2>3. QED
    BY <1>1, <1>3, <1>9, <1>13, <1>18, <2>1, <2>2 DEF TypeOK
<1>22. IdsLeft'
  <2>1. ids + Cardinality(Owing(runs)) <= 2 * chains
    BY DEF BranchInv, IdsLeft
  <2>2. Owing(runs)' = Owing(u)
    BY <1>18 DEF Owing
  <2>3. PICK w \in Nat : w = Cardinality(Owing(runs)) /\ Cardinality(Owing(u)) = w + 1
    BY <1>20
  <2>4. ids + w <= 2 * chains /\ ids + 1 + (w + 1) <= 2 * (chains + 1)
    BY <1>3, <2>1, <2>3
  <2>5. Cardinality(Owing(runs)') = w + 1
    BY <2>2, <2>3
  <2>6. QED
    BY <1>9, <2>4, <2>5 DEF IdsLeft
<1>23. Writing'
  <2>1. ASSUME NEW j \in Owing(runs) PROVE WritesAt(u[j])'
    <3>1. u[j] = runs[j] /\ runs[j] \in Run
      BY <1>3, <1>20, <2>1, RunIs
    <3>2. \A q \in Run : q = runs[j] => WritesAt(q)'
      BY <1>1, <1>9, <1>13, <2>1, WritingLeft
    <3>3. QED
      BY <3>1, <3>2
  <2>2. WritesAt(r)'
    <3>1. r.group \in GroupsOf(live)'
      <4>1. PICK l \in Seq(Message) : l = live'
        BY <1>9
      <4>2. n \in 1..Len(l) /\ l[n].group = ForkGroup(n)
        <5>1. Len(l) = n /\ l[n] = m
          BY <1>9, <1>10, <4>1
        <5>2. QED
          BY <1>4, <1>10, <5>1
      <4>3. ForkGroup(n) \in GroupsOf(l)
        BY <1>7, <4>2, OfIs
      <4>4. QED
        BY <1>17, <4>1, <4>3 DEF GroupsOf
    <3>2. r.at \in 1..Len(c) + 1 /\ r.at..Len(c) = {}
      BY <1>6, <1>12, <1>17
    <3>3. QED
      BY <1>13, <1>17, <3>1, <3>2 DEF WritesAt
  <2>3. ASSUME NEW j \in Owing(u) PROVE WritesAt(u[j])'
    <3>1. CASE j \in Owing(runs)
      BY <2>1, <3>1
    <3>2. CASE j = Len(runs) + 1
      <4>1. u[j] = r
        BY <1>20, <3>2
      <4>2. QED
        BY <2>2, <4>1
    <3>3. QED
      BY <1>20, <3>1, <3>2
  <2>4. QED
    BY <1>18, <2>3 DEF Writing, WritesAt
<1>24. UpToDate'
  <2>1. ASSUME NEW x \in Tabs, x \notin behind' PROVE Follows(x)'
    <3>1. x = t /\ t \notin behind
      BY <1>9, <2>1
    <3>2. \A j \in 1..Len(s) : s[j].body = live[j].body /\ s[j].id \in {None, live[j].id}
      BY <1>5, <3>1 DEF BranchInv, UpToDate, Follows
    <3>3. ASSUME NEW j \in 1..n - 1 PROVE c[j].body = live'[j].body /\ c[j].id \in {None, live'[j].id}
      <4>1. c[j] = s[j] /\ live'[j] = live[j] /\ j \in 1..Len(s)
        BY <1>6, <1>9, <1>12
      <4>2. QED
        BY <3>2, <4>1
    <3>4. PICK N \in Nat : N = Len(list)
      BY ChainIs DEF BranchInv
    <3>5. live'[n].body \in BodiesOf(list'[N + 1].messages)
      <4>1. list'[N + 1].messages = PreFork(n)
        BY <1>9, <3>4
      <4>2. live[n].body \in BodiesOf(live)
        BY <1>3, <1>4, OfIs
      <4>3. live'[n].body = live[n].body
        BY <1>9, <1>10
      <4>4. QED
        BY <1>7, <4>1, <4>2, <4>3
    <3>6. \E j \in 1..Len(list') : live'[n].body \in BodiesOf(list'[j].messages)
      <4>1. N + 1 \in 1..Len(list')
        BY <1>9, <3>4
      <4>2. QED
        BY <3>5, <4>1
    <3>7. Len(live') = Len(c) + 1 /\ Len(live') = n
      BY <1>4, <1>9, <1>12
    <3>8. (\E j \in 1..Len(list) : live[Len(live)].body \in BodiesOf(list[j].messages))'
      BY <3>6, <3>7 DEF BodiesOf
    <3>9. QED
      BY <1>12, <1>13, <3>1, <3>3, <3>7, <3>8 DEF Follows
  <2>2. QED
    BY <2>1 DEF UpToDate
<1>25. QED
  BY <1>15, <1>21, <1>22, <1>23, <1>24 DEF BranchInv

\* A switch gives the tab the chain that goes live (ws_handle_branch_switch).
LEMMA BranchSwitchKeeps ==
  ASSUME BranchInv, NEW t \in Tabs, BranchSwitch(t)
  PROVE  BranchInv'
<1>1. PICK k \in DOMAIN list : SwitchTo(k)
  BY DEF BranchSwitch
<1>2. /\ Idle(t) /\ clock < MaxClock /\ mem' = [mem EXCEPT ![t] = live'] /\ clock' = clock + 1
      /\ behind' = Tabs \ {t} /\ LeaveUntagged /\ UNCHANGED <<runs, ids, bodies, chains, stale>>
  BY DEF BranchSwitch
<1>3. TypeOK /\ runs \in Seq(Run) /\ ids \in Nat /\ bodies \in Nat /\ chains \in Nat /\ clock \in Nat
  BY ChainIs DEF BranchInv
<1>4. PICK N \in Nat : N = Len(list)
  BY <1>3, ChainIs
<1>5. list' \in Seq(Record) /\ Len(list') = N /\ live' \in Seq(Message) /\ birth' \in Births /\ chain' \in Groups
  <2>1. k \in 1..N
    BY <1>3, <1>4 DEF TypeOK
  <2>2. PICK p : p = Placing(k, N)
    OBVIOUS
  <2>3. QED
    BY <1>1, <1>3, <1>4, <2>1, <2>2, SwitchIs
<1>6. PICK c \in Seq(Message) : c = live'
  BY <1>5
<1>7. mem' \in [Tabs -> Seq(Message)] /\ mem'[t] = c /\ \A u \in Tabs \ {t} : mem'[u] = mem[u]
  BY <1>2, <1>3, <1>6, MemIs
<1>8. Born' /\ Chained' /\ NoneLost' /\ Linked'
  BY <1>1, <1>2, SwitchKeeps
<1>9. Proper(c, ids, bodies)
  <2>1. Proper(Chain(0), ids, bodies)'
    BY <1>4, <1>5, <1>8 DEF Chained
  <2>2. Chain(0)' = c /\ ids' = ids /\ bodies' = bodies
    BY <1>2, <1>6 DEF Chain
  <2>3. QED
    BY <2>1, <2>2 DEF Proper
<1>10. Copied'
  <2>1. ASSUME NEW u \in Tabs PROVE Proper(mem[u], ids, bodies)'
    <3>1. CASE u = t
      <4>1. mem'[u] = c /\ ids' = ids /\ bodies' = bodies
        BY <1>2, <1>7, <3>1
      <4>2. QED
        BY <1>9, <4>1 DEF Proper
    <3>2. CASE u # t
      <4>1. mem'[u] = mem[u] /\ ids' = ids /\ bodies' = bodies /\ Proper(mem[u], ids, bodies)
        BY <1>2, <1>7, <3>2 DEF BranchInv, Copied
      <4>2. QED
        BY <4>1 DEF Proper
    <3>3. QED
      BY <3>1, <3>2
  <2>2. QED
    BY <2>1 DEF Copied
<1>11. TypeOK'
  <2>1. untagged' \in BOOLEAN /\ behind' \subseteq Tabs /\ stale' \in BOOLEAN
    BY <1>2, <1>3 DEF TypeOK, LeaveUntagged
  <2>2. clock' \in Births /\ ids' \in Ids /\ bodies' \in 0..MaxBodies /\ chains' \in Groups /\ runs' \in Seq(Run)
    BY <1>2, <1>3, BranchNumbers DEF TypeOK, Births
  <2>3. QED
    BY <1>5, <1>7, <2>1, <2>2 DEF TypeOK
<1>12. IdsLeft'
  BY <1>2 DEF BranchInv, IdsLeft, Owing
<1>13. Writing'
  <2>1. ASSUME NEW j \in Owing(runs) PROVE WritesAt(runs[j])'
    <3>1. runs[j] \in Run /\ runs' = runs
      BY <1>2, <1>3, <2>1, RunIs
    <3>2. PICK q \in Run : q = runs[j]
      BY <3>1
    <3>3. WritesAt(q)'
      BY <1>2, <1>7, <2>1, <3>2, WritingLeft
    <3>4. QED
      BY <3>1, <3>2, <3>3 DEF WritesAt
  <2>2. QED
    BY <1>2, <2>1 DEF Writing, WritesAt, Owing
<1>14. UpToDate'
  <2>1. ASSUME NEW u \in Tabs, u \notin behind' PROVE Follows(u)'
    <3>1. u = t
      BY <1>2, <2>1
    <3>2. mem'[u] = c /\ live' = c
      BY <1>6, <1>7, <3>1
    <3>3. QED
      BY <3>2 DEF Follows
  <2>2. QED
    BY <2>1 DEF UpToDate
<1>15. QED
  BY <1>8, <1>10, <1>11, <1>12, <1>13, <1>14 DEF BranchInv

\* A connection that replaces another loads the stored chain (ws_handle_session_id).
LEMMA ReconnectKeeps ==
  ASSUME BranchInv, NEW t \in Tabs, Reconnect(t)
  PROVE  BranchInv'
<1>1. /\ Idle(t) /\ mem' = [mem EXCEPT ![t] = live] /\ behind' = behind \ {t}
      /\ UNCHANGED <<live, birth, list, runs, clock, ids, bodies, chain, chains, stale, untagged>>
  BY DEF Reconnect, store
<1>2. TypeOK /\ runs \in Seq(Run)
  BY DEF BranchInv, TypeOK
<1>3. PICK c \in Seq(Message) : c = live
  BY <1>2 DEF TypeOK
<1>4. mem' \in [Tabs -> Seq(Message)] /\ mem'[t] = c /\ \A u \in Tabs \ {t} : mem'[u] = mem[u]
  BY <1>1, <1>2, <1>3, MemIs
<1>5. Born' /\ Chained' /\ NoneLost' /\ Linked' /\ IdsLeft'
  <2>1. Born' /\ Chained' /\ IdsLeft'
    BY <1>1 DEF BranchInv, Born, Number, Birth, Chained, Chain, Proper, IdsLeft, Owing
  <2>2. NoneLost'
    BY <1>1 DEF BranchInv, NoneLost, Written, Chain, BodiesOf
  <2>3. Linked'
    <3>1. GroupsOf(live)' = GroupsOf(live) /\ OwedBy(runs)' = OwedBy(runs) /\ list' = list
      BY <1>1 DEF GroupsOf, OwedBy, Owing
    <3>2. LinkedBy(Pills, Len(list)) => LinkedBy(Pills, Len(list))'
      BY <1>2, <3>1, LinksKept
    <3>3. QED
      BY <1>1, <3>2 DEF BranchInv, Linked
  <2>4. QED
    BY <2>1, <2>2, <2>3
<1>6. Copied'
  <2>1. ASSUME NEW u \in Tabs PROVE Proper(mem[u], ids, bodies)'
    <3>1. CASE u = t
      <4>1. 0 \in 0..Len(list) /\ Chain(0) = live
        BY <1>2, ChainIs
      <4>2. Proper(c, ids, bodies)
        BY <1>3, <4>1 DEF BranchInv, Chained
      <4>3. mem'[u] = c /\ ids' = ids /\ bodies' = bodies
        BY <1>1, <1>4, <3>1
      <4>4. QED
        BY <4>2, <4>3 DEF Proper
    <3>2. CASE u # t
      <4>1. mem'[u] = mem[u] /\ ids' = ids /\ bodies' = bodies /\ Proper(mem[u], ids, bodies)
        BY <1>1, <1>4, <3>2 DEF BranchInv, Copied
      <4>2. QED
        BY <4>1 DEF Proper
    <3>3. QED
      BY <3>1, <3>2
  <2>2. QED
    BY <2>1 DEF Copied
<1>7. TypeOK'
  BY <1>1, <1>2, <1>4 DEF TypeOK
<1>8. Writing'
  <2>1. ASSUME NEW j \in Owing(runs) PROVE WritesAt(runs[j])'
    <3>1. runs[j] \in Run /\ runs' = runs
      BY <1>1, <1>2, <2>1, RunIs
    <3>2. PICK q \in Run : q = runs[j]
      BY <3>1
    <3>3. WritesAt(q)'
      BY <1>1, <1>4, <2>1, <3>2, WritingLeft
    <3>4. QED
      BY <3>1, <3>2, <3>3 DEF WritesAt
  <2>2. QED
    BY <1>1, <2>1 DEF Writing, WritesAt, Owing
<1>9. UpToDate'
  <2>1. ASSUME NEW u \in Tabs, u \notin behind' PROVE Follows(u)'
    <3>1. CASE u = t
      <4>1. mem'[u] = c /\ live' = c
        BY <1>1, <1>3, <1>4, <3>1
      <4>2. QED
        BY <4>1 DEF Follows
    <3>2. CASE u # t
      <4>1. Follows(u) /\ mem'[u] = mem[u] /\ live' = live /\ list' = list
        BY <1>1, <1>4, <2>1, <3>2 DEF BranchInv, UpToDate
      <4>2. QED
        BY <4>1 DEF Follows, BodiesOf
    <3>3. QED
      BY <3>1, <3>2
  <2>2. QED
    BY <2>1 DEF UpToDate
<1>10. QED
  BY <1>5, <1>6, <1>7, <1>8, <1>9 DEF BranchInv

\* A run that brings no response saves nothing; what it owed is counted as untagged
\* (agent_run_loop).
LEMMA NoResponseKeeps ==
  ASSUME BranchInv, NoResponse
  PROVE  BranchInv'
<1>1. TypeOK /\ runs \in Seq(Run) /\ runs # <<>> /\ ids \in Nat /\ chains \in Nat
  BY ChainIs DEF BranchInv, NoResponse
<1>2. PICK r : r = runs[Len(runs)]
  OBVIOUS
<1>3. PICK u : u = SubSeq(runs, 1, Len(runs) - 1)
  OBVIOUS
<1>4. Popped(runs, r, u)
  BY <1>1, <1>2, <1>3, PopIs
<1>5. /\ runs' = u /\ (untagged' <=> untagged \/ ~({r.group} \ {None} \subseteq GroupsOf(live)))
      /\ UNCHANGED <<live, birth, list, mem, clock, ids, bodies, chain, chains, behind, stale>>
  BY <1>2, <1>3 DEF NoResponse, Top, Pop, store
<1>6. Born' /\ Chained' /\ NoneLost' /\ Copied' /\ UpToDate'
  <2>1. Born' /\ Chained' /\ Copied'
    BY <1>5 DEF BranchInv, Born, Number, Birth, Chained, Chain, Proper, Copied
  <2>2. NoneLost'
    BY <1>5 DEF BranchInv, NoneLost, Written, Chain, BodiesOf
  <2>3. UpToDate'
    BY <1>5 DEF BranchInv, UpToDate, Follows, BodiesOf
  <2>4. QED
    BY <2>1, <2>2, <2>3
<1>7. TypeOK'
  <2>1. u \in Seq(Run) /\ untagged' \in BOOLEAN
    BY <1>1, <1>4, <1>5 DEF Popped, TypeOK, NoResponse
  <2>2. QED
    BY <1>1, <1>5, <2>1 DEF TypeOK
<1>8. IdsLeft'
  <2>1. ids + Cardinality(Owing(runs)) <= 2 * chains
    BY DEF BranchInv, IdsLeft
  <2>2. /\ Cardinality(Owing(runs)) \in Nat
        /\ Cardinality(Owing(u)) = Cardinality(Owing(runs)) \/ Cardinality(Owing(u)) = Cardinality(Owing(runs)) - 1
    BY <1>4 DEF Popped
  <2>3. ids + Cardinality(Owing(u)) <= 2 * chains
    BY <1>1, <2>1, <2>2
  <2>4. Owing(runs)' = Owing(u) /\ ids' = ids /\ chains' = chains
    BY <1>5 DEF Owing
  <2>5. QED
    BY <2>3, <2>4 DEF IdsLeft
<1>9. Writing'
  <2>1. ASSUME NEW j \in Owing(u) PROVE WritesAt(u[j])'
    <3>1. u[j] = runs[j] /\ j \in Owing(runs)
      BY <1>4, <2>1 DEF Popped
    <3>2. WritesAt(u[j])
      BY <3>1 DEF BranchInv, Writing
    <3>3. untagged => untagged'
      BY <1>5
    <3>4. QED
      BY <1>5, <3>2, <3>3 DEF WritesAt, GroupsOf
  <2>2. QED
    BY <1>5, <2>1 DEF Writing, WritesAt, Owing
<1>10. Linked'
  <2>1. SUFFICES ASSUME ~stale', ~untagged' PROVE LinkedBy(Pills, Len(list))'
    BY DEF Linked
  <2>2. ~stale /\ ~untagged /\ {r.group} \ {None} \subseteq GroupsOf(live)
    BY <1>5, <2>1
  <2>3. OwedBy(runs) \subseteq OwedBy(u) \cup {r.group} /\ None \notin OwedBy(runs)
    BY <1>4 DEF Popped, OwedBy, Owing
  <2>4. GroupsOf(live) \cup OwedBy(runs) \subseteq GroupsOf(live)' \cup OwedBy(runs)'
    <3>1. GroupsOf(live)' = GroupsOf(live) /\ OwedBy(runs)' = OwedBy(u)
      BY <1>5 DEF GroupsOf, OwedBy, Owing
    <3>2. QED
      BY <2>2, <2>3, <3>1
  <2>5. LinkedBy(Pills, Len(list)) /\ list' = list
    BY <1>5, <2>2 DEF BranchInv, Linked
  <2>6. QED
    BY <1>1, <2>4, <2>5, LinksKept
<1>11. QED
  BY <1>6, <1>7, <1>8, <1>9, <1>10 DEF BranchInv

\* The store begins with one empty chain, and every tab with it.
LEMMA BranchBegins ==
  ASSUME Init
  PROVE  BranchInv
<1>1. /\ live = <<>> /\ birth = 0 /\ list = <<>> /\ mem = [t \in Tabs |-> <<>>] /\ runs = <<>>
      /\ clock = 0 /\ ids = 0 /\ bodies = 0 /\ chain = 0 /\ chains = 0 /\ behind = {} /\ stale = FALSE /\ untagged = FALSE
  BY DEF Init
<1>2. <<>> \in Seq(Message) /\ <<>> \in Seq(Record) /\ <<>> \in Seq(Run) /\ Len(<<>>) = 0
  OBVIOUS
<1>3. TypeOK
  <2>1. 0 \in Births /\ 0 \in Ids /\ 0 \in 0..MaxBodies /\ 0 \in Groups
    BY BranchNumbers DEF Births, Ids, Groups
  <2>2. QED
    BY <1>1, <1>2, <2>1 DEF TypeOK
<1>4. Len(list) = 0 /\ 0..Len(list) = {0} /\ 1..Len(list) = {} /\ Owing(runs) = {} /\ OwedBy(runs) = {}
  <2>1. 0..0 = {0} /\ 1..0 = {}
    OBVIOUS
  <2>2. Owing(runs) = {}
    BY <1>1, <1>2, <2>1 DEF Owing
  <2>3. QED
    BY <1>1, <1>2, <2>1, <2>2 DEF OwedBy
<1>5. ASSUME NEW s, s = <<>> PROVE Proper(s, 0, 0) /\ BodiesOf(s) = {} /\ GroupsOf(s) = {}
  <2>1. Len(s) = 0 /\ 1..0 = {} /\ DOMAIN s = {}
    BY <1>5
  <2>2. QED
    BY <2>1 DEF Proper, BodiesOf, GroupsOf
<1>6. Chain(0) = live /\ Number(0) = 0 /\ Birth(0) = 0
  BY <1>1 DEF Chain, Number, Birth
<1>7. IdsLeft
  BY <1>1, <1>4, FS_EmptySet DEF IdsLeft
<1>8. Chained
  BY <1>1, <1>4, <1>5, <1>6 DEF Chained
<1>9. Copied
  BY <1>1, <1>5 DEF Copied
<1>10. Born
  BY <1>1, <1>4, <1>6 DEF Born
<1>11. Writing
  BY <1>4 DEF Writing
<1>12. UpToDate
  <2>1. 1..0 = {}
    OBVIOUS
  <2>2. ASSUME NEW t \in Tabs PROVE Len(live) = Len(mem[t]) /\ 1..Len(mem[t]) = {}
    BY <1>1, <1>2, <2>1
  <2>3. QED
    BY <2>2 DEF UpToDate, Follows
<1>13. NoneLost
  <2>1. 1..bodies = {}
    BY <1>1
  <2>2. UNION {BodiesOf(Chain(k)) : k \in 0..Len(list)} = {}
    BY <1>1, <1>4, <1>5, <1>6
  <2>3. QED
    BY <2>1, <2>2 DEF NoneLost, Written
<1>14. Linked
  BY <1>4 DEF Linked, LinkedBy
<1>15. QED
  BY <1>3, <1>7, <1>8, <1>9, <1>10, <1>11, <1>12, <1>13, <1>14 DEF BranchInv

\* Every step of the session keeps the invariant; so does one that changes none of it.
LEMMA BranchStep ==
  ASSUME BranchInv, [Next]_vars
  PROVE  BranchInv'
<1>1. CASE Next
  <2>1. CASE \E t \in Tabs : SendMessage(t)
    BY <2>1, SendKeeps
  <2>2. CASE \E t \in Tabs : Edit(t)
    BY <2>2, EditKeeps
  <2>3. CASE \E t \in Tabs : Regenerate(t)
    BY <2>3, RegenerateKeeps
  <2>4. CASE \E t \in Tabs : BranchSwitch(t)
    BY <2>4, BranchSwitchKeeps
  <2>5. CASE \E t \in Tabs : Reconnect(t)
    BY <2>5, ReconnectKeeps
  <2>6. CASE Turn
    BY <2>6, TurnKeeps
  <2>7. CASE Answer
    BY <2>7, AnswerKeeps
  <2>8. CASE NoResponse
    BY <2>8, NoResponseKeeps
  <2>9. QED
    BY <1>1, <2>1, <2>2, <2>3, <2>4, <2>5, <2>6, <2>7, <2>8 DEF Next
<1>2. CASE UNCHANGED vars
  <2>1. /\ live' = live /\ birth' = birth /\ list' = list /\ mem' = mem /\ runs' = runs
        /\ clock' = clock /\ ids' = ids /\ bodies' = bodies /\ chain' = chain /\ chains' = chains
        /\ behind' = behind /\ stale' = stale /\ untagged' = untagged
    BY <1>2 DEF vars
  <2>2. TypeOK' /\ IdsLeft' /\ Chained' /\ Copied' /\ Born'
    BY <2>1 DEF BranchInv, TypeOK, IdsLeft, Chained, Copied, Born, Owing, Chain, Number, Birth, Proper
  <2>3. Writing'
    BY <2>1 DEF BranchInv, Writing, WritesAt, Owing, GroupsOf
  <2>4. UpToDate'
    BY <2>1 DEF BranchInv, UpToDate, Follows, BodiesOf
  <2>5. NoneLost'
    BY <2>1 DEF BranchInv, NoneLost, Written, Chain, BodiesOf
  <2>6. Linked'
    <3>1. GroupsOf(live)' = GroupsOf(live) /\ OwedBy(runs)' = OwedBy(runs)
      BY <2>1 DEF GroupsOf, OwedBy, Owing
    <3>2. LinkedBy(Pills, Len(list)) => LinkedBy(Pills, Len(list))'
      BY <2>1, <3>1, LinksKept DEF BranchInv
    <3>3. QED
      BY <2>1, <3>2 DEF BranchInv, Linked
  <2>7. QED
    BY <2>2, <2>3, <2>4, <2>5, <2>6 DEF BranchInv
<1>3. QED
  BY <1>1, <1>2

-----------------------------------------------------------------------------
(* What the invariant says of a session                                    *)
\* No chain is lost: every message is on the live chain or in a record
\* (session_branch.c).
LEMMA NothingIsLost ==
  ASSUME BranchInv
  PROVE  NothingLost
<1>1. SUFFICES ASSUME ~stale
               PROVE  1 .. bodies = BodiesOf(live) \union UNION {BodiesOf(r.messages) : r \in Elements(list)}
  BY DEF NothingLost
<1>2. 1..bodies = UNION {BodiesOf(Chain(k)) : k \in 0..Len(list)}
  BY <1>1 DEF BranchInv, NoneLost, Written
<1>3. PICK N \in Nat : N = Len(list)
  BY ChainIs DEF BranchInv
<1>4. Chain(0) = live /\ \A k \in 1..N : Chain(k) = list[k].messages
  BY <1>3, ChainIs DEF BranchInv
<1>5. Elements(list) = {list[k] : k \in 1..N}
  BY <1>3, ChainIs DEF BranchInv, TypeOK, Elements
<1>6. ASSUME NEW b \in 1..bodies PROVE b \in BodiesOf(live) \union UNION {BodiesOf(r.messages) : r \in Elements(list)}
  <2>1. PICK k \in 0..N : b \in BodiesOf(Chain(k))
    BY <1>2, <1>3
  <2>2. CASE k = 0
    BY <1>4, <2>1, <2>2
  <2>3. CASE k \in 1..N
    BY <1>4, <1>5, <2>1, <2>3
  <2>4. QED
    BY <2>2, <2>3
<1>7. ASSUME NEW b \in BodiesOf(live) PROVE b \in 1..bodies
  BY <1>2, <1>3, <1>4
<1>8. ASSUME NEW k \in 1..N, NEW b \in BodiesOf(list[k].messages) PROVE b \in 1..bodies
  <2>1. b \in BodiesOf(Chain(k)) /\ k \in 0..N
    BY <1>4, <1>8
  <2>2. QED
    BY <1>2, <1>3, <2>1
<1>9. QED
  BY <1>5, <1>6, <1>7, <1>8

\* Every chain can be reached by clicking pills (switchBranch of the page).
LEMMA ForksAreReachable ==
  ASSUME BranchInv
  PROVE  ForksReachable
<1>1. SUFFICES ASSUME ~stale, ~untagged, ~Owed, NEW x \in DOMAIN list PROVE Reached(x)
  BY DEF ForksReachable
<1>2. OwedBy(runs) = {}
  <2>1. runs \in Seq(Run)
    BY DEF BranchInv, TypeOK
  <2>2. Owing(runs) = {}
    BY <1>1, <2>1, RunIs DEF Owed, Owing
  <2>3. QED
    BY <2>2 DEF OwedBy
<1>3. PICK P : P = Pills
  OBVIOUS
<1>4. LinkedBy(P, Len(list)) /\ list \in Seq(Record)
  BY <1>1, <1>3 DEF BranchInv, Linked, TypeOK
<1>5. P[0] = GroupsOf(live) /\ \A k \in 1..Len(list) : P[k] = GroupsOf(list[k].messages)
  <2>1. PICK N \in Nat : N = Len(list)
    BY ChainIs DEF BranchInv
  <2>2. P = [k \in 0..N |-> IF k = 0 THEN GroupsOf(live) \cup OwedBy(runs) ELSE GroupsOf(list[k].messages)]
    BY <1>3, <2>1 DEF Pills
  <2>3. P[0] = GroupsOf(live)
    BY <1>2, <2>2
  <2>4. \A k \in 1..N : P[k] = GroupsOf(list[k].messages)
    BY <2>2
  <2>5. QED
    BY <2>1, <2>3, <2>4
<1>6. QED
  BY <1>1, <1>4, <1>5, LinkedReached

\* While a group has no more records than a pill counts, the pill shows the live chain
\* at its place by creation (session_manager_branch_info_alloc).
LEMMA ActiveIsTheRank ==
  ASSUME BranchInv
  PROVE  ActiveIsRank
<1>1. SUFFICES ASSUME NEW g \in GroupsOf(live), Cardinality(Carrying(g)) <= MaxCounted
               PROVE  BranchInfo(g).active = 1 + Cardinality({k \in Carrying(g) : list[k].chain < chain})
  BY DEF ActiveIsRank
<1>2. PICK N \in Nat : N = Len(list)
  BY ChainIs DEF BranchInv
<1>3. PICK C : C = Carrying(g)
  OBVIOUS
<1>4. C \in SUBSET (1..N) /\ IsFiniteSet(C) /\ Cardinality(C) \in Nat
  <2>1. DOMAIN list = 1..N /\ IsFiniteSet(1..N)
    BY <1>2, FS_Interval DEF BranchInv, TypeOK
  <2>2. C \in SUBSET (1..N)
    BY <1>3, <2>1 DEF Carrying
  <2>3. QED
    BY <2>1, <2>2, FS_Subset, FS_CardinalityType
<1>5. Counted(g) = C
  <2>1. ASSUME NEW k \in C PROVE Cardinality({j \in C : j < k}) < MaxCounted
    <3>1. PICK D : D = C \ {k}
      OBVIOUS
    <3>2. IsFiniteSet(D) /\ Cardinality(D) = Cardinality(C) - 1
      BY <1>4, <2>1, <3>1, FS_RemoveElement
    <3>3. PICK B : B = {j \in C : j < k}
      OBVIOUS
    <3>4. B \in SUBSET D
      BY <1>4, <2>1, <3>1, <3>3
    <3>5. Cardinality(B) <= Cardinality(D) /\ Cardinality(B) \in Nat
      BY <3>2, <3>4, FS_Subset, FS_CardinalityType
    <3>6. Cardinality(B) < MaxCounted
      BY <1>1, <1>3, <1>4, <3>2, <3>5, SessionBranchAssumption
    <3>7. QED
      BY <3>3, <3>6
  <2>2. QED
    BY <1>3, <2>1 DEF Counted
<1>6. ASSUME NEW k \in C PROVE list[k].birth < birth <=> list[k].chain < chain
  <2>1. k \in 0..N /\ 0 \in 0..N /\ k \in 1..N
    BY <1>4
  <2>2. Birth(k) < Birth(0) <=> Number(k) < Number(0)
    BY <1>2, <2>1 DEF BranchInv, Born
  <2>3. Birth(k) = list[k].birth /\ Number(k) = list[k].chain /\ Birth(0) = birth /\ Number(0) = chain
    BY <1>2, <2>1, ChainIs DEF BranchInv
  <2>4. QED
    BY <2>2, <2>3
<1>7. {k \in C : list[k].birth < birth} = {k \in C : list[k].chain < chain}
  BY <1>6
<1>8. QED
  BY <1>3, <1>5, <1>7 DEF BranchInfo

\* The model is asked about the conversation the store holds (ws_handle_message_frame).
LEMMA ContextIsTheStored ==
  ASSUME BranchInv
  PROVE  ContextIsStored
<1>1. SUFFICES ASSUME NEW t \in Tabs, t \notin behind
               PROVE  Len(live) - Len(mem[t]) \in 0 .. 1 /\ \A i \in DOMAIN mem[t] : mem[t][i].body = live[i].body
  BY DEF ContextIsStored
<1>2. Follows(t)
  BY <1>1 DEF BranchInv, UpToDate
<1>3. Len(live) \in Nat /\ Len(mem[t]) \in Nat /\ DOMAIN mem[t] = 1..Len(mem[t])
  BY <1>1, ChainIs DEF BranchInv
<1>4. Len(live) = Len(mem[t]) \/ Len(live) = Len(mem[t]) + 1
  BY <1>2 DEF Follows
<1>5. \A i \in 1..Len(mem[t]) : mem[t][i].body = live[i].body
  BY <1>2 DEF Follows
<1>6. QED
  BY <1>3, <1>4, <1>5

-----------------------------------------------------------------------------
(* The branches at all times                                               *)
\* The invariant of the branches holds at all times, for any tabs, messages and forks.
THEOREM BranchHolds == MCSpec => []BranchInv
<1>1. Start => BranchInv
  BY BranchBegins DEF Start
<1>2. BranchInv /\ [Step /\ UNCHANGED subject]_<<subject, vars, sessions>> => BranchInv'
  <2> SUFFICES ASSUME BranchInv, [Step /\ UNCHANGED subject]_<<subject, vars, sessions>>
               PROVE  BranchInv'
    OBVIOUS
  <2>1. [Next]_vars
    BY DEF Step
  <2>2. QED
    BY <2>1, BranchStep
<1>3. QED
  BY <1>1, <1>2, PTL DEF MCSpec

\* The session keeps its branches (session_branch.c:405-520, agent.c:208,
\* session_branch_info.c:59, routes_ws_chat.c:447): however tabs edit, regenerate,
\* switch, reconnect and run into each other, no message is lost until a tab saves what
\* another has outdated; every chain is within reach of the pills until a group leaves
\* the live chain; a pill shows the place by creation; and a tab that is up to date
\* asks the model about the stored conversation.
THEOREM BranchesStay == MCSpec => []BranchesKept
<1>1. BranchInv /\ StoreTypeOK => BranchesKept
  BY NothingIsLost, ForksAreReachable, ActiveIsTheRank, ContextIsTheStored DEF BranchInv, BranchesKept
<1>2. QED
  BY <1>1, BranchHolds, StoreTypes, PTL
=============================================================================

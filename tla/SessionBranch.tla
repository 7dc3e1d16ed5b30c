--------------------------- MODULE SessionBranch ---------------------------
(***************************************************************************)
(* The branches of one stored session and the chat tabs that write it:     *)
(* session_branch.c (fork, switch, tag), session_branch_info.c (what the   *)
(* pills show), agent_save_session, which replaces the stored chain with   *)
(* the agent's own copy after every turn, and the web frames that drive    *)
(* them (message, edit, regenerate, branch_switch, reconnect).             *)
(*                                                                         *)
(* The session row holds the live chain, its birth and a list of snapshot  *)
(* records of the chains that are not live.  Every operation on it is one  *)
(* critical section of sm->lock, so it is one step here.  A message is a   *)
(* body (its role and content together), an id and a fork group; None      *)
(* stands for a NULL id or group.  The server is one thread: while a run   *)
(* waits for an approval the frames of another tab are handled inside that *)
(* wait, so the runs form a stack and only its top moves.                  *)
(***************************************************************************)
EXTENDS Integers, Sequences, FiniteSets

CONSTANTS Tabs,        \* the connections open on the session
          MaxBodies,   \* bound on the messages ever written
          MaxForks,    \* bound on the chains ever forked off
          MaxCounted,  \* records that a pill counts at most: 64
          MaxClock     \* bound on the milliseconds that pass

ASSUME SessionBranchAssumption ==
    /\ IsFiniteSet(Tabs) /\ Tabs # {}
    /\ MaxBodies \in Nat \ {0} /\ MaxForks \in Nat \ {0} /\ MaxClock \in Nat \ {0}
    /\ MaxCounted \in Nat

None == 0

VARIABLES live,      \* session->messages: the live chain in the store
          birth,     \* metadata.branches.active_created_at, in milliseconds
          list,      \* metadata.branches.list: records, in append order
          mem,       \* agent->messages of each tab, its system prefix left out
          runs,      \* the runs in progress, innermost last
          clock,     \* CLOCK_REALTIME in milliseconds
          ids,       \* message ids minted so far
          bodies,    \* message bodies written so far
          chain,     \* history: creation number of the live chain
          chains,    \* history: chains forked off so far
          behind,    \* history: tabs whose copy another tab has since outdated
          stale,     \* history: such a tab has saved its copy
          untagged   \* history: a fork group left the live chain and was not restored

store == <<live, birth, list>>
history == <<chain, chains, behind, stale, untagged>>
vars == <<live, birth, list, mem, runs, clock, ids, bodies,
          chain, chains, behind, stale, untagged>>

-----------------------------------------------------------------------------
(* Messages, records and what branch_info computes of them.                *)

Ids == 0 .. 2 * MaxForks
Groups == 0 .. MaxForks
Births == 0 .. MaxClock
Message == [body : 1 .. MaxBodies, id : Ids, group : Groups]
Record == [chain : Groups, birth : Births, messages : Seq(Message)]
Run == [tab : Tabs, at : 0 .. MaxBodies, group : Groups]

Elements(s) == {s[i] : i \in DOMAIN s}
BodiesOf(s) == {s[i].body : i \in DOMAIN s}
GroupsOf(s) == {s[i].group : i \in DOMAIN s} \ {None}

\* The places of the records of group g, those of them that a pill counts, and these
\* records as the answer lists them.
Carrying(g) == {k \in DOMAIN list : g \in GroupsOf(list[k].messages)}
Counted(g) == {k \in Carrying(g) : Cardinality({j \in Carrying(g) : j < k}) < MaxCounted}
Listed(g) == SubSeq(SelectSeq(list, LAMBDA r : g \in GroupsOf(r.messages)), 1, Cardinality(Counted(g)))

\* branch_group_chain_count and session_manager_branch_info_alloc, for one pill.
BranchInfo(g) ==
    [count      |-> 1 + Cardinality(Counted(g)),
     active     |-> 1 + Cardinality({k \in Counted(g) : list[k].birth < birth}),
     branch_ids |-> Listed(g)]

\* switchBranch of the page: the record a click towards position `target` asks for.
Clicked(g, target) ==
    LET info == BranchInfo(g)
    IN  info.branch_ids[IF target < info.active THEN target ELSE target - 1]

-----------------------------------------------------------------------------
Init ==
    /\ live = <<>> /\ birth = 0 /\ list = <<>>
    /\ mem = [t \in Tabs |-> <<>>]
    /\ runs = <<>>
    /\ clock = 0 /\ ids = 0 /\ bodies = 0
    /\ chain = 0 /\ chains = 0 /\ behind = {} /\ stale = FALSE /\ untagged = FALSE

Top == runs[Len(runs)]
Pop == SubSeq(runs, 1, Len(runs) - 1)
Idle(t) == \A r \in Elements(runs) : r.tab # t
Push(t, at, group) == runs' = Append(runs, [tab |-> t, at |-> at, group |-> group])

\* What a tab that writes the store does to the copies of the others.
Outdate(t) == behind' = behind \union (Tabs \ {t})

\* Mutant of Say: the counter is read before it is bumped.
SayEarly(s) == Append(s, [body |-> bodies, id |-> None, group |-> None])

\* agent_append_message of a message the agent writes itself: no id, no group.
Say(s) == Append(s, [body |-> bodies + 1, id |-> None, group |-> None])

\* agent_save_session by tab t: the stored chain becomes the agent's copy of it,
\* the records and the birth stay.  `owed` is a group the end of the run restores.
Save(t, copy, owed) ==
    /\ live' = copy
    /\ UNCHANGED <<birth, list, chain, chains>>
    /\ Outdate(t)
    /\ stale' = (stale \/ t \in behind)
    /\ untagged' = (untagged \/ ~(GroupsOf(live) \subseteq GroupsOf(copy) \union {owed}))

\* A regenerate still owes its group when the live chain leaves for a record.
LeaveUntagged ==
    untagged' = (untagged \/ \E r \in Elements(runs) : r.group \notin GroupsOf(live) \union {None})

-----------------------------------------------------------------------------
(* session_manager_fork_branch, switch_branch and tag_message_new.         *)

\* branch_find_fork_index: the first message with that id, else the index.
ForkIndex(id, index) ==
    LET named == {i \in DOMAIN live : id # None /\ live[i].id = id}
    IN  IF named # {} THEN CHOOSE i \in named : \A j \in named : i <= j ELSE index

\* branch_next_created_at: the time of day, waited for until it is past the birth
\* of the chain that leaves live.
NextBirth(now) == IF now <= birth THEN birth + 1 ELSE now

ForkGroup(fi) == IF live[fi].group = None THEN chains + 1 ELSE live[fi].group

\* The fork message: the pre-fork message with a fresh id, the group and the body.
ForkCopy(fi, body) == [body |-> body, id |-> ids + 1, group |-> ForkGroup(fi)]

\* Mutants of PreFork: the snapshot is taken after the live array was cut; the group
\* is set after the snapshot.
PreForkCut(fi) == [SubSeq(live, 1, fi) EXCEPT ![fi].group = ForkGroup(fi),
                        ![fi].id = IF @ = None THEN ids + 1 ELSE @]
PreForkUngrouped(fi) == live

\* The pre-fork message joins the group before the snapshot is taken; one without
\* an id gets the id minted for the fork message.
PreFork(fi) == [live EXCEPT ![fi].group = ForkGroup(fi),
                            ![fi].id = IF @ = None THEN ids + 1 ELSE @]

\* branch_do_fork at message fi of the live chain.
Fork(t, fi, body) ==
    /\ fi \in DOMAIN live /\ chains < MaxForks
    /\ list' = Append(list, [chain |-> chain, birth |-> birth, messages |-> PreFork(fi)])
    /\ live' = Append(SubSeq(live, 1, fi - 1), ForkCopy(fi, body))
    /\ \E now \in {clock, clock + 1} :
           /\ NextBirth(now) <= MaxClock
           /\ birth' = NextBirth(now) /\ clock' = NextBirth(now)
    /\ ids' = ids + 1
    /\ chain' = chains + 1 /\ chains' = chains + 1
    /\ Outdate(t) /\ LeaveUntagged

\* Mutant of SwitchTo: the chain that goes live is born again.
SwitchReborn(k) ==
    LET all == Append(list, [chain |-> chain, birth |-> birth, messages |-> live])
    IN  /\ live' = list[k].messages
        /\ birth' = clock + 1
        /\ chain' = list[k].chain
        /\ list' = SubSeq(all, 1, k - 1) \o SubSeq(all, k + 1, Len(all))

\* The record of the live chain is appended before the target is loaded and popped.
SwitchTo(k) ==
    LET all == Append(list, [chain |-> chain, birth |-> birth, messages |-> live])
    IN  /\ live' = list[k].messages
        /\ birth' = list[k].birth
        /\ chain' = list[k].chain
        /\ list' = SubSeq(all, 1, k - 1) \o SubSeq(all, k + 1, Len(all))

\* session_manager_tag_message_new on a chain about to be stored.
Tagged(s, at, group) ==
    IF at \in DOMAIN s
    THEN [s EXCEPT ![at].group = IF @ = None THEN group ELSE @, ![at].id = ids + 1]
    ELSE s

-----------------------------------------------------------------------------
(* The frames of a tab.  A tab with a run in progress sends none of them.  *)

\* ws_handle_message_frame: the user's turn is saved before the model is asked.
SendMessage(t) ==
    /\ Idle(t) /\ bodies < MaxBodies
    /\ mem' = [mem EXCEPT ![t] = Say(@)]
    /\ bodies' = bodies + 1
    /\ Save(t, mem'[t], None)
    /\ Push(t, 0, None)
    /\ UNCHANGED <<clock, ids>>

\* Positions a page may show, and the ids it may know for one.
Shown(t) == DOMAIN mem[t] \union DOMAIN live
KnownIds(t, i) == {None} \union {live[j].id : j \in {i} \cap DOMAIN live}
                         \union {mem[t][j].id : j \in {i} \cap DOMAIN mem[t]}

Shorter(m, n) == IF m <= n THEN m ELSE n

\* ws_run_fork for an edit: the fork point is found by id, the agent's copy is cut
\* at the index and ends with the fork message.
Edit(t) ==
    \E i \in Shown(t) : \E id \in KnownIds(t, i) :
        LET fi == ForkIndex(id, i)
        IN  /\ Idle(t) /\ bodies < MaxBodies
            /\ Fork(t, fi, bodies + 1)
            /\ mem' = [mem EXCEPT ![t] =
                          Append(SubSeq(@, 1, Shorter(i - 1, Len(@))), ForkCopy(fi, bodies + 1))]
            /\ bodies' = bodies + 1
            /\ Push(t, 0, None)
            /\ UNCHANGED stale

\* ws_handle_regenerate and ws_run_fork: the index is resolved in the agent's copy,
\* which loses the fork message; the run will append the fresh answer in its place.
Regenerate(t) ==
    \E i \in Shown(t) : \E id \in KnownIds(t, i) :
        LET named == {j \in DOMAIN mem[t] : id # None /\ mem[t][j].id = id}
            fi == IF named # {} THEN CHOOSE j \in named : \A k \in named : j <= k ELSE i
        IN  /\ Idle(t) /\ fi \in DOMAIN mem[t]
            /\ Fork(t, fi, live[fi].body)
            /\ mem' = [mem EXCEPT ![t] = SubSeq(@, 1, fi - 1)]
            /\ Push(t, fi, ForkGroup(fi))
            /\ UNCHANGED <<bodies, stale>>

\* ws_handle_branch_switch: the store switches, then the agent loads its messages.
\* A page needs a millisecond at least between two frames.
BranchSwitch(t) ==
    /\ Idle(t) /\ clock < MaxClock
    /\ \E k \in DOMAIN list : list[k].messages # live /\ SwitchTo(k)
    /\ mem' = [mem EXCEPT ![t] = live']
    /\ clock' = clock + 1
    /\ behind' = Tabs \ {t} /\ LeaveUntagged
    /\ UNCHANGED <<runs, ids, bodies, chains, stale>>

\* Mutant of Reconnect: the page gets the history, the agent stays empty.
ReconnectEmpty(t) ==
    /\ Idle(t) /\ (t \in behind \/ mem[t] # live)
    /\ mem' = [mem EXCEPT ![t] = <<>>]
    /\ behind' = behind \ {t}
    /\ UNCHANGED <<store, runs, clock, ids, bodies, chain, chains, stale, untagged>>

\* ws_apply_query_session and ws_handle_session_id of a connection that replaces t.
Reconnect(t) ==
    /\ Idle(t) /\ (t \in behind \/ mem[t] # live)
    /\ mem' = [mem EXCEPT ![t] = live]
    /\ behind' = behind \ {t}
    /\ UNCHANGED <<store, runs, clock, ids, bodies, chain, chains, stale, untagged>>

-----------------------------------------------------------------------------
(* The run on top of the stack.                                            *)

\* A turn of agent_run_loop that is not the last: a message appended and saved.
Turn ==
    /\ runs # <<>> /\ bodies < MaxBodies
    /\ mem' = [mem EXCEPT ![Top.tab] = Say(@)]
    /\ bodies' = bodies + 1
    /\ Save(Top.tab, mem'[Top.tab], Top.group)
    /\ UNCHANGED <<runs, clock, ids>>

\* The run returns a response: the answer, when it has content, is appended and
\* saved, and after a regenerate ws_run_fork tags the message at the fork index.
Answer ==
    /\ runs # <<>>
    /\ \E content \in {TRUE, FALSE} :
           /\ content => bodies < MaxBodies
           /\ bodies' = IF content THEN bodies + 1 ELSE bodies
           /\ mem' = IF content THEN [mem EXCEPT ![Top.tab] = Say(@)] ELSE mem
    /\ IF Top.group # None
       THEN /\ Save(Top.tab, Tagged(mem'[Top.tab], Top.at, Top.group), None)
            /\ ids' = IF Top.at \in DOMAIN mem'[Top.tab] THEN ids + 1 ELSE ids
       ELSE /\ Save(Top.tab, mem'[Top.tab], None)
            /\ UNCHANGED ids
    /\ runs' = Pop
    /\ UNCHANGED clock

\* agent_run_loop returns no response: cancelled, refused, or out of iterations.
\* Nothing is saved and nothing is tagged.
NoResponse ==
    /\ runs # <<>>
    /\ runs' = Pop
    /\ untagged' = (untagged \/ ~({Top.group} \ {None} \subseteq GroupsOf(live)))
    /\ UNCHANGED <<store, mem, clock, ids, bodies, chain, chains, behind, stale>>

Next ==
    \/ \E t \in Tabs : SendMessage(t)
    \/ \E t \in Tabs : Edit(t)
    \/ \E t \in Tabs : Regenerate(t)
    \/ \E t \in Tabs : BranchSwitch(t)
    \/ \E t \in Tabs : Reconnect(t)
    \/ Turn
    \/ Answer
    \/ NoResponse

Spec == Init /\ [][Next]_vars

-----------------------------------------------------------------------------
(* Properties.                                                             *)

\* Bodies, ids, groups and births keep their ranges, and the live chain is never
\* longer than what was written.
TypeOK ==
    /\ live \in Seq(Message) /\ birth \in Births /\ list \in Seq(Record)
    /\ mem \in [Tabs -> Seq(Message)] /\ runs \in Seq(Run)
    /\ clock \in Births /\ ids \in Ids /\ bodies \in 0 .. MaxBodies
    /\ chain \in Groups /\ chains \in Groups /\ behind \subseteq Tabs
    /\ stale \in BOOLEAN /\ untagged \in BOOLEAN

\* session_branch.h: no chain is ever lost.  Unless a tab has saved a copy another
\* tab had outdated, every message ever stored is on the live chain or in a record,
\* through edits, regenerates, switches, reconnects and runs that fail half way.
NothingLost ==
    ~stale => 1 .. bodies = BodiesOf(live) \union
                            UNION {BodiesOf(r.messages) : r \in Elements(list)}

\* Two chains are neighbours when some fork group is on both: its pill leads from
\* one to the other.
Neighbours(s, t) == GroupsOf(s) \cap GroupsOf(t) # {}
Reached(k) ==
    LET Step[n \in 0 .. Len(list)] ==
            IF n = 0 THEN {live}
            ELSE Step[n - 1] \union {r.messages : r \in {q \in Elements(list) :
                                        \E s \in Step[n - 1] : Neighbours(s, q.messages)}}
    IN  list[k].messages \in Step[Len(list)]

\* The pill renders on both chains of a fork, so every chain can be reached from the
\* live one by clicking pills, as long as no fork group left the live chain.  While a
\* regenerate runs its group is owed to the answer.
Owed == \E r \in Elements(runs) : r.group # None
ForksReachable ==
    ~stale /\ ~untagged /\ ~Owed => \A k \in DOMAIN list : Reached(k)

\* session_branch.c: the marker of a regenerated answer is re-applied after the save
\* that dropped it.  So the next message of the tab should not take a pill away.
MessageKeepsForks ==
    [][(\E t \in Tabs : SendMessage(t)) => GroupsOf(live) \subseteq GroupsOf(live')]_vars

\* The position a pill shows is the rank of the live chain by creation among the
\* chains of the group, as many as are counted, also after switching back and forth
\* and forking again.
ActiveIsRank ==
    \A g \in GroupsOf(live) : Cardinality(Carrying(g)) <= MaxCounted =>
        BranchInfo(g).active = 1 + Cardinality({k \in Carrying(g) : list[k].chain < chain})

\* A click of a pill leads to the neighbour it names: the chain at position `target`
\* by creation is the one whose record the page picks out of branch_ids.
PillLeadsToNeighbour ==
    \A g \in GroupsOf(live) :
        \A target \in {BranchInfo(g).active - 1, BranchInfo(g).active + 1} :
            target \in 1 .. BranchInfo(g).count =>
                Cardinality({r \in Elements(Listed(g)) \union {[chain |-> chain]} :
                                 r.chain < Clicked(g, target).chain}) = target - 1

\* A tab that is up to date asks the model about the conversation the store holds:
\* its copy has the stored messages in order, up to a fork message the store still
\* shows after a regenerate that brought no answer.
ContextIsStored ==
    \A t \in Tabs \ behind :
        /\ Len(live) - Len(mem[t]) \in 0 .. 1
        /\ \A i \in DOMAIN mem[t] : mem[t][i].body = live[i].body
=============================================================================

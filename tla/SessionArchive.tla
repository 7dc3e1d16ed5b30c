--------------------------- MODULE SessionArchive ---------------------------
(***************************************************************************)
(* What the program promises of a stored session, whoever reads and writes  *)
(* it: its history only grows, a session that was deleted comes back only   *)
(* with an import, and a title is made for it once at most.  A session is   *)
(* "loose" from the moment two callers wrote it in each other's way: of it  *)
(* nothing is promised any more.                                            *)
(***************************************************************************)
EXTENDS Naturals, Sequences, SequencesExt
CONSTANTS Ids,
          Stored        \* the sessions the vault holds at first, and their histories
VARIABLES archive,      \* of each id: "none", "gone", "loose", or its history and the titles made for it
          imports       \* the parity of the imports that succeeded

Entry(state, history, made) == [state |-> state, history |-> history, made |-> made]
None == Entry("none", <<>>, 0)
Gone == Entry("gone", <<>>, 0)
Loose == Entry("loose", <<>>, 0)

Begins(id) == archive[id] = None /\ archive'[id].state = "kept" /\ archive'[id].made = 0
Returns(id) == archive[id] = Gone /\ archive'[id].state = "kept" /\ imports' = 1 - imports
Grows(id) ==
    /\ archive[id].state = "kept" /\ archive'[id].state = "kept"
    /\ archive'[id].made = archive[id].made
    /\ IsPrefix(archive[id].history, archive'[id].history)
Titled(id) == archive[id].state = "kept" /\ archive[id].made = 0 /\ archive'[id] = [archive[id] EXCEPT !.made = 1]
Deleted(id) == archive[id].state = "kept" /\ archive'[id] = Gone
Loosened(id) == archive'[id] = Loose

Init == archive = [id \in Ids |-> IF id \in DOMAIN Stored THEN Entry("kept", Stored[id], 0) ELSE None] /\ imports = 0
Next == \A id \in Ids :
          \/ archive'[id] = archive[id]
          \/ Begins(id) \/ Returns(id) \/ Grows(id) \/ Titled(id) \/ Deleted(id) \/ Loosened(id)
Spec == Init /\ [][Next]_<<archive, imports>>
=============================================================================

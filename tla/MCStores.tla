------------------------------- MODULE MCStores -------------------------------
(***************************************************************************)
(* What outlives a turn: the transcript, the worktrees of the children,    *)
(* the code graph, and the files a patch edits.  They share no state and   *)
(* are explored one at a time: a behaviour picks one, and the others stay  *)
(* as they begin.                                                          *)
(***************************************************************************)
EXTENDS LiveHistory, Worktree, GraphIndex, GraphRuntime, PatchApply, TLC
CONSTANTS c1, tool, tui, f1, f2, s1, s2, nobody
VARIABLE store

(* Two call ids that every round uses again. *)
MCBatches == {<<>>, <<"a", "b">>}
MCTexts == <<"r1", "r2", "r3">>

(* Patches of one and two sections over two files, with blank lines between *)
(* them, and edits of one file in one and two chunks.                       *)
LineA == Line("a", 0)
DressedA == Line("a", 1)
LineB == Line("b", 0)
LineX == Line("x", 0)
MCPaths == {f1, f2}
MCOutside == {Missing, <<LineB>>}
MCContents == {Missing, <<>>, <<LineA>>, <<LineA, LineB>>, <<LineB, DressedA>>,
               <<LineA, BlankLine>>, <<LineA, LineB, LineA>>}
MCDisks == {f1 :> c @@ f2 :> d : c \in MCContents, d \in {<<LineA>>, Missing}}

Token(k, f, l) == [k |-> k, f |-> f, l |-> l]
Of1(k, l) == Token(k, f1, l)
Olds == {<<>>, <<Of1("-", LineA)>>, <<Of1("-", LineB)>>, <<Of1(" ", LineA), Of1("-", LineB)>>,
         <<Of1("-", LineA), Of1("blank", BlankLine)>>}
News == {<<>>, <<Of1("+", LineX)>>}
Marked == {<<Of1("at", NoLine)>>} \X Olds \X News \X {<<>>, <<Of1("eof", NoLine)>>}
Chunks == {c[1] \o c[2] \o c[3] \o c[4] :
             c \in Marked \cup ({<<>>, <<Of1("at", LineA)>>} \X Olds \X News
                                  \X {<<>>, <<Of1("eof", NoLine)>>})}
EditPatches == {<<Of1("update", NoLine)>> \o c : c \in Chunks}
         \cup {<<Of1("update", NoLine)>> \o c \o d[1] \o d[2] \o d[3] \o d[4] :
                 c \in Chunks, d \in Marked}
Sections ==
    {<<Token("add", f, NoLine)>> \o n : f \in MCPaths, n \in News}
    \cup {<<Token("delete", f, NoLine)>> : f \in MCPaths}
    \cup {<<Token("update", f, NoLine)>> \o m \o <<Of1("-", LineA), Of1("+", LineX)>> :
            f \in MCPaths,
            m \in {<<>>, <<Token("move", f1, NoLine)>>, <<Token("move", f2, NoLine)>>}}
MCPatches ==
    EditPatches \cup Sections
    \cup {s \o gap \o t : s \in Sections, t \in Sections,
                           gap \in {<<>>, <<Of1("blank", BlankLine)>>}}

StoresInit ==
    /\ Init /\ WorktreeInit /\ GraphInit /\ RuntimeInit
    /\ store \in {"history", "worktrees", "index", "runtime", "patch"}
    /\ store # "worktrees" => ~envCleanup
    /\ PatchInit /\ (store # "patch" => files = [f \in PatchFiles |-> Missing])
    /\ disk = [f \in Files |-> 1]
StoresNext ==
    \/ store = "history" /\ Next /\ UNCHANGED <<store, worktrees, graph, runtimes, patching>>
    \/ store = "worktrees" /\ WorktreeNext /\ UNCHANGED <<store, vars, graph, runtimes, patching>>
    \/ store = "index" /\ GraphNext /\ UNCHANGED <<store, vars, worktrees, runtimes, patching>>
    \/ store = "runtime" /\ RuntimeNext /\ UNCHANGED <<store, vars, worktrees, graph, patching>>
    \/ store = "patch" /\ PatchNext /\ UNCHANGED <<store, vars, worktrees, graph, runtimes>>
StoresSpec == StoresInit /\ [][StoresNext]_<<store, vars, worktrees, graph, runtimes, patching>>

(* The transcript the model is sent is whole: every call in it has its     *)
(* answer and stands where it stood, and what a rewind, a fold or a crash  *)
(* cuts away ends at the edge of a round (session.py rewind_context,       *)
(* history.py, compactor.py).                                              *)
TranscriptIsWhole == SentWellFormed /\ CutsAreExact

(* The code graph answers a session with what the session wrote, and is    *)
(* there for as long as the session is.                                    *)
GraphIsKept == IndexIsRight /\ RuntimeIsShared

(* What a child edited is kept, in its worktree and beyond.                *)
EditsAreKept == NoEditIsLost /\ MergeIsComplete
=============================================================================

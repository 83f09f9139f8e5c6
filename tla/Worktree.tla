------------------------------ MODULE Worktree ------------------------------
(***************************************************************************)
(* Worktree isolation of subagents (src/src/codedoggy/orchestration/       *)
(* worktree.py, and the worktree parts of subagent.py).                    *)
(*                                                                         *)
(* A child edits its own checkout on a branch of its own.  The merge tool  *)
(* of the parent's turn and the merge key of the terminal land a branch;   *)
(* they hold no lock and a child may run, or be resumed, meanwhile.  Each  *)
(* git command is one step; edits stand for the content of the files.      *)
(***************************************************************************)
EXTENDS Naturals, FiniteSets

CONSTANTS Children, Edits,    \* Edits: a bound, how many edits a child makes
          Resumes,            \* bound: how often a child is resumed
          Mergers, Tui        \* who merges; Tui is the one of the terminal

ASSUME WorktreeAssumption == Tui \in Mergers /\ {Edits, Resumes} \subseteq Nat

NoBranch == {<<"no branch">>}
Free == [child |-> "nobody", step |-> "free", cleanup |-> FALSE, drop |-> FALSE, owes |-> {}]

VARIABLES
    status,      \* per child: of its snapshot
    resumes,     \* per child: how often it was resumed
    dir,         \* children whose worktree directory is there
    made,        \* per child: how many edits it made
    loose,       \* per child: its edits that are not committed
    tip,         \* per child: the edits its branch holds, or NoBranch
    parent,      \* the edits in the parent's checkout
    conflicted,  \* the parent's index has unmerged files
    merge,       \* per merger: the merge_worktree it is in
    landed,      \* what the terminal goes by: see MayLand
    envCleanup,  \* CODEDOGGY_SUBAGENT_WORKTREE_CLEANUP
    given        \* auxiliary: edits somebody asked to throw away

worktrees == <<status, resumes, dir, made, loose, tip, parent, conflicted, merge, landed,
               envCleanup, given>>

EditsOf(c) == {<<c, n>> : n \in 1 .. made[c]}
Underway(c) == {m \in Mergers : merge[m].child = c /\ (merge[m].cleanup \/ merge[m].drop)}

WorktreeInit ==
    /\ status = [c \in Children |-> "none"] /\ resumes = [c \in Children |-> 0]
    /\ dir = {} /\ made = [c \in Children |-> 0]
    /\ loose = [c \in Children |-> {}] /\ tip = [c \in Children |-> NoBranch]
    /\ parent = {} /\ conflicted = FALSE /\ merge = [m \in Mergers |-> Free]
    /\ landed = [ever |-> {}, noted |-> {}, armed |-> {}] /\ envCleanup \in BOOLEAN /\ given = {}

-----------------------------------------------------------------------------
(* The child *)

CreateWorktree(c) ==             \* ids are fresh: neither path nor branch is there
    /\ status[c] = "none"
    /\ status' = [status EXCEPT ![c] = "running"]
    /\ dir' = dir \cup {c} /\ tip' = [tip EXCEPT ![c] = parent]
    /\ UNCHANGED <<resumes, made, loose, parent, conflicted, merge, landed, envCleanup, given>>

Edit(c) ==                       \* external: the child's tools
    /\ status[c] = "running" /\ c \in dir /\ made[c] < Edits
    /\ made' = [made EXCEPT ![c] = @ + 1]
    /\ loose' = [loose EXCEPT ![c] = @ \cup {<<c, made[c] + 1>>}]
    /\ given' = IF Underway(c) # {} THEN given \cup {<<c, made[c] + 1>>} ELSE given
    /\ UNCHANGED <<status, resumes, dir, tip, parent, conflicted, merge, landed, envCleanup>>

ChildCommits(c) ==               \* external: git in the child's shell
    /\ status[c] = "running" /\ c \in dir /\ loose[c] # {}
    /\ tip' = [tip EXCEPT ![c] = @ \cup loose[c]]
    /\ loose' = [loose EXCEPT ![c] = {}]
    /\ UNCHANGED <<status, resumes, dir, made, parent, conflicted, merge, landed, envCleanup, given>>

(* A first run under the environment's cleanup takes its directory along,  *)
(* with what is not committed; a resumed one leaves it.                    *)
RunEnds(c) ==
    /\ status[c] = "running"
    /\ status' \in {[status EXCEPT ![c] = s] : s \in {"completed", "failed"}}
    /\ IF envCleanup /\ resumes[c] = 0
       THEN /\ dir' = dir \ {c} /\ loose' = [loose EXCEPT ![c] = {}]
            /\ given' = given \cup loose[c]
       ELSE UNCHANGED <<dir, loose, given>>
    /\ landed' = [landed EXCEPT !.noted = @ \ {c}]
    /\ UNCHANGED <<resumes, made, tip, parent, conflicted, merge, envCleanup>>

(* The directory is used as it is, or checked out again from the branch.   *)
ReattachWorktree(c) ==
    /\ status[c] = "completed" /\ resumes[c] < Resumes
    /\ resumes' = [resumes EXCEPT ![c] = @ + 1]
    /\ IF c \in dir \/ tip[c] # NoBranch
       THEN dir' = dir \cup {c} /\ status' = [status EXCEPT ![c] = "running"]
       ELSE dir' = dir /\ status' = [status EXCEPT ![c] = "failed"]
    /\ landed' = [landed EXCEPT !.noted = @ \ {c}]
    /\ UNCHANGED <<made, loose, tip, parent, conflicted, merge, envCleanup, given>>

-----------------------------------------------------------------------------
(* merge_worktree, in a thread of the parent *)

(* The terminal remembers for good what it landed; the child's snapshot    *)
(* notes a merge that cleaned up, until the next run replaces it.          *)
MayLand(c) == status[c] = "completed" /\ c \notin landed.ever \cup landed.noted

Arm(c) ==                        \* the first press of the merge key
    /\ MayLand(c) /\ merge[Tui] = Free
    /\ landed' = [landed EXCEPT !.armed = {c}]
    /\ UNCHANGED <<status, resumes, dir, made, loose, tip, parent, conflicted, merge, envCleanup, given>>

(* The second press looks at nothing any more, and the tool looks at       *)
(* nothing at all: the child may be running.                               *)
MergeBegins(m, c, cleanup, drop) ==
    /\ merge[m] = Free /\ status[c] # "none"
    /\ m = Tui => c \in landed.armed /\ cleanup /\ ~drop
    /\ landed' = IF m = Tui THEN [landed EXCEPT !.armed = {}] ELSE landed
    /\ merge' = [merge EXCEPT ![m] = [child |-> c, step |-> "commit", cleanup |-> cleanup,
                                      drop |-> drop, owes |-> EditsOf(c) \ given]]
    /\ UNCHANGED <<status, resumes, dir, made, loose, tip, parent, conflicted, envCleanup, given>>

Answer(m, step) == merge' = [merge EXCEPT ![m] = IF step = "failed" THEN Free ELSE [@ EXCEPT !.step = step]]

(* Mutant: a commit that git refuses does not end the merge.               *)
CommitAnyway(m) ==
    LET c == merge[m].child IN
    /\ merge[m].step = "commit" /\ Answer(m, "merge")
    /\ \/ UNCHANGED <<tip, loose>>
       \/ /\ c \in dir
          /\ tip' = [tip EXCEPT ![c] = @ \cup loose[c]]
          /\ loose' = [loose EXCEPT ![c] = {}]
    /\ UNCHANGED <<status, resumes, dir, made, parent, conflicted, landed, envCleanup, given>>

CommitWorktreeChanges(m) ==      \* a hook or a lock may make git refuse
    LET c == merge[m].child IN
    /\ merge[m].step = "commit"
    /\ \/ Answer(m, "merge") /\ c \notin dir /\ UNCHANGED <<tip, loose>>
       \/ /\ Answer(m, "merge") /\ c \in dir
          /\ tip' = [tip EXCEPT ![c] = @ \cup loose[c]]
          /\ loose' = [loose EXCEPT ![c] = {}]
       \/ Answer(m, "failed") /\ c \in dir /\ UNCHANGED <<tip, loose>>
    /\ UNCHANGED <<status, resumes, dir, made, parent, conflicted, landed, envCleanup, given>>

(* Mutant: a merge that conflicts goes on to the cleanup.                  *)
MergeAnyway(m) ==
    LET c == merge[m].child IN
    /\ merge[m].step = "merge" /\ tip[c] # NoBranch /\ Answer(m, "remove")
    /\ \/ ~conflicted /\ parent' = parent \cup tip[c] /\ UNCHANGED conflicted
       \/ conflicted' = TRUE /\ UNCHANGED parent
    /\ UNCHANGED <<status, resumes, dir, made, loose, tip, landed, envCleanup, given>>

(* A conflict stays in the parent's index, where it fails every later      *)
(* merge until somebody resolves it.                                       *)
GitMerge(m) ==
    LET c == merge[m].child IN
    /\ merge[m].step = "merge"
    /\ \/ /\ tip[c] # NoBranch /\ ~conflicted
          /\ parent' = parent \cup tip[c] /\ Answer(m, "remove") /\ UNCHANGED conflicted
       \/ /\ tip[c] # NoBranch /\ conflicted' = TRUE
          /\ Answer(m, "failed") /\ UNCHANGED parent
       \/ Answer(m, "failed") /\ UNCHANGED <<parent, conflicted>>
    /\ UNCHANGED <<status, resumes, dir, made, loose, tip, landed, envCleanup, given>>

RemoveWorktree(m) ==             \* forced, and a failure is only logged
    LET c == merge[m].child IN
    /\ merge[m].step = "remove" /\ Answer(m, "delete")
    /\ \/ /\ merge[m].cleanup /\ dir' = dir \ {c}
          /\ loose' = [loose EXCEPT ![c] = {}]
       \/ UNCHANGED <<dir, loose>>
    /\ UNCHANGED <<status, resumes, made, tip, parent, conflicted, landed, envCleanup, given>>

DeleteBranch(m) ==               \* git keeps a branch that is checked out
    LET c == merge[m].child IN
    /\ merge[m].step = "delete" /\ Answer(m, "failed")
    /\ tip' = IF merge[m].drop /\ c \notin dir THEN [tip EXCEPT ![c] = NoBranch] ELSE tip
    /\ landed' = [landed EXCEPT !.ever = IF m = Tui THEN @ \cup {c} ELSE @,
                                !.noted = IF merge[m].cleanup THEN @ \cup {c} ELSE @]
    /\ UNCHANGED <<status, resumes, dir, made, loose, parent, conflicted, envCleanup, given>>

Resolve ==                       \* external: the user commits or aborts the merge
    /\ conflicted /\ conflicted' = FALSE
    /\ parent' \in {parent} \cup {parent \cup tip[c] : c \in {d \in Children : tip[d] # NoBranch}}
    /\ UNCHANGED <<status, resumes, dir, made, loose, tip, merge, landed, envCleanup, given>>

WorktreeNext ==
    \/ \E c \in Children :
         \/ CreateWorktree(c) \/ Edit(c) \/ ChildCommits(c) \/ RunEnds(c) \/ ReattachWorktree(c)
         \/ Arm(c)
         \/ \E m \in Mergers, cleanup, drop \in BOOLEAN : MergeBegins(m, c, cleanup, drop)
    \/ \E m \in Mergers :
         CommitWorktreeChanges(m) \/ GitMerge(m) \/ RemoveWorktree(m) \/ DeleteBranch(m)
    \/ Resolve

WorktreeSpec == WorktreeInit /\ [][WorktreeNext]_worktrees

-----------------------------------------------------------------------------
(* No edit of a child is lost while branches are merged, checkouts removed *)
(* and children resumed: it is in the checkout, on the branch or with the  *)
(* parent, unless the environment asked to throw it away, or it was made   *)
(* while a merge that cleans up was under way.                             *)
NoEditIsLost ==
    \A c \in Children :
        EditsOf(c) \ given \subseteq loose[c] \cup (IF tip[c] = NoBranch THEN {} ELSE tip[c]) \cup parent

(* A merge that succeeds has landed every edit made before it was asked.   *)
MergeIsComplete ==
    \A m \in Mergers : merge[m].step \in {"remove", "delete"} => merge[m].owes \ given \subseteq parent
=============================================================================

---------------------------- MODULE StoresProofs ----------------------------
(***************************************************************************)
(* Proofs about what outlives a turn: the worktrees of the children, the   *)
(* index of the code graph, the runtime its sessions share, and the        *)
(* transcript, for every finite set of children, mergers, files and        *)
(* sessions, and for every batch of calls, budget and window.              *)
(*                                                                         *)
(* The inductive invariants are in StoresInvariants.                       *)
(***************************************************************************)
EXTENDS StoresInvariants, SequenceTheorems, FiniteSetTheorems, FunctionTheorems,
        WellFoundedInduction, TLAPS

-----------------------------------------------------------------------------
(* The worktrees of the children (Worktree). *)

(* No set of edits is the mark for a branch that is not there. *)
LEMMA BranchesAreSets == NoBranch \notin EditSets
<1> SUFFICES ASSUME NoBranch \in EditSets PROVE FALSE OBVIOUS
<1> DEFINE e0 == <<"no branch">>
<1>0. e0 \in Children \X Nat BY DEF NoBranch, EditSets
<1>1. \A e \in Children \X Nat : Len(e) = 2 OBVIOUS
<1>2. Len(e0) = 1 OBVIOUS
<1> HIDE DEF e0
<1> QED BY <1>0, <1>1, <1>2

(* The invariant holds at first: nothing is created, edited or merged. *)
LEMMA WorktreeStarts == WorktreeInit => WorktreeInv
<1> SUFFICES ASSUME WorktreeInit PROVE WorktreeInv OBVIOUS
<1>1. WorktreeTypes BY DEF WorktreeInit, WorktreeTypes, EditSets
<1>2. \A c \in Children : EditsOf(c) = {}
  <2>1. 1 .. 0 = {} OBVIOUS
  <2> QED BY <2>1 DEF WorktreeInit, EditsOf
<1>3. CheckoutsFit BY DEF WorktreeInit, CheckoutsFit
<1>4. MergesFit BY DEF WorktreeInit, MergesFit
<1>5. NoEditIsLost BY <1>2 DEF WorktreeInit, NoEditIsLost
<1>6. MergeIsComplete BY DEF WorktreeInit, MergeIsComplete, Free
<1> QED BY <1>1, <1>3, <1>4, <1>5, <1>6 DEF WorktreeInv

(* A step that makes, moves and lands nothing. *)
LEMMA Quiet ==
    ASSUME WorktreeInv, UNCHANGED <<made, loose, tip, parent, merge, given, dir>>,
           WorktreeTypes', \A c \in Children : status[c] # "none" <=> status'[c] # "none"
    PROVE  WorktreeInv'
<1>1. \A c : EditsOf(c)' = EditsOf(c) /\ OnBranch(c)' = OnBranch(c)
  BY DEF EditsOf, OnBranch
<1>2. CheckoutsFit' BY DEF WorktreeInv, CheckoutsFit
<1>3. MergesFit'
  <2>1. \A m \in Mergers : merge[m] # Free => merge[m].child \in Children
    BY DEF WorktreeInv, WorktreeTypes
  <2> QED BY <1>1, <2>1 DEF WorktreeInv, MergesFit
<1>4. NoEditIsLost' BY <1>1 DEF WorktreeInv, NoEditIsLost
<1>5. MergeIsComplete' BY DEF WorktreeInv, MergeIsComplete
<1> QED BY <1>2, <1>3, <1>4, <1>5 DEF WorktreeInv

(* What a child owns when it starts. *)
LEMMA CreateKeeps ==
    ASSUME WorktreeInv, NEW c \in Children, CreateWorktree(c)
    PROVE  WorktreeInv'
<1> USE DEF WorktreeInv
<1>1. WorktreeTypes' BY DEF CreateWorktree, WorktreeTypes
<1>2. \A d : EditsOf(d)' = EditsOf(d) BY DEF CreateWorktree, EditsOf
<1>3. EditsOf(c) = {}
  <2>1. 1 .. 0 = {} OBVIOUS
  <2> QED BY <2>1 DEF CreateWorktree, CheckoutsFit, EditsOf
<1>4. \A d \in Children : d # c => OnBranch(d)' = OnBranch(d)
  BY DEF CreateWorktree, OnBranch, WorktreeTypes
<1>5. CheckoutsFit'
  BY BranchesAreSets DEF CreateWorktree, CheckoutsFit, WorktreeTypes
<1>6. \A m \in Mergers : merge[m] # Free =>
        merge[m].child # c /\ merge[m].child \in Children
  BY DEF CreateWorktree, MergesFit, WorktreeTypes
<1>7. MergesFit'
  BY <1>2, <1>4, <1>6 DEF MergesFit, CreateWorktree, WorktreeTypes
<1>8. NoEditIsLost'
  BY <1>2, <1>3 DEF NoEditIsLost, CreateWorktree, WorktreeTypes
<1>9. MergeIsComplete' BY DEF CreateWorktree, MergeIsComplete
<1> QED BY <1>1, <1>5, <1>7, <1>8, <1>9

(* The edits a child has made change only with how many it has made. *)
LEMMA EditsOfSame == ASSUME UNCHANGED made PROVE \A c : EditsOf(c)' = EditsOf(c)
BY DEF EditsOf

(* The child writes a file in its checkout. *)
LEMMA EditKeeps ==
    ASSUME WorktreeInv, NEW c \in Children, Edit(c)
    PROVE  WorktreeInv'
<1> USE DEF WorktreeInv
<1> DEFINE e == <<c, made[c] + 1>>
<1>0. e \in Children \X Nat BY DEF WorktreeTypes
<1>1. WorktreeTypes'
  <2>1. /\ made' \in [Children -> Nat] /\ loose' \in [Children -> EditSets]
        /\ given' \in EditSets
    BY <1>0 DEF Edit, WorktreeTypes, EditSets
  <2> QED BY <2>1 DEF Edit, WorktreeTypes
<1>2. EditsOf(c)' = EditsOf(c) \cup {e}
  <2>1. made[c] \in Nat /\ made'[c] = made[c] + 1 BY DEF Edit, WorktreeTypes
  <2>2. 1 .. made'[c] = (1 .. made[c]) \cup {made[c] + 1} BY <2>1
  <2> QED BY <2>2 DEF EditsOf
<1>3. \A d \in Children : d # c => EditsOf(d)' = EditsOf(d)
  BY DEF Edit, EditsOf, WorktreeTypes
<1>4. \A d : OnBranch(d)' = OnBranch(d) BY DEF Edit, OnBranch
<1>5. given \subseteq given' BY DEF Edit
<1>6. \A d \in Children : loose'[d] = IF d = c THEN loose[d] \cup {e} ELSE loose[d]
  BY DEF Edit, WorktreeTypes
<1>7. CheckoutsFit' BY <1>6 DEF Edit, CheckoutsFit, WorktreeTypes
<1>8. MergesFit'
  <2> SUFFICES ASSUME NEW m \in Mergers, merge[m] # Free, NEW d \in Children,
        d = merge[m].child
               PROVE  /\ status[d] # "none"
                      /\ merge[m].owes \subseteq EditsOf(d)'
                      /\ merge[m].cleanup \/ merge[m].drop =>
                            /\ EditsOf(d)' \subseteq merge[m].owes \cup given'
                            /\ merge[m].step # "commit" => loose'[d] \subseteq given'
                      /\ merge[m].step = "merge" =>
                           merge[m].owes \ given' \subseteq OnBranch(d)' \cup parent
    <3>1. \A m \in Mergers : merge[m] # Free => merge[m].child \in Children
      BY DEF WorktreeTypes
    <3> QED BY <3>1 DEF Edit, MergesFit
  <2>1. /\ status[d] # "none"
        /\ merge[m].owes \subseteq EditsOf(d)
        /\ merge[m].cleanup \/ merge[m].drop =>
              /\ EditsOf(d) \subseteq merge[m].owes \cup given
              /\ merge[m].step # "commit" => loose[d] \subseteq given
        /\ merge[m].step = "merge" =>
             merge[m].owes \ given \subseteq OnBranch(d) \cup parent
    BY DEF MergesFit
  <2>2. (merge[m].cleanup \/ merge[m].drop) /\ d = c => e \in given'
    BY DEF Edit, Underway
  <2> HIDE DEF e
  <2> QED BY <1>2, <1>3, <1>4, <1>5, <1>6, <2>1, <2>2
<1>9. NoEditIsLost' BY <1>2, <1>3, <1>5, <1>6 DEF Edit, NoEditIsLost
<1>10. MergeIsComplete' BY <1>5 DEF Edit, MergeIsComplete
<1> QED BY <1>1, <1>7, <1>8, <1>9, <1>10

(* What was not committed goes to the branch. *)
LEMMA Committing ==
    ASSUME WorktreeInv, NEW c \in Children, c \in dir,
           tip' = [tip EXCEPT ![c] = @ \cup loose[c]], loose' = [loose EXCEPT ![c] = {}]
    PROVE  /\ tip' \in [Children -> EditSets \cup {NoBranch}]
           /\ loose' \in [Children -> EditSets]
           /\ \A d \in Children :
                OnBranch(d)' = IF d = c THEN OnBranch(d) \cup loose[d] ELSE OnBranch(d)
           /\ \A d \in Children : loose'[d] = IF d = c THEN {} ELSE loose[d]
           /\ \A d \in Children : d \in dir => tip'[d] # NoBranch
           /\ \A d \in Children : d \notin dir => loose'[d] = {}
<1> USE DEF WorktreeInv
<1>1. tip[c] \in EditSets /\ tip[c] # NoBranch /\ loose[c] \in EditSets
  BY DEF WorktreeTypes, CheckoutsFit
<1>2. tip[c] \cup loose[c] \in EditSets BY <1>1 DEF EditSets
<1>3. tip[c] \cup loose[c] # NoBranch BY <1>2, BranchesAreSets
<1>4. \A d \in Children : tip'[d] = IF d = c THEN tip[c] \cup loose[c] ELSE tip[d]
  BY DEF WorktreeTypes
<1>5. tip' \in [Children -> EditSets \cup {NoBranch}] BY <1>2 DEF WorktreeTypes
<1>6. loose' \in [Children -> EditSets] BY DEF WorktreeTypes, EditSets
<1>7. \A d \in Children : loose'[d] = IF d = c THEN {} ELSE loose[d] BY DEF WorktreeTypes
<1>8. \A d \in Children :
        OnBranch(d)' = IF d = c THEN OnBranch(d) \cup loose[d] ELSE OnBranch(d)
  BY <1>1, <1>3, <1>4 DEF OnBranch
<1> QED BY <1>1, <1>3, <1>4, <1>5, <1>6, <1>7, <1>8 DEF CheckoutsFit

(* The child commits in its own shell. *)
LEMMA ChildCommitsKeeps ==
    ASSUME WorktreeInv, NEW c \in Children, ChildCommits(c)
    PROVE  WorktreeInv'
<1> USE DEF WorktreeInv
<1>1. /\ c \in dir /\ tip' = [tip EXCEPT ![c] = @ \cup loose[c]]
      /\ loose' = [loose EXCEPT ![c] = {}]
      /\ UNCHANGED <<status, resumes, dir, made, parent, conflicted, merge, landed,
           envCleanup, given>>
  BY DEF ChildCommits
<1>2. /\ tip' \in [Children -> EditSets \cup {NoBranch}]
      /\ loose' \in [Children -> EditSets]
      /\ \A d \in Children :
           OnBranch(d)' = IF d = c THEN OnBranch(d) \cup loose[d] ELSE OnBranch(d)
      /\ \A d \in Children : loose'[d] = IF d = c THEN {} ELSE loose[d]
      /\ \A d \in Children : d \in dir => tip'[d] # NoBranch
      /\ \A d \in Children : d \notin dir => loose'[d] = {}
  BY <1>1, Committing
<1>3. WorktreeTypes' BY <1>1, <1>2 DEF WorktreeTypes
<1>4. CheckoutsFit' BY <1>1, <1>2 DEF CheckoutsFit
<1>5. \A d : EditsOf(d)' = EditsOf(d) BY <1>1, EditsOfSame
<1>6. \A m \in Mergers : merge[m] # Free => merge[m].child \in Children
  BY DEF WorktreeTypes
<1>7. MergesFit' BY <1>1, <1>2, <1>5, <1>6 DEF MergesFit
<1>8. NoEditIsLost' BY <1>1, <1>2, <1>5 DEF NoEditIsLost, OnBranch
<1>9. MergeIsComplete' BY <1>1 DEF MergeIsComplete
<1> QED BY <1>3, <1>4, <1>7, <1>8, <1>9

(* The child's run ends, and its worktree is removed only if nothing is in *)
(* it.                                                                     *)
LEMMA RunEndsKeeps ==
    ASSUME WorktreeInv, NEW c \in Children, RunEnds(c)
    PROVE  WorktreeInv'
<1> USE DEF WorktreeInv
<1>1. /\ UNCHANGED <<resumes, made, tip, parent, conflicted, merge, envCleanup>>
      /\ \A d \in Children : status[d] # "none" <=> status'[d] # "none"
      /\ given \subseteq given'
      /\ \A d \in Children : d \in dir' => d \in dir
      /\ \A d \in Children : \/ loose'[d] = loose[d]
                             \/ loose'[d] = {} /\ loose[d] \subseteq given'
      /\ \A d \in Children : d \in dir /\ d \notin dir' => loose'[d] = {}
      /\ \A d \in Children : d \notin dir => loose'[d] = loose[d] \/ loose'[d] = {}
  BY DEF RunEnds, WorktreeTypes
<1>2. WorktreeTypes'
  <2>1. status' \in [Children -> {"none", "running", "completed", "failed"}]
    BY DEF RunEnds, WorktreeTypes
  <2>2. dir' \subseteq Children /\ loose' \in [Children -> EditSets]
          /\ given' \in EditSets
    BY DEF RunEnds, WorktreeTypes, EditSets
  <2>3. landed' \in [ever : SUBSET Children, noted : SUBSET Children,
          armed : SUBSET Children]
    BY DEF RunEnds, WorktreeTypes
  <2> QED BY <1>1, <2>1, <2>2, <2>3 DEF WorktreeTypes
<1>3. CheckoutsFit' BY <1>1 DEF CheckoutsFit
<1>4. \A d : EditsOf(d)' = EditsOf(d) /\ OnBranch(d)' = OnBranch(d)
  BY <1>1, EditsOfSame DEF OnBranch
<1>5. \A m \in Mergers : merge[m] # Free => merge[m].child \in Children
  BY DEF WorktreeTypes
<1>6. MergesFit' BY <1>1, <1>4, <1>5 DEF MergesFit
<1>7. NoEditIsLost' BY <1>1, <1>4 DEF NoEditIsLost
<1>8. MergeIsComplete' BY <1>1 DEF MergeIsComplete
<1> QED BY <1>2, <1>3, <1>6, <1>7, <1>8

(* A resume finds the worktree, or makes the directory again from its      *)
(* branch.                                                                 *)
LEMMA ReattachKeeps ==
    ASSUME WorktreeInv, NEW c \in Children, ReattachWorktree(c)
    PROVE  WorktreeInv'
<1> USE DEF WorktreeInv
<1>1. /\ UNCHANGED <<made, loose, tip, parent, conflicted, merge, envCleanup, given>>
      /\ \A d \in Children : status[d] # "none" <=> status'[d] # "none"
      /\ \A d \in Children : d \in dir => d \in dir'
      /\ \A d \in Children : d \in dir' => d \in dir \/ tip[d] # NoBranch
  BY DEF ReattachWorktree, WorktreeTypes
<1>2. WorktreeTypes' BY DEF ReattachWorktree, WorktreeTypes
<1>3. CheckoutsFit' BY <1>1 DEF CheckoutsFit
<1>4. \A d : EditsOf(d)' = EditsOf(d) /\ OnBranch(d)' = OnBranch(d)
  BY <1>1, EditsOfSame DEF OnBranch
<1>5. \A m \in Mergers : merge[m] # Free => merge[m].child \in Children
  BY DEF WorktreeTypes
<1>6. MergesFit' BY <1>1, <1>4, <1>5 DEF MergesFit
<1>7. NoEditIsLost' BY <1>1, <1>4 DEF NoEditIsLost
<1>8. MergeIsComplete' BY <1>1 DEF MergeIsComplete
<1> QED BY <1>2, <1>3, <1>6, <1>7, <1>8

(* The terminal asks for a second Ctrl+M. *)
LEMMA ArmKeeps ==
    ASSUME WorktreeInv, NEW c \in Children, Arm(c)
    PROVE  WorktreeInv'
<1>1. WorktreeTypes' BY DEF Arm, WorktreeInv, WorktreeTypes
<1> QED BY <1>1, Quiet DEF Arm

(* What a merge that is under way holds, given by itself. *)
MergeFits(m) ==
    LET c == merge[m].child IN
    /\ status[c] # "none"
    /\ merge[m].owes \subseteq EditsOf(c)
    /\ merge[m].cleanup \/ merge[m].drop =>
          /\ EditsOf(c) \subseteq merge[m].owes \cup given
          /\ merge[m].step # "commit" => loose[c] \subseteq given
    /\ merge[m].step = "merge" => merge[m].owes \ given \subseteq OnBranch(c) \cup parent

(* A merge of a child that has ended begins. *)
LEMMA MergeBeginsKeeps ==
    ASSUME WorktreeInv, NEW c \in Children, NEW m \in Mergers, NEW cleanup \in BOOLEAN,
           NEW drop \in BOOLEAN, MergeBegins(m, c, cleanup, drop)
    PROVE  WorktreeInv'
<1> USE DEF WorktreeInv
<1> DEFINE new == [child |-> c, step |-> "commit", cleanup |-> cleanup, drop |-> drop,
                   owes |-> EditsOf(c) \ given]
<1>1. /\ UNCHANGED <<status, resumes, dir, made, loose, tip, parent, conflicted,
           envCleanup, given>>
      /\ merge' = [merge EXCEPT ![m] = new] /\ status[c] # "none"
  BY DEF MergeBegins
<1>2. EditsOf(c) \in EditSets
  BY DEF EditsOf, EditSets, WorktreeTypes
<1>3. new \in [child : Children, step : Steps, cleanup : BOOLEAN, drop : BOOLEAN,
        owes : EditSets]
  BY <1>2 DEF EditSets, Steps
<1>4. WorktreeTypes'
  <2>1. landed' \in [ever : SUBSET Children, noted : SUBSET Children,
          armed : SUBSET Children]
    BY DEF MergeBegins, WorktreeTypes
  <2>2. merge' \in [Mergers -> {Free} \cup [child : Children, step : Steps,
          cleanup : BOOLEAN,
                                            drop : BOOLEAN, owes : EditSets]]
    BY <1>1, <1>3 DEF WorktreeTypes
  <2> QED BY <1>1, <2>1, <2>2 DEF WorktreeTypes
<1>5. CheckoutsFit' BY <1>1 DEF CheckoutsFit
<1>6. \A d : EditsOf(d)' = EditsOf(d) /\ OnBranch(d)' = OnBranch(d)
  BY <1>1, EditsOfSame DEF OnBranch
<1>7. merge'[m] = new /\ \A n \in Mergers : n # m => merge'[n] = merge[n]
  BY <1>1 DEF WorktreeTypes
<1>8. \A n \in Mergers : merge[n] # Free => merge[n].child \in Children
  BY DEF WorktreeTypes
<1>9. MergesFit'
  <2> SUFFICES ASSUME NEW n \in Mergers, merge'[n] # Free PROVE MergeFits(n)'
    BY DEF MergesFit, MergeFits
  <2>1. CASE n = m BY <1>1, <1>6, <1>7, <2>1 DEF MergeFits
  <2>2. CASE n # m
    <3>1. MergeFits(n) BY <1>7, <2>2 DEF MergesFit, MergeFits
    <3> QED BY <1>1, <1>6, <1>7, <1>8, <2>2, <3>1 DEF MergeFits
  <2> QED BY <2>1, <2>2
<1>10. NoEditIsLost' BY <1>1, <1>6 DEF NoEditIsLost
<1>11. MergeIsComplete' BY <1>1, <1>7 DEF MergeIsComplete
<1> QED BY <1>4, <1>5, <1>9, <1>10, <1>11

(* The step of a merge moves, or the merge is over. *)
LEMMA Answering ==
    ASSUME WorktreeInv, NEW m \in Mergers, merge[m] # Free,
      NEW step \in Steps \cup {"failed"},
           Answer(m, step)
    PROVE  /\ merge' \in [Mergers -> {Free} \cup [child : Children, step : Steps,
                cleanup : BOOLEAN,
                                                  drop : BOOLEAN, owes : EditSets]]
           /\ \A n \in Mergers : n # m => merge'[n] = merge[n]
           /\ step = "failed" => merge'[m] = Free
           /\ step # "failed" =>
                /\ merge'[m].step = step /\ merge'[m].child = merge[m].child
                /\ merge'[m].cleanup = merge[m].cleanup /\ merge'[m].drop = merge[m].drop
                /\ merge'[m].owes = merge[m].owes
BY DEF WorktreeInv, WorktreeTypes, Answer, Steps

(* Whoever is at a step of a merge merges some child. *)
LEMMA Underways ==
    ASSUME WorktreeInv, NEW m \in Mergers, merge[m].step \in Steps
    PROVE  merge[m] # Free /\ merge[m].child \in Children
BY DEF WorktreeInv, WorktreeTypes, Steps, Free

(* The merge commits what is loose in the worktree, or gives up. *)
LEMMA CommitKeeps ==
    ASSUME WorktreeInv, NEW m \in Mergers, CommitWorktreeChanges(m)
    PROVE  WorktreeInv'
<1> USE DEF WorktreeInv
<1>0. merge[m] # Free /\ merge[m].child \in Children
  BY Underways DEF CommitWorktreeChanges, Steps
<1>1. PICK c \in Children : c = merge[m].child BY <1>0
<1>2. /\ UNCHANGED <<status, resumes, dir, made, parent, conflicted, landed, envCleanup,
           given>>
      /\ \/ Answer(m, "merge") /\ c \notin dir /\ UNCHANGED <<tip, loose>>
         \/ /\ Answer(m, "merge") /\ c \in dir
            /\ tip' = [tip EXCEPT ![c] = @ \cup loose[c]]
            /\ loose' = [loose EXCEPT ![c] = {}]
         \/ Answer(m, "failed") /\ c \in dir /\ UNCHANGED <<tip, loose>>
      /\ merge[m].step = "commit"
  BY <1>1 DEF CommitWorktreeChanges
<1>3. /\ tip' \in [Children -> EditSets \cup {NoBranch}]
      /\ loose' \in [Children -> EditSets]
      /\ \A d \in Children : OnBranch(d) \subseteq OnBranch(d)'
      /\ \A d \in Children : OnBranch(d) \cup loose[d] = OnBranch(d)' \cup loose'[d]
      /\ \A d \in Children : loose'[d] \subseteq loose[d]
      /\ \A d \in Children : d \in dir => tip'[d] # NoBranch
      /\ \A d \in Children : d \notin dir => loose'[d] = {}
  <2>1. CASE UNCHANGED <<tip, loose>>
    BY <2>1 DEF WorktreeTypes, CheckoutsFit, OnBranch
  <2>2. CASE /\ c \in dir /\ tip' = [tip EXCEPT ![c] = @ \cup loose[c]]
             /\ loose' = [loose EXCEPT ![c] = {}]
    <3>1. /\ \A d \in Children :
               OnBranch(d)' = IF d = c THEN OnBranch(d) \cup loose[d] ELSE OnBranch(d)
          /\ \A d \in Children : loose'[d] = IF d = c THEN {} ELSE loose[d]
      BY <1>1, <2>2, Committing
    <3>2. /\ tip' \in [Children -> EditSets \cup {NoBranch}]
          /\ loose' \in [Children -> EditSets]
          /\ \A d \in Children : d \in dir => tip'[d] # NoBranch
          /\ \A d \in Children : d \notin dir => loose'[d] = {}
      BY <1>1, <2>2, Committing
    <3>3. \A d \in Children : /\ OnBranch(d) \subseteq OnBranch(d)'
            /\ loose'[d] \subseteq loose[d]
                             /\ OnBranch(d) \cup loose[d] = OnBranch(d)' \cup loose'[d]
      BY <3>1
    <3> QED BY <3>2, <3>3
  <2> QED BY <1>2, <2>1, <2>2
<1>4. /\ merge' \in [Mergers -> {Free} \cup [child : Children, step : Steps,
           cleanup : BOOLEAN,
                                             drop : BOOLEAN, owes : EditSets]]
      /\ \A n \in Mergers : n # m => merge'[n] = merge[n]
      /\ \/ merge'[m] = Free
         \/ /\ merge'[m].step = "merge" /\ merge'[m].child = c
            /\ merge'[m].owes = merge[m].owes
            /\ merge'[m].cleanup = merge[m].cleanup /\ merge'[m].drop = merge[m].drop
            /\ loose'[c] = {}
  <2>1. CASE Answer(m, "failed") BY <1>0, <2>1, Answering
  <2>2. CASE Answer(m, "merge") /\ loose'[c] = {}
    <3>1. "merge" \in Steps \cup {"failed"} BY DEF Steps
    <3> QED BY <1>0, <1>1, <2>2, <3>1, Answering
  <2>3. c \notin dir => loose'[c] = {} BY <1>3
  <2>4. loose' = [loose EXCEPT ![c] = {}] => loose'[c] = {} BY DEF WorktreeTypes
  <2> QED BY <1>2, <2>1, <2>2, <2>3, <2>4
<1>5. WorktreeTypes' BY <1>2, <1>3, <1>4 DEF WorktreeTypes
<1>6. CheckoutsFit' BY <1>2, <1>3 DEF CheckoutsFit
<1>7. \A d : EditsOf(d)' = EditsOf(d) BY <1>2, EditsOfSame
<1>8. NoEditIsLost'
  <2> SUFFICES ASSUME NEW d \in Children
               PROVE  EditsOf(d)' \ given' \subseteq loose'[d] \cup OnBranch(d)' \cup parent'
    BY DEF NoEditIsLost, OnBranch
  <2>1. EditsOf(d) \ given \subseteq loose[d] \cup OnBranch(d) \cup parent
    BY DEF NoEditIsLost, OnBranch
  <2> QED BY <1>2, <1>3, <1>7, <2>1
<1>9. MergesFit'
  <2> SUFFICES ASSUME NEW n \in Mergers, merge'[n] # Free PROVE MergeFits(n)'
    BY DEF MergesFit, MergeFits
  <2>1. CASE n = m
    <3>1. MergeFits(m) BY <1>0 DEF MergesFit, MergeFits
    <3>2. EditsOf(c) \ given \subseteq OnBranch(c)' \cup parent
      <4>1. loose'[c] = {} BY <1>4, <2>1
      <4>2. EditsOf(c)' \ given' \subseteq loose'[c] \cup OnBranch(c)' \cup parent'
        BY <1>1, <1>8 DEF NoEditIsLost, OnBranch
      <4> QED BY <1>2, <1>7, <4>1, <4>2
    <3> QED BY <1>0, <1>1, <1>2, <1>3, <1>4, <1>7, <2>1, <3>1, <3>2 DEF MergeFits
  <2>2. CASE n # m
    <3>1. MergeFits(n) /\ merge[n].child \in Children
      BY <1>4, <2>2 DEF MergesFit, MergeFits, WorktreeTypes
    <3> QED BY <1>2, <1>3, <1>4, <1>7, <2>2, <3>1 DEF MergeFits
  <2> QED BY <2>1, <2>2
<1>10. MergeIsComplete'
  <2> SUFFICES ASSUME NEW n \in Mergers, merge'[n].step \in {"remove", "delete"}
               PROVE  merge'[n].owes \ given' \subseteq parent'
    BY DEF MergeIsComplete
  <2>1. n # m BY <1>4 DEF Free
  <2> QED BY <1>2, <1>4, <2>1 DEF MergeIsComplete
<1> QED BY <1>5, <1>6, <1>8, <1>9, <1>10

(* git merges the branch into the parent's, or stops in a conflict. *)
LEMMA GitMergeKeeps ==
    ASSUME WorktreeInv, NEW m \in Mergers, GitMerge(m)
    PROVE  WorktreeInv'
<1> USE DEF WorktreeInv
<1> DEFINE c == merge[m].child
<1>1. merge[m] # Free /\ c \in Children BY Underways DEF GitMerge, Steps
<1>2. /\ UNCHANGED <<status, resumes, dir, made, loose, tip, landed, envCleanup, given>>
      /\ \/ tip[c] # NoBranch /\ parent' = parent \cup tip[c] /\ Answer(m, "remove")
         \/ Answer(m, "failed") /\ parent' = parent
      /\ conflicted' \in BOOLEAN /\ merge[m].step = "merge"
  BY DEF GitMerge, WorktreeTypes
<1> HIDE DEF c
<1>3. parent \subseteq parent' /\ parent' \in EditSets
  BY <1>1, <1>2 DEF WorktreeTypes, EditSets
<1>4. /\ merge' \in [Mergers -> {Free} \cup [child : Children, step : Steps,
           cleanup : BOOLEAN,
                                             drop : BOOLEAN, owes : EditSets]]
      /\ \A n \in Mergers : n # m => merge'[n] = merge[n]
      /\ \/ merge'[m] = Free
         \/ /\ merge'[m].step = "remove" /\ merge'[m].child = c
            /\ merge'[m].owes = merge[m].owes
            /\ merge'[m].cleanup = merge[m].cleanup /\ merge'[m].drop = merge[m].drop
            /\ parent' = parent \cup tip[c] /\ tip[c] # NoBranch
  BY <1>1, <1>2, Answering DEF Steps, c
<1>5. WorktreeTypes' BY <1>2, <1>3, <1>4 DEF WorktreeTypes
<1>6. CheckoutsFit' BY <1>2 DEF CheckoutsFit
<1>7. \A d : EditsOf(d)' = EditsOf(d) /\ OnBranch(d)' = OnBranch(d)
  BY <1>2, EditsOfSame DEF OnBranch
<1>8. NoEditIsLost' BY <1>2, <1>3, <1>7 DEF NoEditIsLost
<1>9. MergeFits(m) BY <1>1 DEF MergesFit, MergeFits
<1>10. MergesFit'
  <2> SUFFICES ASSUME NEW n \in Mergers, merge'[n] # Free PROVE MergeFits(n)'
    BY DEF MergesFit, MergeFits
  <2>1. CASE n = m BY <1>2, <1>3, <1>4, <1>7, <1>9, <2>1 DEF MergeFits, c
  <2>2. CASE n # m
    <3>1. MergeFits(n) /\ merge[n].child \in Children
      BY <1>4, <2>2 DEF MergesFit, MergeFits, WorktreeTypes
    <3> QED BY <1>2, <1>3, <1>4, <1>7, <2>2, <3>1 DEF MergeFits
  <2> QED BY <2>1, <2>2
<1>11. MergeIsComplete'
  <2> SUFFICES ASSUME NEW n \in Mergers, merge'[n].step \in {"remove", "delete"}
               PROVE  merge'[n].owes \ given' \subseteq parent'
    BY DEF MergeIsComplete
  <2>1. CASE n = m
    <3>1. merge'[m].owes = merge[m].owes /\ parent' = parent \cup OnBranch(c)
      BY <1>4, <2>1 DEF Free, OnBranch
    <3> QED BY <1>2, <1>9, <2>1, <3>1 DEF MergeFits, c
  <2>2. CASE n # m BY <1>2, <1>3, <1>4, <2>2 DEF MergeIsComplete
  <2> QED BY <2>1, <2>2
<1> QED BY <1>5, <1>6, <1>8, <1>10, <1>11

(* The directory goes after a clean merge, its edits being in the parent. *)
LEMMA RemoveKeeps ==
    ASSUME WorktreeInv, NEW m \in Mergers, RemoveWorktree(m)
    PROVE  WorktreeInv'
<1> USE DEF WorktreeInv
<1> DEFINE c == merge[m].child
<1>1. merge[m] # Free /\ c \in Children BY Underways DEF RemoveWorktree, Steps
<1>2. /\ UNCHANGED <<status, resumes, made, tip, parent, conflicted, landed, envCleanup,
           given>>
      /\ merge[m].step = "remove" /\ Answer(m, "delete")
      /\ \/ merge[m].cleanup /\ dir' = dir \ {c} /\ loose' = [loose EXCEPT ![c] = {}]
         \/ UNCHANGED <<dir, loose>>
  BY DEF RemoveWorktree
<1>3. MergeFits(m) BY <1>1 DEF MergesFit, MergeFits
<1>4. /\ loose' \in [Children -> EditSets] /\ dir' \subseteq dir
      /\ \A d \in Children :
           loose'[d] = loose[d] \/ (loose'[d] = {} /\ loose[d] \subseteq given)
      /\ \A d \in Children : d \notin dir' => loose'[d] = {}
  <2>1. CASE UNCHANGED <<dir, loose>> BY <2>1 DEF WorktreeTypes, CheckoutsFit
  <2>2. CASE merge[m].cleanup /\ dir' = dir \ {c} /\ loose' = [loose EXCEPT ![c] = {}]
    <3>1. loose[c] \subseteq given BY <1>2, <1>3, <2>2 DEF MergeFits
    <3>2. \A d \in Children : loose'[d] = IF d = c THEN {} ELSE loose[d]
      BY <2>2 DEF WorktreeTypes
    <3>3. loose' \in [Children -> EditSets] BY <2>2 DEF WorktreeTypes, EditSets
    <3> QED BY <2>2, <3>1, <3>2, <3>3 DEF CheckoutsFit
  <2> QED BY <1>2, <2>1, <2>2
<1> HIDE DEF c
<1>5. /\ merge' \in [Mergers -> {Free} \cup [child : Children, step : Steps,
           cleanup : BOOLEAN,
                                             drop : BOOLEAN, owes : EditSets]]
      /\ \A n \in Mergers : n # m => merge'[n] = merge[n]
      /\ merge'[m].step = "delete" /\ merge'[m].child = c
      /\ merge'[m].owes = merge[m].owes
      /\ merge'[m].cleanup = merge[m].cleanup /\ merge'[m].drop = merge[m].drop
  BY <1>1, <1>2, Answering DEF Steps, c
<1>6. WorktreeTypes' BY <1>2, <1>4, <1>5 DEF WorktreeTypes
<1>7. CheckoutsFit' BY <1>2, <1>4 DEF CheckoutsFit
<1>8. \A d : EditsOf(d)' = EditsOf(d) /\ OnBranch(d)' = OnBranch(d)
  BY <1>2, EditsOfSame DEF OnBranch
<1>9. NoEditIsLost' BY <1>2, <1>4, <1>8 DEF NoEditIsLost
<1>10. MergesFit'
  <2> SUFFICES ASSUME NEW n \in Mergers, merge'[n] # Free PROVE MergeFits(n)'
    BY DEF MergesFit, MergeFits
  <2>1. CASE n = m
    <3>1. loose'[c] \subseteq loose[c] BY <1>1, <1>4
    <3> QED BY <1>2, <1>3, <1>5, <1>8, <2>1, <3>1 DEF MergeFits, c
  <2>2. CASE n # m
    <3>1. MergeFits(n) /\ merge[n].child \in Children
      BY <1>5, <2>2 DEF MergesFit, MergeFits, WorktreeTypes
    <3>2. loose'[merge[n].child] \subseteq loose[merge[n].child] BY <1>4, <3>1
    <3> QED BY <1>2, <1>5, <1>8, <2>2, <3>1, <3>2 DEF MergeFits
  <2> QED BY <2>1, <2>2
<1>11. MergeIsComplete' BY <1>2, <1>5 DEF MergeIsComplete
<1> QED BY <1>6, <1>7, <1>9, <1>10, <1>11

(* A branch that goes had nothing the parent has not. *)
LEMMA DeleteKeeps ==
    ASSUME WorktreeInv, NEW m \in Mergers, DeleteBranch(m)
    PROVE  WorktreeInv'
<1> USE DEF WorktreeInv
<1> DEFINE c == merge[m].child
<1>1. merge[m] # Free /\ c \in Children BY Underways DEF DeleteBranch, Steps
<1>2. /\ UNCHANGED <<status, resumes, dir, made, loose, parent, conflicted, envCleanup,
           given>>
      /\ merge[m].step = "delete" /\ Answer(m, "failed")
      /\ tip' = IF merge[m].drop
           /\ c \notin dir THEN [tip EXCEPT ![c] = NoBranch] ELSE tip
  BY DEF DeleteBranch
<1>3. landed' \in [ever : SUBSET Children, noted : SUBSET Children,
        armed : SUBSET Children]
  BY <1>1 DEF DeleteBranch, WorktreeTypes
<1>4. MergeFits(m) BY <1>1 DEF MergesFit, MergeFits
<1>5. merge[m].owes \ given \subseteq parent BY <1>2 DEF MergeIsComplete
<1> HIDE DEF c
<1>6. /\ tip' \in [Children -> EditSets \cup {NoBranch}]
      /\ \A d \in Children : d \in dir => tip'[d] # NoBranch
      /\ \A d \in Children : \/ OnBranch(d)' = OnBranch(d)
                             \/ d = c /\ merge[m].drop /\ c \notin dir
  <2>1. tip' \in [Children -> EditSets \cup {NoBranch}] BY <1>1, <1>2 DEF WorktreeTypes
  <2>2. \A d \in Children : tip'[d] = tip[d] \/ (d = c /\ merge[m].drop /\ c \notin dir)
    BY <1>1, <1>2 DEF WorktreeTypes
  <2> QED BY <2>1, <2>2 DEF CheckoutsFit, OnBranch
<1>7. \A d \in Children : OnBranch(d)' # OnBranch(d) =>
        EditsOf(d) \ given \subseteq parent
  BY <1>4, <1>5, <1>6 DEF MergeFits, c
<1>8. /\ merge' \in [Mergers -> {Free} \cup [child : Children, step : Steps,
           cleanup : BOOLEAN,
                                             drop : BOOLEAN, owes : EditSets]]
      /\ \A n \in Mergers : n # m => merge'[n] = merge[n]
      /\ merge'[m] = Free
  BY <1>1, <1>2, Answering DEF Steps
<1>9. WorktreeTypes' BY <1>2, <1>3, <1>6, <1>8 DEF WorktreeTypes
<1>10. CheckoutsFit' BY <1>2, <1>6 DEF CheckoutsFit
<1>11. \A d : EditsOf(d)' = EditsOf(d) BY <1>2, EditsOfSame
<1>12. NoEditIsLost'
  <2> SUFFICES ASSUME NEW d \in Children
               PROVE  EditsOf(d)' \ given' \subseteq loose'[d] \cup OnBranch(d)' \cup parent'
    BY DEF NoEditIsLost, OnBranch
  <2>1. EditsOf(d) \ given \subseteq loose[d] \cup OnBranch(d) \cup parent
    BY DEF NoEditIsLost, OnBranch
  <2> QED BY <1>2, <1>7, <1>11, <2>1
<1>13. MergesFit'
  <2> SUFFICES ASSUME NEW n \in Mergers, merge'[n] # Free PROVE MergeFits(n)'
    BY DEF MergesFit, MergeFits
  <2>1. n # m BY <1>8
  <2>2. MergeFits(n) /\ merge[n].child \in Children
    BY <1>8, <2>1 DEF MergesFit, MergeFits, WorktreeTypes
  <2> QED BY <1>2, <1>7, <1>8, <1>11, <2>1, <2>2 DEF MergeFits
<1>14. MergeIsComplete'
  <2>1. \A n \in Mergers : merge'[n].step \in {"remove", "delete"} => n # m
    BY <1>8 DEF Free
  <2> QED BY <1>2, <1>8, <2>1 DEF MergeIsComplete
<1> QED BY <1>9, <1>10, <1>12, <1>13, <1>14

(* The user ends a merge that stopped in a conflict. *)
LEMMA ResolveKeeps ==
    ASSUME WorktreeInv, Resolve
    PROVE  WorktreeInv'
<1> USE DEF WorktreeInv
<1>1. /\ UNCHANGED <<status, resumes, dir, made, loose, tip, merge, landed, envCleanup,
           given>>
      /\ conflicted' = FALSE /\ parent \subseteq parent' /\ parent' \in EditSets
  BY DEF Resolve, WorktreeTypes, EditSets
<1>2. WorktreeTypes' BY <1>1 DEF WorktreeTypes
<1>3. CheckoutsFit' BY <1>1 DEF CheckoutsFit
<1>4. \A d : EditsOf(d)' = EditsOf(d) /\ OnBranch(d)' = OnBranch(d)
  BY <1>1, EditsOfSame DEF OnBranch
<1>5. \A n \in Mergers : merge[n] # Free => merge[n].child \in Children
  BY DEF WorktreeTypes
<1>6. MergesFit' BY <1>1, <1>4, <1>5 DEF MergesFit
<1>7. NoEditIsLost' BY <1>1, <1>4 DEF NoEditIsLost
<1>8. MergeIsComplete' BY <1>1 DEF MergeIsComplete
<1> QED BY <1>2, <1>3, <1>6, <1>7, <1>8

(* Every step of a worktree keeps the invariant. *)
LEMMA WorktreeStep == WorktreeInv /\ [WorktreeNext]_worktrees => WorktreeInv'
<1> SUFFICES ASSUME WorktreeInv, [WorktreeNext]_worktrees PROVE WorktreeInv' OBVIOUS
<1>1. CASE UNCHANGED worktrees
  <2>1. WorktreeTypes' BY <1>1 DEF worktrees, WorktreeInv, WorktreeTypes
  <2> QED BY <1>1, <2>1, Quiet DEF worktrees
<1>2. CASE WorktreeNext
  BY <1>2, CreateKeeps, EditKeeps, ChildCommitsKeeps, RunEndsKeeps, ReattachKeeps,
     ArmKeeps,
     MergeBeginsKeeps, CommitKeeps, GitMergeKeeps, RemoveKeeps, DeleteKeeps, ResolveKeeps
  DEF WorktreeNext
<1> QED BY <1>1, <1>2

(* No edit of a child is lost, whatever a merge by the tool and one by the *)
(* terminal, a resume, a failing run and a conflict do in which order: it  *)
(* is in the worktree, on the branch, in the parent, or in a directory the *)
(* user asked to drop; and who is told that a merge succeeded has          *)
(* everything the child had made when it began (worktree.py,               *)
(* SubagentCoordinator.merge_worktree).                                    *)
THEOREM WorktreesAreSound == WorktreeSpec => [](NoEditIsLost /\ MergeIsComplete)
<1>1. WorktreeInv => NoEditIsLost /\ MergeIsComplete BY DEF WorktreeInv
<1> QED BY <1>1, WorktreeStarts, WorktreeStep, PTL DEF WorktreeSpec

-----------------------------------------------------------------------------
(* The runtime that sessions share (GraphRuntime). *)

(* The invariant holds at first: no runtime is created. *)
LEMMA RuntimeStarts == RuntimeInit => RuntimeInv
<1> SUFFICES ASSUME RuntimeInit PROVE RuntimeInv OBVIOUS
<1> USE DEF RuntimeInit
<1>1. Generations \in Nat /\ Nobody \notin Sessions BY GraphRuntimeAssumption
<1>2. RuntimeTypes
  <2>1. <<>> \in Seq(Sessions \cup {Nobody}) OBVIOUS
  <2> QED BY <1>1, <2>1 DEF RuntimeTypes, Places
<1>3. \A s \in Sessions : sess[s].at = "out" OBVIOUS
<1>4. LivesFit BY <1>1 DEF LivesFit, Gens
<1>5. SessionsFit BY <1>3 DEF SessionsFit, At, Holding
<1>6. WatchesFit BY <1>1, <1>3 DEF WatchesFit, At
<1>7. QueuesFit
  <2>1. DOMAIN <<>> = {} OBVIOUS
  <2> QED BY <1>3, <2>1 DEF QueuesFit, At
<1> QED BY <1>2, <1>4, <1>5, <1>6, <1>7 DEF RuntimeInv

(* A session that goes somewhere else in its runtime. *)
LEMMA Moving ==
    ASSUME RuntimeTypes, NEW s \in Sessions, NEW where \in Places, Goes(s, where)
    PROVE  /\ sess' \in [Sessions -> [at : Places, rt : 0 .. Generations,
                retried : BOOLEAN]]
           /\ sess'[s].at = where /\ sess'[s].rt = sess[s].rt
           /\ \A t \in Sessions : t # s => sess'[t] = sess[t]
BY DEF RuntimeTypes, Goes

(* The queues stay, and so do those that wait in them. *)
LEMMA QueueKept ==
    ASSUME RuntimeInv, UNCHANGED cmds,
           \A s \in Sessions :
             sess'[s] = sess[s] \/ (~At(s, Waits) /\ sess'[s].at # "fenced"),
           \A g \in Gens : life'[g] = "closed" => cmds[g] = <<>>
    PROVE  QueuesFit'
<1> USE DEF RuntimeInv
<1>1. \A g \in Gens : \A i \in DOMAIN cmds[g] : cmds[g][i] # Nobody =>
        cmds[g][i] \in Sessions
  BY DEF RuntimeTypes
<1>2. \A g \in Gens : \A i \in DOMAIN cmds'[g] : cmds'[g][i] # Nobody =>
          /\ (At(cmds[g][i], Waits))' /\ sess'[cmds'[g][i]].rt = g
          /\ (At(cmds[g][i], {"fencing"}))' => i = Len(cmds'[g])
          /\ \A j \in DOMAIN cmds'[g] : cmds'[g][i] = cmds'[g][j] => i = j
  BY <1>1 DEF QueuesFit, At, Waits
<1>3. \A s \in Sessions : At(s, {"fenced"})' => cmds'[sess'[s].rt] = <<>>
  BY DEF QueuesFit, At
<1>4. \A g \in Gens : life'[g] = "closed" => cmds'[g] = <<>> OBVIOUS
<1> QED BY <1>2, <1>3, <1>4 DEF QueuesFit

(* A command joins a queue that no fence is in. *)
LEMMA QueueGrows ==
    ASSUME RuntimeInv, NEW g \in Gens, NEW w \in Sessions \cup {Nobody}, Queued(g, w),
           \A s \in Sessions :
             sess'[s] = sess[s] \/ (~At(s, Waits) /\ sess'[s].at # "fenced"),
           w # Nobody => ~At(w, Waits) /\ sess'[w].at \in Waits /\ sess'[w].rt = g,
           \A s \in Sessions : sess[s].rt = g => ~At(s, {"fencing", "fenced"}),
           \A h \in Gens : life'[h] = "closed" => life[h] = "closed" /\ h # g
    PROVE  QueuesFit' /\ cmds' \in [Gens -> Seq(Sessions \cup {Nobody})]
<1> USE DEF RuntimeInv
<1> DEFINE q == cmds[g]
           r == cmds'[g]
<1>1. q \in Seq(Sessions \cup {Nobody}) BY DEF RuntimeTypes
<1>2. /\ cmds' \in [Gens -> Seq(Sessions \cup {Nobody})] /\ r = Append(q, w)
      /\ \A h \in Gens : h # g => cmds'[h] = cmds[h]
  BY DEF RuntimeTypes, Queued
<1>3. /\ Len(q) \in Nat /\ DOMAIN q = 1 .. Len(q) /\ Len(r) = Len(q) + 1
      /\ DOMAIN r = 1 .. Len(q) + 1
      /\ \A i \in 1 .. Len(q) : r[i] = q[i]
      /\ r[Len(q) + 1] = w
  BY <1>1, <1>2, AppendProperties
<1>4. \A i \in 1 .. Len(q) : q[i] # Nobody =>
          /\ q[i] \in Sessions /\ At(q[i], Waits) /\ sess[q[i]].rt = g
          /\ ~At(q[i], {"fencing"})
          /\ sess'[q[i]] = sess[q[i]] /\ q[i] # w
          /\ \A j \in 1 .. Len(q) : q[i] = q[j] => i = j
  <2> SUFFICES ASSUME NEW i \in 1 .. Len(q), q[i] # Nobody
               PROVE  /\ q[i] \in Sessions /\ At(q[i], Waits) /\ sess[q[i]].rt = g
                      /\ ~At(q[i], {"fencing"})
                      /\ sess'[q[i]] = sess[q[i]] /\ q[i] # w
                      /\ \A j \in 1 .. Len(q) : q[i] = q[j] => i = j
    OBVIOUS
  <2>1. q[i] \in Sessions BY <1>1, <1>3
  <2>2. At(q[i], Waits) /\ sess[q[i]].rt = g /\ \A j \in 1 .. Len(q) : q[i] = q[j] =>
          i = j
    BY <1>3 DEF QueuesFit
  <2>3. ~At(q[i], {"fencing"}) BY <2>1, <2>2 DEF At
  <2>4. sess'[q[i]] = sess[q[i]] BY <2>1, <2>2
  <2> QED BY <2>1, <2>2, <2>3, <2>4
<1>5. \A i \in DOMAIN r : r[i] # Nobody =>
          /\ sess'[r[i]].at \in Waits /\ sess'[r[i]].rt = g
          /\ sess'[r[i]].at = "fencing" => i = Len(r)
          /\ \A j \in DOMAIN r : r[i] = r[j] => i = j
  <2> SUFFICES ASSUME NEW i \in 1 .. Len(q) + 1, r[i] # Nobody
               PROVE  /\ sess'[r[i]].at \in Waits /\ sess'[r[i]].rt = g
                      /\ sess'[r[i]].at = "fencing" => i = Len(r)
                      /\ \A j \in 1 .. Len(q) + 1 : r[i] = r[j] => i = j
    BY <1>3
  <2>0. \A j \in 1 .. Len(q) + 1 : j \in 1 .. Len(q) \/ j = Len(q) + 1 BY <1>3
  <2>1. CASE i = Len(q) + 1 BY <1>3, <1>4, <2>0, <2>1
  <2>2. CASE i \in 1 .. Len(q) BY <1>3, <1>4, <2>0, <2>2, SMTT(30) DEF At
  <2> QED BY <2>0, <2>1, <2>2
<1>6. \A h \in Gens : h # g => \A i \in DOMAIN cmds[h] : cmds[h][i] # Nobody =>
          /\ cmds[h][i] \in Sessions /\ sess'[cmds[h][i]] = sess[cmds[h][i]]
  <2> SUFFICES ASSUME NEW h \in Gens, h # g, NEW i \in DOMAIN cmds[h], cmds[h][i] # Nobody
               PROVE  cmds[h][i] \in Sessions /\ sess'[cmds[h][i]] = sess[cmds[h][i]]
    OBVIOUS
  <2>1. cmds[h] \in Seq(Sessions \cup {Nobody}) BY DEF RuntimeTypes
  <2>2. cmds[h][i] \in Sessions BY <2>1
  <2>3. At(cmds[h][i], Waits) BY DEF QueuesFit
  <2> QED BY <2>2, <2>3
<1> HIDE DEF q, r
<1>7. \A h \in Gens : \A i \in DOMAIN cmds'[h] : cmds'[h][i] # Nobody =>
          /\ sess'[cmds'[h][i]].at \in Waits /\ sess'[cmds'[h][i]].rt = h
          /\ sess'[cmds'[h][i]].at = "fencing" => i = Len(cmds'[h])
          /\ \A j \in DOMAIN cmds'[h] : cmds'[h][i] = cmds'[h][j] => i = j
  <2> SUFFICES ASSUME NEW h \in Gens, NEW i \in DOMAIN cmds'[h], cmds'[h][i] # Nobody
               PROVE  /\ sess'[cmds'[h][i]].at \in Waits /\ sess'[cmds'[h][i]].rt = h
                      /\ sess'[cmds'[h][i]].at = "fencing" => i = Len(cmds'[h])
                      /\ \A j \in DOMAIN cmds'[h] : cmds'[h][i] = cmds'[h][j] => i = j
    OBVIOUS
  <2>1. CASE h = g BY <1>5, <2>1 DEF r
  <2>2. CASE h # g
    <3>1. cmds'[h] = cmds[h] BY <1>2, <2>2
    <3> QED BY <1>6, <2>2, <3>1 DEF QueuesFit, At
  <2> QED BY <2>1, <2>2
<1>8. \A s \in Sessions : sess'[s].at = "fenced" => cmds'[sess'[s].rt] = <<>>
  <2> SUFFICES ASSUME NEW s \in Sessions,
        sess'[s].at = "fenced" PROVE cmds'[sess'[s].rt] = <<>>
    OBVIOUS
  <2>1. sess'[s] = sess[s] OBVIOUS
  <2>2. At(s, {"fenced"}) BY <2>1 DEF At
  <2>3. sess[s].rt # g /\ cmds[sess[s].rt] = <<>> BY <2>2 DEF QueuesFit, At
  <2>4. sess[s].rt \in Gens BY <2>2 DEF SessionsFit, At
  <2> QED BY <1>2, <2>1, <2>3, <2>4
<1>9. \A h \in Gens : life'[h] = "closed" => cmds'[h] = <<>> BY <1>2 DEF QueuesFit
<1> QED BY <1>2, <1>7, <1>8, <1>9 DEF QueuesFit, At

(* A session without a lease that takes none does not disturb the watch. *)
LEMMA WatchKept ==
    ASSUME RuntimeInv, UNCHANGED <<watchers, observer, watchLock>>,
           \A g \in Gens : leases[g] \subseteq leases'[g],
           \A s \in Sessions :
             sess'[s] = sess[s] \/ (~At(s, Holding) /\ sess'[s].at # "flush")
    PROVE  WatchesFit'
<1> USE DEF RuntimeInv
<1>1. \A g \in Gens : \A s \in watchers[g] :
        s \in Sessions /\ At(s, Holding) /\ sess'[s] = sess[s]
  BY DEF RuntimeTypes, WatchesFit, At, Holding
<1>2. \A g \in Gens : \A s \in watchers'[g] :
          s \in leases'[g] /\ At(s, {"open", "asking", "closing", "unwatch"})'
  BY <1>1 DEF WatchesFit, At
<1>3. \A g \in Gens : /\ observer'[g] = "on" <=> watchers'[g] # {}
                      /\ observer'[g] = "stopping" <=> watchLock'[g] # Nobody
  BY DEF WatchesFit
<1>4. \A g \in Gens : \A s \in Sessions :
          watchLock'[g] = s <=> At(s, {"flush"})' /\ sess'[s].rt = g
  BY DEF WatchesFit, At, Holding
<1> QED BY <1>2, <1>3, <1>4 DEF WatchesFit

(* The registry answers with its runtime, or with a new one in place of    *)
(* one that closes.                                                        *)
LEMMA GetOrCreateKeeps ==
    ASSUME RuntimeInv, NEW s \in Sessions, GetOrCreate(s)
    PROVE  RuntimeInv'
<1> USE DEF RuntimeInv
<1>0. Generations \in Nat /\ registry \in Nat BY GraphRuntimeAssumption DEF RuntimeTypes
<1>1. /\ sess[s].at = "out"
      /\ UNCHANGED <<leases, watchers, observer, watchLock, heard, popped, cmds, spent>>
  BY DEF GetOrCreate
<1>2. PICK g \in Gens :
        /\ sess' = [sess EXCEPT ![s].at = "found", ![s].rt = g]
        /\ \/ g = registry /\ life[g] = "open" /\ UNCHANGED <<registry, life>>
           \/ /\ registry = 0 \/ life[registry] # "open"
              /\ g = registry + 1 /\ registry' = g /\ life' = [life EXCEPT ![g] = "open"]
  <2>1. CASE registry # 0 /\ life[registry] = "open"
    <3>1. registry \in Gens BY <1>0, <2>1 DEF Gens, RuntimeTypes
    <3> QED BY <2>1, <3>1 DEF GetOrCreate
  <2>2. CASE ~(registry # 0 /\ life[registry] = "open")
    <3>1. registry < Generations BY <2>2 DEF GetOrCreate
    <3>2. registry + 1 \in Gens BY <1>0, <3>1 DEF Gens
    <3> QED BY <2>2, <3>2 DEF GetOrCreate
  <2> QED BY <2>1, <2>2
<1>3. /\ sess' \in [Sessions -> [at : Places, rt : 0 .. Generations, retried : BOOLEAN]]
      /\ sess'[s].at = "found" /\ sess'[s].rt = g
      /\ \A t \in Sessions : t # s => sess'[t] = sess[t]
  <2>1. g \in 0 .. Generations /\ "found" \in Places BY <1>0 DEF Places, Gens
  <2>2. /\ sess \in [Sessions -> [at : Places, rt : 0 .. Generations, retried : BOOLEAN]]
        /\ sess[s] \in [at : Places, rt : 0 .. Generations, retried : BOOLEAN]
    BY DEF RuntimeTypes
  <2>3. /\ sess'[s] = [sess[s] EXCEPT !.at = "found", !.rt = g]
        /\ \A t \in Sessions : t # s => sess'[t] = sess[t]
        /\ sess' = [t \in Sessions |-> sess'[t]]
    BY <1>2, <2>2
  <2>4. sess'[s] \in [at : Places, rt : 0 .. Generations, retried : BOOLEAN]
    BY <2>1, <2>2, <2>3
  <2>5. sess'[s].at = "found" /\ sess'[s].rt = g BY <2>2, <2>3
  <2>6. \A t \in Sessions :
          sess'[t] \in [at : Places, rt : 0 .. Generations, retried : BOOLEAN]
    BY <2>2, <2>3, <2>4
  <2> QED BY <2>3, <2>5, <2>6
<1>4. RuntimeTypes'
  <2>1. registry' \in 0 .. Generations
          /\ life' \in [Gens -> {"unborn", "open", "closing", "closed"}]
    BY <1>0, <1>2 DEF RuntimeTypes, Gens
  <2> QED BY <1>1, <1>3, <2>1 DEF RuntimeTypes
<1>5. \A h \in Gens : h # g => life'[h] = life[h] /\ (life[h] = "open" => FALSE)
  <2>1. \A h \in Gens : h # g => life'[h] = life[h] BY <1>2 DEF RuntimeTypes
  <2>2. \A h \in Gens : life[h] = "open" => h = g
    <3>1. \A h \in Gens : life[h] = "open" => h = registry BY DEF LivesFit
    <3>2. CASE g = registry BY <3>1, <3>2
    <3>3. CASE registry = 0 \/ life[registry] # "open"
      <4>1. \A h \in Gens : h # 0 BY <1>0 DEF Gens
      <4> QED BY <3>1, <3>3, <4>1
    <3> QED BY <1>2, <3>2, <3>3
  <2> QED BY <2>1, <2>2
<1>6. life'[g] = "open" /\ registry' = g BY <1>2 DEF RuntimeTypes
<1>7. leases' = leases BY <1>1
<1>8. LivesFit'
  <2> SUFFICES ASSUME NEW h \in Gens
               PROVE  /\ life'[h] = "unborn" <=> h > registry'
                      /\ life'[h] = "open" => h = registry'
                      /\ life'[h] = "open" =>
                           leases'[h] # {} \/ \E t \in Sessions :
                             sess'[t].at = "found" /\ sess'[t].rt = h
                      /\ life'[h] # "open" => leases'[h] = {}
    BY DEF LivesFit, At
  <2>1. CASE h = g BY <1>0, <1>3, <1>6, <2>1 DEF Gens
  <2>2. CASE h # g
    <3>1. life'[h] = life[h] /\ life[h] # "open" BY <1>5, <2>2
    <3>2. life[h] = "unborn" <=> h > registry BY DEF LivesFit
    <3>3. h > registry <=> h > registry' BY <1>0, <1>2, <2>2 DEF Gens
    <3> QED BY <1>7, <3>1, <3>2, <3>3 DEF LivesFit
  <2> QED BY <2>1, <2>2
<1>9. SessionsFit'
  <2>1. \A h \in Gens : life[h] # "unborn" => life'[h] # "unborn" BY <1>5, <1>6
  <2>2. \A h \in Gens : life[h] = "closing" => life'[h] = "closing"
    <3>1. life[g] # "closing" BY <1>0, <1>2 DEF LivesFit, Gens
    <3> QED BY <1>5, <3>1
  <2>3. \A h \in Gens : s \notin leases[h] BY <1>1 DEF SessionsFit, At, Holding
  <2> SUFFICES ASSUME NEW t \in Sessions
               PROVE  /\ sess'[t].at \notin {"out", "failed"} =>
                           sess'[t].rt \in Gens /\ life'[sess'[t].rt] # "unborn"
                      /\ \A h \in Gens :
                           t \in leases'[h] <=> sess'[t].at \in Holding /\ sess'[t].rt = h
                      /\ sess'[t].at \in {"shutdown", "fencing", "fenced"} =>
                           life'[sess'[t].rt] = "closing"
                      /\ \A u \in Sessions :
                           /\ sess'[t].at \in {"shutdown", "fencing", "fenced"}
                                             /\ sess'[u].at \in {"shutdown", "fencing",
                                                  "fenced"}
                                             /\ sess'[t].rt = sess'[u].rt
                                             => t = u
    BY DEF SessionsFit, At
  <2>4. CASE t = s BY <1>3, <1>6, <1>7, <2>3, <2>4 DEF Holding
  <2>5. CASE t # s
    <3>1. sess'[t] = sess[t] BY <1>3, <2>5
    <3> QED BY <1>3, <1>7, <2>1, <2>2, <2>5, <3>1 DEF SessionsFit, At
  <2> QED BY <2>4, <2>5
<1>10. WatchesFit'
  <2>1. \A t \in Sessions :
          sess'[t] = sess[t] \/ (~At(t, Holding) /\ sess'[t].at # "flush")
    BY <1>1, <1>3 DEF At, Holding
  <2> QED BY <1>1, <2>1, WatchKept
<1>11. QueuesFit'
  <2>1. \A t \in Sessions :
          sess'[t] = sess[t] \/ (~At(t, Waits) /\ sess'[t].at # "fenced")
    BY <1>1, <1>3 DEF At, Waits
  <2>2. \A h \in Gens : life'[h] = "closed" => cmds[h] = <<>> BY <1>5, <1>6 DEF QueuesFit
  <2> QED BY <1>1, <2>1, <2>2, QueueKept
<1> QED BY <1>4, <1>8, <1>9, <1>10, <1>11

(* A handle is taken from a runtime that is still open, or the session     *)
(* tries once more.                                                        *)
LEMMA AcquireKeeps ==
    ASSUME RuntimeInv, NEW s \in Sessions, AcquireHandle(s)
    PROVE  RuntimeInv'
<1> USE DEF RuntimeInv
<1> DEFINE g0 == sess[s].rt
<1>1. /\ sess[s].at = "found" /\ life[sess[s].rt] = "open" /\ Goes(s, "open")
      /\ leases' = [leases EXCEPT ![sess[s].rt] = @ \cup {s}]
      /\ UNCHANGED <<registry, life, watchers, observer, watchLock, heard, popped, cmds,
           spent>>
  BY DEF AcquireHandle
<1>2. PICK g \in Gens : g = sess[s].rt BY <1>1 DEF SessionsFit, At
<1>3. /\ sess' \in [Sessions -> [at : Places, rt : 0 .. Generations, retried : BOOLEAN]]
      /\ sess'[s].at = "open" /\ sess'[s].rt = g
      /\ \A t \in Sessions : t # s => sess'[t] = sess[t]
  BY <1>1, <1>2, Moving DEF Places, Holding
<1>4. /\ leases' \in [Gens -> SUBSET Sessions]
      /\ \A h \in Gens : leases'[h] = IF h = g THEN leases[h] \cup {s} ELSE leases[h]
  BY <1>1, <1>2 DEF RuntimeTypes
<1>5. RuntimeTypes' BY <1>1, <1>3, <1>4 DEF RuntimeTypes
<1>6. LivesFit'
  <2> SUFFICES ASSUME NEW h \in Gens
               PROVE  /\ life[h] = "unborn" <=> h > registry
                      /\ life[h] = "open" => h = registry
                      /\ life[h] = "open" =>
                           leases'[h] # {} \/ \E t \in Sessions :
                             sess'[t].at = "found" /\ sess'[t].rt = h
                      /\ life[h] # "open" => leases'[h] = {}
    BY <1>1 DEF LivesFit, At
  <2>1. CASE h = g BY <1>1, <1>2, <1>4, <2>1 DEF LivesFit
  <2>2. CASE h # g BY <1>2, <1>3, <1>4, <2>2 DEF LivesFit, At
  <2> QED BY <2>1, <2>2
<1>7. SessionsFit'
  <2> SUFFICES ASSUME NEW t \in Sessions
               PROVE  /\ sess'[t].at \notin {"out", "failed"} =>
                           sess'[t].rt \in Gens /\ life[sess'[t].rt] # "unborn"
                      /\ \A h \in Gens :
                           t \in leases'[h] <=> sess'[t].at \in Holding /\ sess'[t].rt = h
                      /\ sess'[t].at \in {"shutdown", "fencing", "fenced"} =>
                           life[sess'[t].rt] = "closing"
                      /\ \A u \in Sessions :
                           /\ sess'[t].at \in {"shutdown", "fencing", "fenced"}
                                             /\ sess'[u].at \in {"shutdown", "fencing",
                                                  "fenced"}
                                             /\ sess'[t].rt = sess'[u].rt
                                             => t = u
    BY <1>1 DEF SessionsFit, At
  <2>1. \A h \in Gens : s \notin leases[h] BY <1>1 DEF SessionsFit, At, Holding
  <2>2. CASE t = s BY <1>1, <1>2, <1>3, <1>4, <2>1, <2>2 DEF Holding
  <2>3. CASE t # s
    <3>1. sess'[t] = sess[t] BY <1>3, <2>3
    <3> QED BY <1>3, <1>4, <2>3, <3>1 DEF SessionsFit, At
  <2> QED BY <2>2, <2>3
<1>8. WatchesFit'
  <2>1. \A t \in Sessions :
          sess'[t] = sess[t] \/ (~At(t, Holding) /\ sess'[t].at # "flush")
    BY <1>1, <1>3 DEF At, Holding
  <2>2. \A h \in Gens : leases[h] \subseteq leases'[h] BY <1>4
  <2> QED BY <1>1, <2>1, <2>2, WatchKept
<1>9. QueuesFit'
  <2>1. \A t \in Sessions :
          sess'[t] = sess[t] \/ (~At(t, Waits) /\ sess'[t].at # "fenced")
    BY <1>1, <1>3 DEF At, Waits
  <2>2. \A h \in Gens : life'[h] = "closed" => cmds[h] = <<>> BY <1>1 DEF QueuesFit
  <2> QED BY <1>1, <2>1, <2>2, QueueKept
<1> QED BY <1>5, <1>6, <1>7, <1>8, <1>9

(* A constructor that raises, and a session that begins again. *)
LEMMA OutsideKeeps ==
    ASSUME RuntimeInv, NEW s \in Sessions, AcquireRaises(s) \/ NextSession(s)
    PROVE  RuntimeInv'
<1> USE DEF RuntimeInv
<1>1. /\ UNCHANGED <<registry, life, leases, watchers, observer, watchLock, heard,
           popped, cmds, spent>>
      /\ sess[s].at \in {"found", "gone"}
      /\ sess[s].at = "found" => life[sess[s].rt] # "open"
      /\ sess' \in [Sessions -> [at : Places, rt : 0 .. Generations, retried : BOOLEAN]]
      /\ sess'[s].at \in {"out", "failed"}
      /\ \A t \in Sessions : t # s => sess'[t] = sess[t]
  <2>1. 0 \in 0 .. Generations /\ {"out", "failed"} \subseteq Places
    BY GraphRuntimeAssumption DEF Places
  <2>2. PICK where \in {"out", "failed"}, again \in BOOLEAN :
          sess' = [sess EXCEPT ![s] = [at |-> where, rt |-> 0, retried |-> again]]
    BY DEF AcquireRaises, NextSession
  <2>3. /\ sess' \in [Sessions -> [at : Places, rt : 0 .. Generations, retried : BOOLEAN]]
        /\ sess'[s].at \in {"out", "failed"}
        /\ \A t \in Sessions : t # s => sess'[t] = sess[t]
    BY <2>1, <2>2 DEF RuntimeTypes
  <2> QED BY <2>3 DEF AcquireRaises, NextSession
<1>2. RuntimeTypes' BY <1>1 DEF RuntimeTypes
<1>3. LivesFit'
  <2> SUFFICES ASSUME NEW h \in Gens, life[h] = "open", leases[h] = {}
               PROVE  \E t \in Sessions : sess'[t].at = "found" /\ sess'[t].rt = h
    BY <1>1 DEF LivesFit, At
  <2>1. PICK t \in Sessions : sess[t].at = "found" /\ sess[t].rt = h BY DEF LivesFit, At
  <2>2. t # s BY <1>1, <2>1
  <2> QED BY <1>1, <2>1, <2>2
<1>4. SessionsFit'
  <2> SUFFICES ASSUME NEW t \in Sessions
               PROVE  /\ sess'[t].at \notin {"out", "failed"} =>
                           sess'[t].rt \in Gens /\ life[sess'[t].rt] # "unborn"
                      /\ \A h \in Gens :
                           t \in leases[h] <=> sess'[t].at \in Holding /\ sess'[t].rt = h
                      /\ sess'[t].at \in {"shutdown", "fencing", "fenced"} =>
                           life[sess'[t].rt] = "closing"
                      /\ \A u \in Sessions :
                           /\ sess'[t].at \in {"shutdown", "fencing", "fenced"}
                                             /\ sess'[u].at \in {"shutdown", "fencing",
                                                  "fenced"}
                                             /\ sess'[t].rt = sess'[u].rt
                                             => t = u
    BY <1>1 DEF SessionsFit, At
  <2>1. \A h \in Gens : s \notin leases[h] BY <1>1 DEF SessionsFit, At, Holding
  <2>2. CASE t = s BY <1>1, <2>1, <2>2 DEF Holding
  <2>3. CASE t # s
    <3>1. sess'[t] = sess[t] BY <1>1, <2>3
    <3> QED BY <1>1, <2>3, <3>1 DEF SessionsFit, At
  <2> QED BY <2>2, <2>3
<1>5. WatchesFit'
  <2>1. \A t \in Sessions :
          sess'[t] = sess[t] \/ (~At(t, Holding) /\ sess'[t].at # "flush")
    BY <1>1 DEF At, Holding
  <2> QED BY <1>1, <2>1, WatchKept
<1>6. QueuesFit'
  <2>1. \A t \in Sessions :
          sess'[t] = sess[t] \/ (~At(t, Waits) /\ sess'[t].at # "fenced")
    BY <1>1 DEF At, Waits
  <2>2. \A h \in Gens : life'[h] = "closed" => cmds[h] = <<>> BY <1>1 DEF QueuesFit
  <2> QED BY <1>1, <2>1, <2>2, QueueKept
<1> QED BY <1>2, <1>3, <1>4, <1>5, <1>6

(* Who holds a lease holds it on an open runtime, which nobody shuts down. *)
LEMMA HoldsOpen ==
    ASSUME RuntimeInv, NEW s \in Sessions, At(s, Holding)
    PROVE  /\ sess[s].rt \in Gens /\ life[sess[s].rt] = "open" /\ s \in leases[sess[s].rt]
           /\ \A t \in Sessions : sess[t].rt = sess[s].rt =>
                ~At(t, {"shutdown", "fencing", "fenced"})
<1> USE DEF RuntimeInv
<1>1. sess[s].rt \in Gens BY DEF SessionsFit, At, Holding
<1>2. s \in leases[sess[s].rt] BY <1>1 DEF SessionsFit
<1>3. life[sess[s].rt] = "open" BY <1>1, <1>2 DEF LivesFit
<1> QED BY <1>1, <1>2, <1>3 DEF SessionsFit

(* Where a session that watches may be. *)
Watching == {"open", "asking", "closing", "unwatch"}

(* A session that goes on with its lease. *)
LEMMA InLease ==
    ASSUME RuntimeInv, NEW s \in Sessions, NEW where \in Holding, At(s, Holding),
      Goes(s, where),
           UNCHANGED <<registry, life, leases>>
    PROVE  /\ LivesFit' /\ SessionsFit'
           /\ sess' \in [Sessions -> [at : Places, rt : 0 .. Generations,
                retried : BOOLEAN]]
           /\ sess'[s].at = where /\ sess'[s].rt = sess[s].rt
           /\ \A t \in Sessions : t # s => sess'[t] = sess[t]
<1> USE DEF RuntimeInv
<1>1. /\ sess' \in [Sessions -> [at : Places, rt : 0 .. Generations, retried : BOOLEAN]]
      /\ sess'[s].at = where /\ sess'[s].rt = sess[s].rt
      /\ \A t \in Sessions : t # s => sess'[t] = sess[t]
  BY Moving DEF Places
<1>2. LivesFit'
  <2> SUFFICES ASSUME NEW h \in Gens, life[h] = "open", leases[h] = {}
               PROVE  \E t \in Sessions : sess'[t].at = "found" /\ sess'[t].rt = h
    BY DEF LivesFit, At
  <2>1. PICK t \in Sessions : sess[t].at = "found" /\ sess[t].rt = h BY DEF LivesFit, At
  <2>2. t # s BY <2>1 DEF At, Holding
  <2> QED BY <1>1, <2>1, <2>2
<1>3. SessionsFit'
  <2> SUFFICES ASSUME NEW t \in Sessions
               PROVE  /\ sess'[t].at \notin {"out", "failed"} =>
                           sess'[t].rt \in Gens /\ life[sess'[t].rt] # "unborn"
                      /\ \A h \in Gens :
                           t \in leases[h] <=> sess'[t].at \in Holding /\ sess'[t].rt = h
                      /\ sess'[t].at \in {"shutdown", "fencing", "fenced"} =>
                           life[sess'[t].rt] = "closing"
                      /\ \A u \in Sessions :
                           /\ sess'[t].at \in {"shutdown", "fencing", "fenced"}
                                             /\ sess'[u].at \in {"shutdown", "fencing",
                                                  "fenced"}
                                             /\ sess'[t].rt = sess'[u].rt
                                             => t = u
    BY DEF SessionsFit, At
  <2>1. CASE t = s BY <1>1, <2>1, HoldsOpen DEF SessionsFit, At, Holding
  <2>2. CASE t # s
    <3>1. sess'[t] = sess[t] BY <1>1, <2>2
    <3>2. where \notin {"shutdown", "fencing", "fenced"} BY DEF Holding
    <3> QED BY <1>1, <2>2, <3>1, <3>2 DEF SessionsFit, At
  <2> QED BY <2>1, <2>2
<1> QED BY <1>1, <1>2, <1>3

(* A session that goes from place to place, and does not stop the          *)
(* observer, keeps the observers right.                                    *)
LEMMA WatchMoves ==
    ASSUME RuntimeInv, NEW s \in Sessions, UNCHANGED <<leases, watchers, observer,
      watchLock>>,
           \A t \in Sessions : t # s => sess'[t] = sess[t],
           sess'[s].rt = sess[s].rt, sess[s].at # "flush", sess'[s].at # "flush",
           sess[s].at \in Watching => sess'[s].at \in Watching
    PROVE  WatchesFit'
<1> USE DEF RuntimeInv
<1>1. \A g \in Gens : \A t \in watchers'[g] : t \in leases'[g] /\ At(t, Watching)'
  BY DEF WatchesFit, At, Watching, RuntimeTypes
<1>2. \A g \in Gens : \A t \in Sessions :
          watchLock'[g] = t <=> sess'[t].at = "flush" /\ sess'[t].rt = g
  BY DEF WatchesFit, At
<1> QED BY <1>1, <1>2 DEF WatchesFit, At, Watching

(* A session gives a command to the runtime it holds. *)
LEMMA SubmitKeeps ==
    ASSUME RuntimeInv, NEW s \in Sessions, SubmitCommand(s)
    PROVE  RuntimeInv'
<1> USE DEF RuntimeInv
<1>1. /\ UNCHANGED <<registry, life, leases, watchers, observer, watchLock, heard,
           popped>>
      /\ sess[s].at = "open" /\ spent' = [spent EXCEPT !.commands = @ + 1]
      /\ At(s, Holding) /\ {"open", "asking"} \subseteq Holding
  BY DEF SubmitCommand, At, Holding
<1>2. /\ sess[s].rt \in Gens /\ life[sess[s].rt] = "open"
      /\ \A t \in Sessions : sess[t].rt = sess[s].rt =>
           ~At(t, {"shutdown", "fencing", "fenced"})
  BY <1>1, HoldsOpen
<1>3. PICK g \in Gens : g = sess[s].rt BY <1>2
<1>4. PICK w \in {Nobody, s} : /\ Queued(g, w)
                               /\ w = Nobody => UNCHANGED sess
                               /\ w # Nobody => Goes(s, "asking")
  BY <1>3, GraphRuntimeAssumption DEF SubmitCommand
<1>5. spent' \in [commands : Nat, notices : Nat]
  <2>1. spent \in [commands : Nat, notices : Nat] BY DEF RuntimeTypes
  <2>2. spent.commands + 1 \in Nat BY <2>1
  <2> QED BY <1>1, <2>1, <2>2
<1>6. /\ LivesFit' /\ SessionsFit'
      /\ sess' \in [Sessions -> [at : Places, rt : 0 .. Generations, retried : BOOLEAN]]
      /\ sess'[s].rt = sess[s].rt
      /\ sess'[s].at = IF w = Nobody THEN "open" ELSE "asking"
      /\ \A t \in Sessions : t # s => sess'[t] = sess[t]
  <2>1. CASE w = Nobody
    <3>1. LivesFit' /\ SessionsFit' BY <1>1, <1>4, <2>1 DEF LivesFit, SessionsFit, At
    <3> QED BY <1>1, <1>4, <2>1, <3>1 DEF RuntimeTypes
  <2>2. CASE w # Nobody BY <1>1, <1>4, <2>2, InLease
  <2> QED BY <2>1, <2>2
<1>7. WatchesFit' BY <1>1, <1>6, WatchMoves DEF Watching
<1>8. QueuesFit' /\ cmds' \in [Gens -> Seq(Sessions \cup {Nobody})]
  <2>1. \A t \in Sessions :
          sess'[t] = sess[t] \/ (~At(t, Waits) /\ sess'[t].at # "fenced")
    BY <1>1, <1>6 DEF At, Waits
  <2>2. w # Nobody => ~At(w, Waits) /\ sess'[w].at \in Waits /\ sess'[w].rt = g
    BY <1>1, <1>3, <1>6 DEF At, Waits
  <2>3. \A t \in Sessions : sess[t].rt = g => ~At(t, {"fencing", "fenced"})
    BY <1>2, <1>3 DEF At
  <2>4. \A h \in Gens : life'[h] = "closed" => life[h] = "closed" /\ h # g
    BY <1>1, <1>2, <1>3
  <2>5. w \in Sessions \cup {Nobody} OBVIOUS
  <2> QED BY <1>4, <2>1, <2>2, <2>3, <2>4, <2>5, QueueGrows
<1>9. RuntimeTypes' BY <1>1, <1>5, <1>6, <1>8 DEF RuntimeTypes
<1> QED BY <1>6, <1>7, <1>8, <1>9

(* A command a session waits for, or the way on without it. *)
LEMMA ClosingKeeps ==
    ASSUME RuntimeInv, NEW s \in Sessions, CloseBegins(s) \/ PersistAgain(s)
    PROVE  RuntimeInv'
<1> USE DEF RuntimeInv
<1>1. /\ UNCHANGED <<registry, life, leases, watchers, observer, watchLock, heard,
           popped, spent>>
      /\ sess[s].at \in {"open", "unwatched"} /\ At(s, Holding)
  BY DEF CloseBegins, PersistAgain, At, Holding
<1>2. /\ sess[s].rt \in Gens /\ life[sess[s].rt] = "open"
      /\ \A t \in Sessions : sess[t].rt = sess[s].rt =>
           ~At(t, {"shutdown", "fencing", "fenced"})
  BY <1>1, HoldsOpen
<1>3. PICK g \in Gens : g = sess[s].rt BY <1>2
<1>4. PICK where \in {"closing", "unwatch", "saving", "release"} :
        /\ Goes(s, where)
        /\ where \in {"closing", "saving"} => Queued(g, s)
        /\ where \in {"unwatch", "release"} => UNCHANGED cmds
        /\ sess[s].at = "open" => where \in {"closing", "unwatch"}
        /\ sess[s].at = "unwatched" => where \in {"saving", "release"}
  BY <1>3 DEF CloseBegins, PersistAgain
<1>5. /\ LivesFit' /\ SessionsFit'
      /\ sess' \in [Sessions -> [at : Places, rt : 0 .. Generations, retried : BOOLEAN]]
      /\ sess'[s].at = where /\ sess'[s].rt = sess[s].rt
      /\ \A t \in Sessions : t # s => sess'[t] = sess[t]
  <2>1. where \in Holding BY DEF Holding
  <2> QED BY <1>1, <1>4, <2>1, InLease
<1>6. WatchesFit' BY <1>1, <1>4, <1>5, WatchMoves DEF Watching
<1>7. QueuesFit' /\ cmds' \in [Gens -> Seq(Sessions \cup {Nobody})]
  <2>1. \A t \in Sessions :
          sess'[t] = sess[t] \/ (~At(t, Waits) /\ sess'[t].at # "fenced")
    BY <1>1, <1>5 DEF At, Waits
  <2>2. CASE where \in {"closing", "saving"}
    <3>1. s # Nobody => ~At(s, Waits) /\ sess'[s].at \in Waits /\ sess'[s].rt = g
      BY <1>1, <1>3, <1>5, <2>2 DEF At, Waits
    <3>2. \A t \in Sessions : sess[t].rt = g => ~At(t, {"fencing", "fenced"})
      BY <1>2, <1>3 DEF At
    <3>3. \A h \in Gens : life'[h] = "closed" => life[h] = "closed" /\ h # g
      BY <1>1, <1>2, <1>3
    <3>4. Queued(g, s) BY <1>4, <2>2
    <3> QED BY <2>1, <3>1, <3>2, <3>3, <3>4, QueueGrows
  <2>3. CASE where \in {"unwatch", "release"}
    <3>1. UNCHANGED cmds BY <1>4, <2>3
    <3>2. \A h \in Gens : life'[h] = "closed" => cmds[h] = <<>> BY <1>1 DEF QueuesFit
    <3>3. cmds' \in [Gens -> Seq(Sessions \cup {Nobody})] BY <3>1 DEF RuntimeTypes
    <3> QED BY <2>1, <3>1, <3>2, <3>3, QueueKept
  <2> QED BY <2>2, <2>3
<1>8. RuntimeTypes' BY <1>1, <1>5, <1>7 DEF RuntimeTypes
<1> QED BY <1>5, <1>6, <1>7, <1>8

(* Nothing of the sessions changes, nor of the queues. *)
LEMMA LoneStep ==
    ASSUME RuntimeInv, UNCHANGED <<registry, life, leases, sess>>
    PROVE  LivesFit' /\ SessionsFit'
BY DEF RuntimeInv, LivesFit, SessionsFit, At

(* A session watches; the first one starts the observer. *)
LEMMA AcquireWatchKeeps ==
    ASSUME RuntimeInv, NEW s \in Sessions, AcquireWatch(s)
    PROVE  RuntimeInv'
<1> USE DEF RuntimeInv
<1>1. /\ UNCHANGED <<registry, life, leases, watchLock, heard, popped, cmds, sess, spent>>
      /\ sess[s].at = "open" /\ At(s, Holding)
  BY DEF AcquireWatch, At, Holding
<1>2. PICK g \in Gens : g = sess[s].rt BY <1>1, HoldsOpen
<1>3. /\ observer' = [observer EXCEPT ![g] = "on"]
      /\ watchers' = [watchers EXCEPT ![g] = @ \cup {s}]
      /\ watchLock[g] = Nobody
  BY <1>2 DEF AcquireWatch
<1>4. s \in leases[g] BY <1>1, <1>2, HoldsOpen
<1>5. LivesFit' /\ SessionsFit' BY <1>1, LoneStep
<1>6. RuntimeTypes' BY <1>1, <1>3 DEF RuntimeTypes
<1>7. WatchesFit' BY <1>1, <1>3, <1>4 DEF WatchesFit, RuntimeTypes, At
<1>8. QueuesFit' BY <1>1 DEF QueuesFit, At
<1> QED BY <1>5, <1>6, <1>7, <1>8

(* A session no longer watches; the last one begins to stop the observer. *)
LEMMA ReleaseWatchKeeps ==
    ASSUME RuntimeInv, NEW s \in Sessions, ReleaseWatch(s)
    PROVE  RuntimeInv'
<1> USE DEF RuntimeInv
<1>1. /\ UNCHANGED <<registry, life, leases, heard, popped, cmds, spent>>
      /\ sess[s].at = "unwatch" /\ At(s, Holding)
  BY DEF ReleaseWatch, At, Holding
<1>2. PICK g \in Gens : g = sess[s].rt BY <1>1, HoldsOpen
<1>3. PICK where \in {"flush", "unwatched", "release"} :
        /\ watchLock[g] = Nobody /\ watchers' = [watchers EXCEPT ![g] = @ \ {s}]
        /\ Goes(s, where) /\ (where = "flush" <=> watchers[g] = {s})
        /\ watchLock' = IF where = "flush" THEN [watchLock EXCEPT ![g] = s] ELSE watchLock
        /\ observer' = IF where = "flush" THEN [observer EXCEPT ![g] = "stopping"] ELSE observer
  <2> DEFINE where ==
        IF watchers[g] = {s} THEN "flush" ELSE IF s \in watchers[g] THEN "unwatched" ELSE "release"
  <2>1. where \in {"flush", "unwatched", "release"} OBVIOUS
  <2> QED BY <1>2, <2>1 DEF ReleaseWatch
<1>4. /\ LivesFit' /\ SessionsFit'
      /\ sess' \in [Sessions -> [at : Places, rt : 0 .. Generations, retried : BOOLEAN]]
      /\ sess'[s].at = where /\ sess'[s].rt = g
      /\ \A t \in Sessions : t # s => sess'[t] = sess[t]
  <2>1. where \in Holding BY DEF Holding
  <2> QED BY <1>1, <1>2, <1>3, <2>1, InLease
<1>5. /\ \A h \in Gens : h # g => /\ watchers'[h] = watchers[h]
           /\ observer'[h] = observer[h]
                                  /\ watchLock'[h] = watchLock[h]
      /\ watchers'[g] = watchers[g] \ {s}
      /\ where = "flush" => watchLock'[g] = s /\ observer'[g] = "stopping"
      /\ where # "flush" => watchLock'[g] = Nobody /\ observer'[g] = observer[g]
  BY <1>3 DEF RuntimeTypes
<1>6. RuntimeTypes' BY <1>1, <1>3, <1>4 DEF RuntimeTypes
<1>7. WatchesFit'
  <2>0. s # Nobody /\ g \in Gens BY GraphRuntimeAssumption
  <2>1. \A h \in Gens : \A t \in watchers'[h] :
          t \in leases'[h] /\ sess'[t].at \in Watching
    <3> SUFFICES ASSUME NEW h \in Gens, NEW t \in watchers'[h]
                 PROVE  t \in leases'[h] /\ sess'[t].at \in Watching
      OBVIOUS
    <3>1. t \in watchers[h] /\ (h = g => t # s) BY <1>5
    <3>2. t \in leases[h] /\ sess[t].at \in Watching /\ t \in Sessions
      BY <3>1 DEF WatchesFit, At, Watching, RuntimeTypes
    <3>3. t # s BY <1>1, <1>2, <3>1, <3>2 DEF SessionsFit
    <3> QED BY <1>1, <1>4, <3>2, <3>3
  <2>2. \A h \in Gens : /\ observer'[h] = "on" <=> watchers'[h] # {}
                        /\ observer'[h] = "stopping" <=> watchLock'[h] # Nobody
    <3> SUFFICES ASSUME NEW h \in Gens
                 PROVE  /\ observer'[h] = "on" <=> watchers'[h] # {}
                        /\ observer'[h] = "stopping" <=> watchLock'[h] # Nobody
      OBVIOUS
    <3>1. CASE h # g BY <1>5, <3>1 DEF WatchesFit
    <3>2. CASE h = g /\ where = "flush" BY <1>3, <1>5, <2>0, <3>2
    <3>3. CASE h = g /\ where # "flush"
      <4>1. watchers[g] # {s} BY <1>3, <3>3
      <4>2. watchers'[g] # {} <=> watchers[g] # {} BY <1>5, <4>1
      <4> QED BY <1>3, <1>5, <3>3, <4>2 DEF WatchesFit
    <3> QED BY <3>1, <3>2, <3>3
  <2>3. \A h \in Gens : \A t \in Sessions :
            watchLock'[h] = t <=> sess'[t].at = "flush" /\ sess'[t].rt = h
    <3> SUFFICES ASSUME NEW h \in Gens, NEW t \in Sessions
                 PROVE  watchLock'[h] = t <=> sess'[t].at = "flush" /\ sess'[t].rt = h
      OBVIOUS
    <3>0. watchLock[h] = t <=> sess[t].at = "flush" /\ sess[t].rt = h
      BY DEF WatchesFit, At
    <3>1. t # Nobody BY GraphRuntimeAssumption
    <3> QED BY <1>1, <1>2, <1>3, <1>4, <1>5, <3>0, <3>1
  <2> QED BY <2>1, <2>2, <2>3 DEF WatchesFit, At, Watching
<1>8. QueuesFit'
  <2>1. \A t \in Sessions :
          sess'[t] = sess[t] \/ (~At(t, Waits) /\ sess'[t].at # "fenced")
    BY <1>1, <1>4 DEF At, Waits
  <2>2. \A h \in Gens : life'[h] = "closed" => cmds[h] = <<>> BY <1>1 DEF QueuesFit
  <2> QED BY <1>1, <2>1, <2>2, QueueKept
<1> QED BY <1>4, <1>6, <1>7, <1>8

(* The observer has stopped, and what it had not sent is sent. *)
LEMMA FlushKeeps ==
    ASSUME RuntimeInv, NEW s \in Sessions, StopFlushes(s)
    PROVE  RuntimeInv'
<1> USE DEF RuntimeInv
<1>1. /\ UNCHANGED <<registry, life, leases, watchers, popped, spent>>
      /\ sess[s].at = "flush" /\ At(s, Holding) /\ Goes(s, "unwatched")
  BY DEF StopFlushes, At, Holding
<1>2. /\ sess[s].rt \in Gens /\ life[sess[s].rt] = "open"
      /\ \A t \in Sessions : sess[t].rt = sess[s].rt =>
           ~At(t, {"shutdown", "fencing", "fenced"})
  BY <1>1, HoldsOpen
<1>3. PICK g \in Gens : g = sess[s].rt BY <1>2
<1>4. /\ observer' = [observer EXCEPT ![g] = "off"]
      /\ watchLock' = [watchLock EXCEPT ![g] = Nobody]
      /\ heard' = [heard EXCEPT ![g] = 0] /\ (Queued(g, Nobody) \/ UNCHANGED cmds)
  BY <1>3 DEF StopFlushes
<1>5. /\ LivesFit' /\ SessionsFit'
      /\ sess' \in [Sessions -> [at : Places, rt : 0 .. Generations, retried : BOOLEAN]]
      /\ sess'[s].at = "unwatched" /\ sess'[s].rt = g
      /\ \A t \in Sessions : t # s => sess'[t] = sess[t]
  <2>1. "unwatched" \in Holding BY DEF Holding
  <2> QED BY <1>1, <1>3, <2>1, InLease
<1>6. /\ \A h \in Gens : h # g =>
           observer'[h] = observer[h] /\ watchLock'[h] = watchLock[h]
      /\ observer'[g] = "off" /\ watchLock'[g] = Nobody
  BY <1>4 DEF RuntimeTypes
<1>7. watchLock[g] = s /\ s # Nobody /\ observer[g] = "stopping"
  <2>1. watchLock[g] = s BY <1>1, <1>3 DEF WatchesFit, At
  <2> QED BY <2>1, GraphRuntimeAssumption DEF WatchesFit
<1>8. WatchesFit'
  <2>1. \A h \in Gens : \A t \in watchers'[h] :
          t \in leases'[h] /\ sess'[t].at \in Watching
    BY <1>1, <1>5, ZenonT(30) DEF WatchesFit, At, Watching, RuntimeTypes
  <2>2. \A h \in Gens : /\ observer'[h] = "on" <=> watchers'[h] # {}
                        /\ observer'[h] = "stopping" <=> watchLock'[h] # Nobody
    BY <1>1, <1>6, <1>7 DEF WatchesFit
  <2>3. \A h \in Gens : \A t \in Sessions :
            watchLock'[h] = t <=> sess'[t].at = "flush" /\ sess'[t].rt = h
    <3> SUFFICES ASSUME NEW h \in Gens, NEW t \in Sessions
                 PROVE  watchLock'[h] = t <=> sess'[t].at = "flush" /\ sess'[t].rt = h
      OBVIOUS
    <3>0. /\ watchLock[h] = t <=> sess[t].at = "flush" /\ sess[t].rt = h
          /\ watchLock[g] = t <=> sess[t].at = "flush" /\ sess[t].rt = g
      BY DEF WatchesFit, At
    <3>1. t # Nobody BY GraphRuntimeAssumption
    <3> QED BY <1>3, <1>5, <1>6, <1>7, <3>0, <3>1
  <2> QED BY <2>1, <2>2, <2>3 DEF WatchesFit, At, Watching
<1>9. QueuesFit' /\ cmds' \in [Gens -> Seq(Sessions \cup {Nobody})]
  <2>1. \A t \in Sessions :
          sess'[t] = sess[t] \/ (~At(t, Waits) /\ sess'[t].at # "fenced")
    BY <1>1, <1>5 DEF At, Waits
  <2>2. CASE Queued(g, Nobody)
    <3>1. \A t \in Sessions : sess[t].rt = g => ~At(t, {"fencing", "fenced"})
      BY <1>2, <1>3 DEF At
    <3>2. \A h \in Gens : life'[h] = "closed" => life[h] = "closed" /\ h # g
      BY <1>1, <1>2, <1>3
    <3> QED BY <2>1, <2>2, <3>1, <3>2, QueueGrows
  <2>3. CASE UNCHANGED cmds
    <3>1. \A h \in Gens : life'[h] = "closed" => cmds[h] = <<>> BY <1>1 DEF QueuesFit
    <3>2. cmds' \in [Gens -> Seq(Sessions \cup {Nobody})] BY <2>3 DEF RuntimeTypes
    <3> QED BY <2>1, <2>3, <3>1, <3>2, QueueKept
  <2> QED BY <1>4, <2>2, <2>3
<1>10. RuntimeTypes' BY <1>1, <1>4, <1>5, <1>9 DEF RuntimeTypes
<1> QED BY <1>5, <1>8, <1>9, <1>10

(* The last lease closes the gate; an earlier one leaves it open. *)
LEMMA ReleaseKeeps ==
    ASSUME RuntimeInv, NEW s \in Sessions, ReleaseHandle(s)
    PROVE  RuntimeInv'
<1> USE DEF RuntimeInv
<1>1. /\ UNCHANGED <<registry, watchers, observer, watchLock, heard, popped, cmds, spent>>
      /\ sess[s].at = "release" /\ At(s, Holding)
  BY DEF ReleaseHandle, At, Holding
<1>2. /\ sess[s].rt \in Gens /\ life[sess[s].rt] = "open" /\ s \in leases[sess[s].rt]
      /\ \A t \in Sessions : sess[t].rt = sess[s].rt =>
           ~At(t, {"shutdown", "fencing", "fenced"})
  BY <1>1, HoldsOpen
<1>3. PICK g \in Gens : g = sess[s].rt BY <1>2
<1>4. /\ leases' = [leases EXCEPT ![g] = @ \ {s}]
      /\ leases'[g] = {} => life' = [life EXCEPT ![g] = "closing"] /\ Goes(s, "shutdown")
      /\ leases'[g] # {} => life' = life /\ Goes(s, "gone")
  BY <1>3 DEF ReleaseHandle
<1>5. /\ leases' \in [Gens -> SUBSET Sessions]
      /\ \A h \in Gens : leases'[h] = IF h = g THEN leases[g] \ {s} ELSE leases[h]
  BY <1>4 DEF RuntimeTypes
<1>6. /\ life' \in [Gens -> {"unborn", "open", "closing", "closed"}]
      /\ \A h \in Gens : h # g => life'[h] = life[h]
      /\ life'[g] = IF leases'[g] = {} THEN "closing" ELSE "open"
  BY <1>2, <1>3, <1>4 DEF RuntimeTypes
<1>7. /\ sess' \in [Sessions -> [at : Places, rt : 0 .. Generations, retried : BOOLEAN]]
      /\ sess'[s].at = IF leases'[g] = {} THEN "shutdown" ELSE "gone"
      /\ sess'[s].rt = g
      /\ \A t \in Sessions : t # s => sess'[t] = sess[t]
  BY <1>3, <1>4, Moving DEF Places
<1>8. RuntimeTypes' BY <1>1, <1>5, <1>6, <1>7 DEF RuntimeTypes
<1>9. LivesFit'
  <2> SUFFICES ASSUME NEW h \in Gens
               PROVE  /\ life'[h] = "unborn" <=> h > registry
                      /\ life'[h] = "open" => h = registry
                      /\ life'[h] = "open" =>
                           leases'[h] # {} \/ \E t \in Sessions :
                             sess'[t].at = "found" /\ sess'[t].rt = h
                      /\ life'[h] # "open" => leases'[h] = {}
    BY <1>1 DEF LivesFit, At
  <2>1. CASE h = g BY <1>2, <1>3, <1>6, <2>1 DEF LivesFit
  <2>2. CASE h # g
    <3>1. life'[h] = life[h] /\ leases'[h] = leases[h] BY <1>5, <1>6, <2>2
    <3>2. \A t \in Sessions : sess[t].at = "found" => sess'[t] = sess[t] BY <1>1, <1>7
    <3> QED BY <3>1, <3>2 DEF LivesFit, At
  <2> QED BY <2>1, <2>2
<1>10. SessionsFit'
  <2> SUFFICES ASSUME NEW t \in Sessions
               PROVE  /\ sess'[t].at \notin {"out", "failed"} =>
                           sess'[t].rt \in Gens /\ life'[sess'[t].rt] # "unborn"
                      /\ \A h \in Gens :
                           t \in leases'[h] <=> sess'[t].at \in Holding /\ sess'[t].rt = h
                      /\ sess'[t].at \in {"shutdown", "fencing", "fenced"} =>
                           life'[sess'[t].rt] = "closing"
                      /\ \A u \in Sessions :
                           /\ sess'[t].at \in {"shutdown", "fencing", "fenced"}
                                             /\ sess'[u].at \in {"shutdown", "fencing",
                                                  "fenced"}
                                             /\ sess'[t].rt = sess'[u].rt
                                             => t = u
    BY DEF SessionsFit, At
  <2>1. \A h \in Gens : /\ life[h] # "unborn" => life'[h] # "unborn"
                        /\ life[h] = "closing" => life'[h] = "closing"
    BY <1>2, <1>3, <1>6
  <2>2. \A h \in Gens : s \in leases[h] => h = g BY <1>3 DEF SessionsFit
  <2>3. CASE t = s
    <3>1. \A h \in Gens : s \notin leases'[h] BY <1>5, <2>2
    <3>2. sess'[s].at \notin Holding BY <1>7 DEF Holding
    <3>3. life'[g] # "unborn" BY <1>6
    <3>4. \A u \in Sessions : u # s /\ sess'[u].rt = g =>
            sess'[u].at \notin {"shutdown", "fencing", "fenced"}
      BY <1>2, <1>3, <1>7 DEF At
    <3> QED BY <1>6, <1>7, <2>3, <3>1, <3>2, <3>3, <3>4
  <2>4. CASE t # s
    <3>1. sess'[t] = sess[t] BY <1>7, <2>4
    <3>2. sess[t].rt = g => sess[t].at \notin {"shutdown", "fencing", "fenced"}
      BY <1>2, <1>3 DEF At
    <3> QED BY <1>5, <1>7, <2>1, <2>4, <3>1, <3>2 DEF SessionsFit, At
  <2> QED BY <2>3, <2>4
<1>11. WatchesFit'
  <2>1. \A h \in Gens : \A t \in watchers'[h] :
          t \in leases'[h] /\ sess'[t].at \in Watching
    <3> SUFFICES ASSUME NEW h \in Gens, NEW t \in watchers[h]
                 PROVE  t \in leases'[h] /\ sess'[t].at \in Watching
      BY <1>1
    <3>1. t \in leases[h] /\ sess[t].at \in Watching /\ t \in Sessions
      BY DEF WatchesFit, At, Watching, RuntimeTypes
    <3>2. t # s BY <1>1, <3>1 DEF Watching
    <3> QED BY <1>5, <1>7, <3>1, <3>2
  <2>2. \A h \in Gens : /\ observer'[h] = "on" <=> watchers'[h] # {}
                        /\ observer'[h] = "stopping" <=> watchLock'[h] # Nobody
    BY <1>1 DEF WatchesFit
  <2>3. \A h \in Gens : \A t \in Sessions :
            watchLock'[h] = t <=> sess'[t].at = "flush" /\ sess'[t].rt = h
    BY <1>1, <1>7 DEF WatchesFit, At
  <2> QED BY <2>1, <2>2, <2>3 DEF WatchesFit, At, Watching
<1>12. QueuesFit'
  <2>1. \A t \in Sessions :
          sess'[t] = sess[t] \/ (~At(t, Waits) /\ sess'[t].at # "fenced")
    BY <1>1, <1>7 DEF At, Waits
  <2>2. \A h \in Gens : life'[h] = "closed" => cmds[h] = <<>>
    <3>1. \A h \in Gens : life'[h] = "closed" => life[h] = "closed" BY <1>6
    <3> QED BY <3>1 DEF QueuesFit
  <2> QED BY <1>1, <2>1, <2>2, QueueKept
<1> QED BY <1>8, <1>9, <1>10, <1>11, <1>12

(* The one who shuts a runtime down waits for its queue. *)
LEMMA FenceKeeps ==
    ASSUME RuntimeInv, NEW s \in Sessions, Fence(s)
    PROVE  RuntimeInv'
<1> USE DEF RuntimeInv
<1>1. /\ UNCHANGED <<registry, life, leases, watchLock, popped, spent>>
      /\ sess[s].at = "shutdown" /\ Goes(s, "fencing")
  BY DEF Fence
<1>2. sess[s].rt \in Gens /\ life[sess[s].rt] = "closing" BY <1>1 DEF SessionsFit, At
<1>3. PICK g \in Gens : g = sess[s].rt BY <1>2
<1>4. /\ observer' = [observer EXCEPT ![g] = "off"]
      /\ watchers' = [watchers EXCEPT ![g] = {}]
      /\ heard' = [heard EXCEPT ![g] = 0] /\ Queued(g, s) /\ watchLock[g] = Nobody
  BY <1>3 DEF Fence
<1>5. watchers[g] = {} /\ observer[g] = "off"
  <2>1. leases[g] = {} BY <1>2, <1>3 DEF LivesFit
  <2>2. watchers[g] = {} BY <2>1 DEF WatchesFit
  <2> QED BY <1>4, <2>2 DEF WatchesFit, RuntimeTypes
<1>6. watchers' = watchers /\ observer' = observer
  BY <1>4, <1>5 DEF RuntimeTypes
<1>7. /\ sess' \in [Sessions -> [at : Places, rt : 0 .. Generations, retried : BOOLEAN]]
      /\ sess'[s].at = "fencing" /\ sess'[s].rt = g
      /\ \A t \in Sessions : t # s => sess'[t] = sess[t]
  BY <1>1, <1>3, Moving DEF Places
<1>8. LivesFit'
  <2> SUFFICES ASSUME NEW h \in Gens, life[h] = "open", leases[h] = {}
               PROVE  \E t \in Sessions : sess'[t].at = "found" /\ sess'[t].rt = h
    BY <1>1 DEF LivesFit, At
  <2>1. PICK t \in Sessions : sess[t].at = "found" /\ sess[t].rt = h BY DEF LivesFit, At
  <2> QED BY <1>1, <1>7, <2>1
<1>9. SessionsFit'
  <2>1. \A t \in Sessions : /\ sess'[t].rt = sess[t].rt
                            /\ sess'[t].at \in {"out", "failed"} <=>
                                 sess[t].at \in {"out", "failed"}
                            /\ sess'[t].at \in Holding <=> sess[t].at \in Holding
                            /\ sess'[t].at \in {"shutdown", "fencing", "fenced"}
                                  <=> sess[t].at \in {"shutdown", "fencing", "fenced"}
    BY <1>1, <1>3, <1>7 DEF Holding
  <2> QED BY <1>1, <2>1 DEF SessionsFit, At
<1>10. WatchesFit'
  <2>1. \A t \in Sessions :
          sess'[t] = sess[t] \/ (~At(t, Holding) /\ sess'[t].at # "flush")
    BY <1>1, <1>7 DEF At, Holding
  <2>2. \A h \in Gens : leases[h] \subseteq leases'[h] BY <1>1
  <2> QED BY <1>1, <1>6, <2>1, <2>2, WatchKept
<1>11. QueuesFit' /\ cmds' \in [Gens -> Seq(Sessions \cup {Nobody})]
  <2>1. \A t \in Sessions :
          sess'[t] = sess[t] \/ (~At(t, Waits) /\ sess'[t].at # "fenced")
    BY <1>1, <1>7 DEF At, Waits
  <2>2. ~At(s, Waits) /\ sess'[s].at \in Waits /\ sess'[s].rt = g
    BY <1>1, <1>7 DEF At, Waits
  <2>3. \A t \in Sessions : sess[t].rt = g => ~At(t, {"fencing", "fenced"})
    BY <1>1, <1>3 DEF SessionsFit, At
  <2>4. \A h \in Gens : life'[h] = "closed" => life[h] = "closed" /\ h # g
    BY <1>1, <1>2, <1>3
  <2> QED BY <1>4, <2>1, <2>2, <2>3, <2>4, QueueGrows
<1>12. RuntimeTypes' BY <1>1, <1>4, <1>6, <1>7, <1>11 DEF RuntimeTypes
<1> QED BY <1>8, <1>9, <1>10, <1>11, <1>12

(* The fence was answered: the executor is shut down. *)
LEMMA ShutsDownKeeps ==
    ASSUME RuntimeInv, NEW s \in Sessions, ShutsDown(s)
    PROVE  RuntimeInv'
<1> USE DEF RuntimeInv
<1>1. /\ UNCHANGED <<registry, leases, watchers, observer, watchLock, heard, popped,
           cmds, spent>>
      /\ sess[s].at = "fenced" /\ Goes(s, "gone")
  BY DEF ShutsDown
<1>2. sess[s].rt \in Gens /\ life[sess[s].rt] = "closing" BY <1>1 DEF SessionsFit, At
<1>3. PICK g \in Gens : g = sess[s].rt BY <1>2
<1>4. /\ life' \in [Gens -> {"unborn", "open", "closing", "closed"}]
      /\ \A h \in Gens : h # g => life'[h] = life[h]
      /\ life'[g] = "closed"
  BY <1>3 DEF ShutsDown, RuntimeTypes
<1>5. /\ sess' \in [Sessions -> [at : Places, rt : 0 .. Generations, retried : BOOLEAN]]
      /\ sess'[s].at = "gone" /\ sess'[s].rt = g
      /\ \A t \in Sessions : t # s => sess'[t] = sess[t]
  BY <1>1, <1>3, Moving DEF Places
<1>6. RuntimeTypes' BY <1>1, <1>4, <1>5 DEF RuntimeTypes
<1>7. LivesFit'
  <2> SUFFICES ASSUME NEW h \in Gens
               PROVE  /\ life'[h] = "unborn" <=> h > registry
                      /\ life'[h] = "open" => h = registry
                      /\ life'[h] = "open" =>
                           leases[h] # {} \/ \E t \in Sessions :
                             sess'[t].at = "found" /\ sess'[t].rt = h
                      /\ life'[h] # "open" => leases[h] = {}
    BY <1>1 DEF LivesFit, At
  <2>1. CASE h = g BY <1>2, <1>3, <1>4, <2>1 DEF LivesFit
  <2>2. CASE h # g
    <3>1. \A t \in Sessions : sess[t].at = "found" => sess'[t] = sess[t] BY <1>1, <1>5
    <3> QED BY <1>4, <2>2, <3>1 DEF LivesFit, At
  <2> QED BY <2>1, <2>2
<1>8. SessionsFit'
  <2> SUFFICES ASSUME NEW t \in Sessions
               PROVE  /\ sess'[t].at \notin {"out", "failed"} =>
                           sess'[t].rt \in Gens /\ life'[sess'[t].rt] # "unborn"
                      /\ \A h \in Gens :
                           t \in leases[h] <=> sess'[t].at \in Holding /\ sess'[t].rt = h
                      /\ sess'[t].at \in {"shutdown", "fencing", "fenced"} =>
                           life'[sess'[t].rt] = "closing"
                      /\ \A u \in Sessions :
                           /\ sess'[t].at \in {"shutdown", "fencing", "fenced"}
                                             /\ sess'[u].at \in {"shutdown", "fencing",
                                                  "fenced"}
                                             /\ sess'[t].rt = sess'[u].rt
                                             => t = u
    BY <1>1 DEF SessionsFit, At
  <2>1. \A h \in Gens : life[h] # "unborn" => life'[h] # "unborn" BY <1>4
  <2>2. \A h \in Gens : s \notin leases[h] BY <1>1 DEF SessionsFit, At, Holding
  <2>3. CASE t = s BY <1>4, <1>5, <2>2, <2>3 DEF Holding
  <2>4. CASE t # s
    <3>1. sess'[t] = sess[t] BY <1>5, <2>4
    <3>2. sess[t].at \in {"shutdown", "fencing", "fenced"} => sess[t].rt # g
      BY <1>1, <1>3, <2>4 DEF SessionsFit, At
    <3>3. sess[t].at \in {"shutdown", "fencing", "fenced"} => sess[t].rt \in Gens
      BY DEF SessionsFit, At
    <3> QED BY <1>4, <1>5, <2>1, <2>4, <3>1, <3>2, <3>3 DEF SessionsFit, At
  <2> QED BY <2>3, <2>4
<1>9. WatchesFit'
  <2>1. \A t \in Sessions :
          sess'[t] = sess[t] \/ (~At(t, Holding) /\ sess'[t].at # "flush")
    BY <1>1, <1>5 DEF At, Holding
  <2>2. \A h \in Gens : leases[h] \subseteq leases'[h] BY <1>1
  <2> QED BY <1>1, <2>1, <2>2, WatchKept
<1>10. QueuesFit'
  <2>1. \A t \in Sessions :
          sess'[t] = sess[t] \/ (~At(t, Waits) /\ sess'[t].at # "fenced")
    BY <1>1, <1>5 DEF At, Waits
  <2>2. cmds[g] = <<>> BY <1>1, <1>3 DEF QueuesFit, At
  <2>3. \A h \in Gens : life'[h] = "closed" => cmds[h] = <<>> BY <1>4, <2>2 DEF QueuesFit
  <2> QED BY <1>1, <2>1, <2>3, QueueKept
<1> QED BY <1>6, <1>7, <1>8, <1>9, <1>10

(* The observer hears of a change. *)
LEMMA NoticeKeeps ==
    ASSUME RuntimeInv, NEW g \in Gens, Notice(g) \/ TimerPops(g)
    PROVE  RuntimeInv'
<1> USE DEF RuntimeInv
<1>1. UNCHANGED <<registry, life, leases, watchers, observer, watchLock, cmds, sess>>
  BY DEF Notice, TimerPops
<1>2. RuntimeTypes'
  <2>1. heard' \in [Gens -> Nat] /\ popped' \in [Gens -> Nat]
    <3>1. heard \in [Gens -> Nat] /\ popped \in [Gens -> Nat] BY DEF RuntimeTypes
    <3>2. CASE Notice(g) BY <3>1, <3>2 DEF Notice
    <3>3. CASE TimerPops(g) BY <3>1, <3>3 DEF TimerPops
    <3> QED BY <3>2, <3>3
  <2>2. spent' \in [commands : Nat, notices : Nat]
    <3>1. spent \in [commands : Nat, notices : Nat] BY DEF RuntimeTypes
    <3>2. spent.notices + 1 \in Nat BY <3>1
    <3>3. spent' = spent \/ spent' = [spent EXCEPT !.notices = @ + 1]
      BY DEF Notice, TimerPops
    <3> QED BY <3>1, <3>2, <3>3
  <2> QED BY <1>1, <2>1, <2>2 DEF RuntimeTypes
<1>3. LivesFit' /\ SessionsFit' BY <1>1, LoneStep
<1>4. WatchesFit' BY <1>1 DEF WatchesFit, At
<1>5. QueuesFit' BY <1>1 DEF QueuesFit, At
<1> QED BY <1>2, <1>3, <1>4, <1>5

(* A timer that had been popped delivers, to whichever runtime is there. *)
LEMMA DeliverKeeps ==
    ASSUME RuntimeInv, NEW g \in Gens, TimerDelivers(g)
    PROVE  RuntimeInv'
<1> USE DEF RuntimeInv
<1>1. /\ UNCHANGED <<registry, life, leases, watchers, observer, watchLock, heard, sess,
           spent>>
      /\ popped' \in [Gens -> Nat]
      /\ (life[g] = "open" /\ Queued(g, Nobody)) \/ UNCHANGED cmds
  BY DEF TimerDelivers, RuntimeTypes
<1>2. LivesFit' /\ SessionsFit' BY <1>1, LoneStep
<1>3. WatchesFit' BY <1>1 DEF WatchesFit, At
<1>4. QueuesFit' /\ cmds' \in [Gens -> Seq(Sessions \cup {Nobody})]
  <2>1. CASE UNCHANGED cmds BY <1>1, <2>1 DEF QueuesFit, At, RuntimeTypes
  <2>2. CASE life[g] = "open" /\ Queued(g, Nobody)
    <3>1. \A t \in Sessions : sess[t].rt = g => ~At(t, {"fencing", "fenced"})
      BY <2>2 DEF SessionsFit, At
    <3>2. \A h \in Gens : life'[h] = "closed" => life[h] = "closed" /\ h # g BY <1>1, <2>2
    <3> QED BY <1>1, <2>2, <3>1, <3>2, QueueGrows
  <2> QED BY <1>1, <2>1, <2>2
<1>5. RuntimeTypes' BY <1>1, <1>4 DEF RuntimeTypes
<1> QED BY <1>2, <1>3, <1>4, <1>5

(* The worker takes the first command, and who waits for it goes on. *)
LEMMA ExecutesKeeps ==
    ASSUME RuntimeInv, NEW g \in Gens, Executes(g)
    PROVE  RuntimeInv'
<1> USE DEF RuntimeInv
<1> DEFINE q == cmds[g]
           r == cmds'[g]
<1>1. /\ UNCHANGED <<registry, life, leases, watchers, observer, watchLock, heard,
           popped, spent>>
      /\ q # <<>> /\ cmds' = [cmds EXCEPT ![g] = Tail(@)]
  BY DEF Executes
<1>2. q \in Seq(Sessions \cup {Nobody}) BY DEF RuntimeTypes
<1>3. /\ cmds' \in [Gens -> Seq(Sessions \cup {Nobody})] /\ r = Tail(q)
      /\ \A h \in Gens : h # g => cmds'[h] = cmds[h]
  BY <1>1, <1>2 DEF RuntimeTypes
<1>4. /\ Len(q) \in Nat \ {0} /\ DOMAIN q = 1 .. Len(q)
      /\ Len(r) = Len(q) - 1 /\ DOMAIN r = 1 .. Len(q) - 1
      /\ \A i \in 1 .. Len(q) - 1 : i + 1 \in 1 .. Len(q) /\ r[i] = q[i + 1]
      /\ 1 \in 1 .. Len(q) /\ Head(q) = q[1]
  <2>1. Len(q) \in Nat \ {0} BY <1>1, <1>2, EmptySeq
  <2>2. r \in Seq(Sessions \cup {Nobody}) /\ Len(r) = Len(q) - 1
    BY <1>1, <1>2, <1>3, HeadTailProperties
  <2> QED BY <1>1, <1>2, <1>3, <2>1, <2>2, HeadTailProperties
<1>5. PICK w \in Sessions \cup {Nobody} : w = q[1] BY <1>2, <1>4
<1>6. w = Nobody => UNCHANGED sess BY <1>4, <1>5 DEF Executes
<1>7. w # Nobody => /\ w \in Sessions /\ sess[w].at \in Waits /\ sess[w].rt = g
                    /\ sess[w].at = "fencing" => Len(q) = 1
                    /\ \A j \in 1 .. Len(q) : q[j] = w => j = 1
  BY <1>4, <1>5 DEF QueuesFit, At
<1>8. w # Nobody =>
        \E where \in {"open", "unwatch", "release", "fenced"} :
           /\ Goes(w, where)
           /\ where = "open" <=> sess[w].at = "asking"
           /\ where = "unwatch" <=> sess[w].at = "closing"
           /\ where = "release" <=> sess[w].at = "saving"
           /\ where = "fenced" <=> sess[w].at = "fencing"
  BY <1>4, <1>5, <1>7 DEF Executes, Waits
<1>9. w # Nobody =>
        /\ sess' \in [Sessions -> [at : Places, rt : 0 .. Generations, retried : BOOLEAN]]
        /\ sess'[w].at \in {"open", "unwatch", "release", "fenced"}
        /\ sess'[w].rt = sess[w].rt
        /\ sess'[w].at = "open" <=> sess[w].at = "asking"
        /\ sess'[w].at = "unwatch" <=> sess[w].at = "closing"
        /\ sess'[w].at = "release" <=> sess[w].at = "saving"
        /\ sess'[w].at = "fenced" <=> sess[w].at = "fencing"
        /\ \A t \in Sessions : t # w => sess'[t] = sess[t]
  <2> SUFFICES ASSUME w # Nobody PROVE
        /\ sess' \in [Sessions -> [at : Places, rt : 0 .. Generations, retried : BOOLEAN]]
        /\ sess'[w].at \in {"open", "unwatch", "release", "fenced"}
        /\ sess'[w].rt = sess[w].rt
        /\ sess'[w].at = "open" <=> sess[w].at = "asking"
        /\ sess'[w].at = "unwatch" <=> sess[w].at = "closing"
        /\ sess'[w].at = "release" <=> sess[w].at = "saving"
        /\ sess'[w].at = "fenced" <=> sess[w].at = "fencing"
        /\ \A t \in Sessions : t # w => sess'[t] = sess[t]
    OBVIOUS
  <2>1. PICK where \in {"open", "unwatch", "release", "fenced"} :
           /\ Goes(w, where)
           /\ where = "open" <=> sess[w].at = "asking"
           /\ where = "unwatch" <=> sess[w].at = "closing"
           /\ where = "release" <=> sess[w].at = "saving"
           /\ where = "fenced" <=> sess[w].at = "fencing"
    BY <1>8
  <2>2. where \in Places BY DEF Places, Holding
  <2>3. /\ sess' \in [Sessions -> [at : Places, rt : 0 .. Generations, retried : BOOLEAN]]
        /\ sess'[w].at = where /\ sess'[w].rt = sess[w].rt
        /\ \A t \in Sessions : t # w => sess'[t] = sess[t]
    BY <1>7, <2>1, <2>2, Moving
  <2> QED BY <2>1, <2>3
<1>10. sess' \in [Sessions -> [at : Places, rt : 0 .. Generations, retried : BOOLEAN]]
  BY <1>6, <1>9 DEF RuntimeTypes
<1>11. \A t \in Sessions : t # w => sess'[t] = sess[t] BY <1>6, <1>9
<1> HIDE DEF q, r
<1>12. RuntimeTypes' BY <1>1, <1>3, <1>10 DEF RuntimeTypes
<1>13. LivesFit' /\ SessionsFit'
  <2>1. CASE w = Nobody BY <1>1, <1>6, <2>1, LoneStep
  <2>2. CASE w # Nobody
    <3>1. \A t \in Sessions : /\ sess'[t].rt = sess[t].rt
                              /\ sess'[t].at = "found" <=> sess[t].at = "found"
                              /\ sess'[t].at \in {"out", "failed"} <=>
                                   sess[t].at \in {"out", "failed"}
                              /\ sess'[t].at \in Holding <=> sess[t].at \in Holding
                              /\ sess'[t].at \in {"shutdown", "fencing", "fenced"}
                                    <=> sess[t].at \in {"shutdown", "fencing", "fenced"}
      BY <1>7, <1>9, <2>2 DEF Holding, Waits
    <3> QED BY <1>1, <3>1 DEF LivesFit, SessionsFit, At
  <2> QED BY <2>1, <2>2
<1>14. WatchesFit'
  <2>1. CASE w = Nobody BY <1>1, <1>6, <2>1 DEF WatchesFit, At
  <2>2. CASE w # Nobody
    <3>1. w \in Sessions /\ sess[w].at # "flush" /\ sess'[w].at # "flush"
      BY <1>7, <1>9, <2>2 DEF Waits
    <3>2. sess[w].at \in Watching => sess'[w].at \in Watching
      BY <1>7, <1>9, <2>2 DEF Waits, Watching
    <3>3. sess'[w].rt = sess[w].rt BY <1>9, <2>2
    <3> QED BY <1>1, <1>11, <3>1, <3>2, <3>3, WatchMoves
  <2> QED BY <2>1, <2>2
<1>15. \A h \in Gens : \A i \in DOMAIN cmds'[h] : cmds'[h][i] # Nobody =>
          /\ sess'[cmds'[h][i]].at \in Waits /\ sess'[cmds'[h][i]].rt = h
          /\ sess'[cmds'[h][i]].at = "fencing" => i = Len(cmds'[h])
          /\ \A j \in DOMAIN cmds'[h] : cmds'[h][i] = cmds'[h][j] => i = j
  <2> SUFFICES ASSUME NEW h \in Gens, NEW i \in DOMAIN cmds'[h], cmds'[h][i] # Nobody
               PROVE  /\ sess'[cmds'[h][i]].at \in Waits /\ sess'[cmds'[h][i]].rt = h
                      /\ sess'[cmds'[h][i]].at = "fencing" => i = Len(cmds'[h])
                      /\ \A j \in DOMAIN cmds'[h] : cmds'[h][i] = cmds'[h][j] => i = j
    OBVIOUS
  <2>1. CASE h = g
    <3>1. /\ i \in 1 .. Len(q) - 1 /\ i + 1 \in 1 .. Len(q) /\ r[i] = q[i + 1]
          /\ q[i + 1] # Nobody
      BY <1>4, <2>1 DEF r
    <3>2. /\ q[i + 1] \in Sessions /\ sess[q[i + 1]].at \in Waits /\ sess[q[i + 1]].rt = g
          /\ sess[q[i + 1]].at = "fencing" => i + 1 = Len(q)
          /\ \A j \in 1 .. Len(q) : q[i + 1] = q[j] => i + 1 = j
      BY <1>2, <1>4, <3>1 DEF QueuesFit, At, q
    <3>3. q[i + 1] # w
      <4>1. i + 1 # 1 BY <1>4, <3>1
      <4> QED BY <1>4, <1>5, <3>2, <4>1
    <3>4. sess'[q[i + 1]] = sess[q[i + 1]] BY <1>11, <3>2, <3>3
    <3>5. \A j \in 1 .. Len(q) - 1 : r[i] = r[j] => i = j
      BY <1>4, <3>1, <3>2
    <3>6. sess'[r[i]].at \in Waits /\ sess'[r[i]].rt = g BY <3>1, <3>2, <3>4
    <3>7. sess'[r[i]].at = "fencing" => i = Len(r)
      <4>1. i \in Nat /\ Len(q) \in Nat BY <1>4, <3>1
      <4>2. sess'[r[i]].at = "fencing" => i + 1 = Len(q) BY <3>1, <3>2, <3>4
      <4>3. Len(r) = Len(q) - 1 BY <1>4
      <4> QED BY <4>1, <4>2, <4>3
    <3>8. \A j \in DOMAIN r : r[i] = r[j] => i = j BY <1>4, <3>5
    <3> QED BY <2>1, <3>6, <3>7, <3>8 DEF r
  <2>2. CASE h # g
    <3>1. cmds'[h] = cmds[h] BY <1>3, <2>2
    <3>2. cmds[h] \in Seq(Sessions \cup {Nobody}) BY DEF RuntimeTypes
    <3>3. /\ cmds[h][i] \in Sessions /\ sess[cmds[h][i]].at \in Waits
          /\ sess[cmds[h][i]].rt = h
          /\ sess[cmds[h][i]].at = "fencing" => i = Len(cmds[h])
          /\ \A j \in DOMAIN cmds[h] : cmds[h][i] = cmds[h][j] => i = j
      BY <3>1, <3>2 DEF QueuesFit, At
    <3>4. cmds[h][i] # w BY <1>7, <2>2, <3>1, <3>3
    <3>5. sess'[cmds[h][i]] = sess[cmds[h][i]] BY <1>11, <3>3, <3>4
    <3> QED BY <3>1, <3>3, <3>5
  <2> QED BY <2>1, <2>2
<1>16. \A s \in Sessions : sess'[s].at = "fenced" => cmds'[sess'[s].rt] = <<>>
  <2> SUFFICES ASSUME NEW s \in Sessions,
        sess'[s].at = "fenced" PROVE cmds'[sess'[s].rt] = <<>>
    OBVIOUS
  <2>1. CASE s = w
    <3>1. s # Nobody BY GraphRuntimeAssumption
    <3>2. Len(q) = 1 /\ sess'[w].rt = g BY <1>7, <1>9, <2>1, <3>1
    <3>3. r = <<>> BY <1>2, <1>3, <1>4, <3>2, EmptySeq DEF r
    <3> QED BY <2>1, <3>2, <3>3 DEF r
  <2>2. CASE s # w
    <3>1. sess'[s] = sess[s] BY <1>11, <2>2
    <3>2. cmds[sess[s].rt] = <<>> /\ sess[s].rt \in Gens
      BY <3>1 DEF QueuesFit, SessionsFit, At
    <3>3. sess[s].rt # g BY <1>1, <3>2 DEF q
    <3> QED BY <1>3, <3>1, <3>2, <3>3
  <2> QED BY <2>1, <2>2
<1>17. \A h \in Gens : life'[h] = "closed" => cmds'[h] = <<>>
  BY <1>1, <1>3 DEF QueuesFit, q
<1>18. QueuesFit' BY <1>15, <1>16, <1>17 DEF QueuesFit, At
<1> QED BY <1>12, <1>13, <1>14, <1>18

(* Every step of the sessions and of the runtimes keeps the invariant. *)
LEMMA RuntimeStep == RuntimeInv /\ [RuntimeNext]_runtimes => RuntimeInv'
<1> SUFFICES ASSUME RuntimeInv, [RuntimeNext]_runtimes PROVE RuntimeInv' OBVIOUS
<1>1. CASE UNCHANGED runtimes
  <2>1. LivesFit' /\ SessionsFit' BY <1>1, LoneStep DEF runtimes
  <2>2. RuntimeTypes' BY <1>1 DEF runtimes, RuntimeInv, RuntimeTypes
  <2>3. WatchesFit' BY <1>1 DEF runtimes, RuntimeInv, WatchesFit, At
  <2>4. QueuesFit' BY <1>1 DEF runtimes, RuntimeInv, QueuesFit, At
  <2> QED BY <2>1, <2>2, <2>3, <2>4 DEF RuntimeInv
<1>2. CASE RuntimeNext
  BY <1>2, GetOrCreateKeeps, AcquireKeeps, OutsideKeeps, SubmitKeeps, AcquireWatchKeeps,
     ClosingKeeps, ReleaseWatchKeeps, FlushKeeps, ReleaseKeeps, FenceKeeps,
       ShutsDownKeeps,
     ExecutesKeeps, NoticeKeeps, DeliverKeeps DEF RuntimeNext
<1> QED BY <1>1, <1>2

(* The invariant gives the three promises of the runtime. *)
LEMMA RuntimeIsRight == RuntimeInv => RuntimeIsShared
<1> SUFFICES ASSUME RuntimeInv PROVE RuntimeIsShared OBVIOUS
<1> USE DEF RuntimeInv
<1>1. LeaseKeepsOpen BY HoldsOpen DEF LeaseKeepsOpen, At
<1>2. \A g \in Gens : observer[g] # "off" => life[g] = "open"
  <2> SUFFICES ASSUME NEW g \in Gens, observer[g] # "off" PROVE life[g] = "open" OBVIOUS
  <2>1. CASE observer[g] = "on"
    <3>1. leases[g] # {} BY <2>1 DEF WatchesFit
    <3> QED BY <3>1 DEF LivesFit
  <2>2. CASE observer[g] = "stopping"
    <3>1. PICK s \in Sessions : watchLock[g] = s BY <2>2 DEF WatchesFit, RuntimeTypes
    <3>2. sess[s].at = "flush" /\ sess[s].rt = g BY <3>1 DEF WatchesFit, At
    <3> QED BY <3>2, HoldsOpen DEF At, Holding
  <2> QED BY <2>1, <2>2 DEF RuntimeTypes
<1>3. \A g \in Gens : life[g] = "open" => g = registry BY DEF LivesFit
<1>4. OneActor BY <1>2, <1>3 DEF OneActor, LivesFit, WatchesFit, At
<1>5. AdmittedIsDone
  <2> SUFFICES ASSUME NEW g \in Gens, life[g] = "closed"
               PROVE  cmds[g] = <<>> /\ observer[g] = "off" /\ watchers[g] = {}
    BY DEF AdmittedIsDone
  <2>1. observer[g] = "off" BY <1>2
  <2>2. watchers[g] = {} BY <2>1 DEF WatchesFit
  <2> QED BY <2>1, <2>2 DEF QueuesFit
<1> QED BY <1>1, <1>4, <1>5 DEF RuntimeIsShared

(* For any finite number of sessions on one root: a session that holds a   *)
(* handle has an open runtime, whoever else closes at the same time; at    *)
(* most one runtime is open and watches; and a runtime closes only after   *)
(* every command it accepted was executed (CodebaseIndexManager,           *)
(* WorkspaceGraphRuntime of graph/runtime.py).                             *)
THEOREM RuntimeIsSound == RuntimeSpec => []RuntimeIsShared
BY RuntimeStarts, RuntimeStep, RuntimeIsRight, PTL DEF RuntimeSpec

-----------------------------------------------------------------------------
(* The index of the code graph (GraphIndex). *)

(* One event does not both fix a file and spoil it. *)
LEMMA EventsApply ==
    ASSUME NEW e \in Events, NEW f, NEW good
    PROVE  /\ ~(Fixes(e, f, good) /\ Spoils(e, f, good))
           /\ e.file # f /\ e.to # f => ~Fixes(e, f, good) /\ ~Spoils(e, f, good)
           /\ e.kind = "touch" =>
                ~Spoils(e, f, good) /\ (Fixes(e, f, good) <=> e.file = f)
BY DEF Events, Fixes, Spoils

(* Without events a file stays as it is. *)
LEMMA EmptyApplies ==
    ASSUME NEW b \in BOOLEAN, NEW f, NEW good
    PROVE  /\ ~Fixing(<<>>, f, good) /\ Clean(<<>>, f, good)
           /\ Ends(b, <<>>, f, good) <=> b
BY DEF Ends, Fixing, Clean

(* One more event: it fixes the file, or leaves it as it was. *)
LEMMA AppendApplies ==
    ASSUME NEW s \in Seq(Events), NEW e \in Events, NEW b \in BOOLEAN, NEW f, NEW good
    PROVE  /\ Fixing(Append(s, e), f, good)
                <=> Fixes(e, f, good) \/ (Fixing(s, f, good) /\ ~Spoils(e, f, good))
           /\ Clean(Append(s, e), f, good) <=> Clean(s, f, good) /\ ~Spoils(e, f, good)
           /\ Ends(b, Append(s, e), f, good)
                <=> Fixes(e, f, good) \/ (Ends(b, s, f, good) /\ ~Spoils(e, f, good))
<1> DEFINE r == Append(s, e)
<1>1. /\ Len(s) \in Nat /\ DOMAIN s = 1 .. Len(s) /\ DOMAIN r = 1 .. Len(s) + 1
      /\ \A i \in 1 .. Len(s) : r[i] = s[i]
      /\ r[Len(s) + 1] = e
  BY AppendProperties
<1> HIDE DEF r
<1>2. \A i \in 1 .. Len(s) + 1 : i \in 1 .. Len(s) \/ i = Len(s) + 1 BY <1>1
<1>3. Clean(r, f, good) <=> Clean(s, f, good) /\ ~Spoils(e, f, good)
  BY <1>1, <1>2 DEF Clean
<1>4. ASSUME Fixes(e, f, good) PROVE Fixing(r, f, good)
  BY <1>1, <1>2, <1>4 DEF Fixing
<1>5. ASSUME Fixing(s, f, good), ~Spoils(e, f, good) PROVE Fixing(r, f, good)
  <2>1. PICK i \in 1 .. Len(s) : Fixes(s[i], f, good) /\ \A j \in 1 .. Len(s) : j > i =>
          ~Spoils(s[j], f, good)
    BY <1>1, <1>5 DEF Fixing
  <2>2. i \in 1 .. Len(s) + 1 /\ Fixes(r[i], f, good) BY <1>1, <2>1
  <2>3. \A j \in 1 .. Len(s) + 1 : j > i => ~Spoils(r[j], f, good)
    BY <1>1, <1>2, <1>5, <2>1
  <2> QED BY <1>1, <2>2, <2>3 DEF Fixing
<1>6. ASSUME Fixing(r, f, good) PROVE Fixes(e, f, good)
        \/ (Fixing(s, f, good) /\ ~Spoils(e, f, good))
  <2>1. PICK i \in 1 .. Len(s) + 1 :
            Fixes(r[i], f, good) /\ \A j \in 1 .. Len(s) + 1 : j > i =>
              ~Spoils(r[j], f, good)
    BY <1>1, <1>6 DEF Fixing
  <2>2. CASE i = Len(s) + 1 BY <1>1, <2>1, <2>2
  <2>3. CASE i \in 1 .. Len(s)
    <3>1. ~Spoils(e, f, good) BY <1>1, <2>1, <2>3
    <3>2. Fixes(s[i], f, good) BY <1>1, <2>1, <2>3
    <3>3. \A j \in 1 .. Len(s) : j > i => ~Spoils(s[j], f, good) BY <1>1, <2>1, <2>3
    <3> QED BY <1>1, <2>3, <3>1, <3>2, <3>3 DEF Fixing
  <2> QED BY <1>2, <2>2, <2>3
<1>7. Fixing(r, f, good) <=>
        Fixes(e, f, good) \/ (Fixing(s, f, good) /\ ~Spoils(e, f, good))
  BY <1>4, <1>5, <1>6
<1> QED BY <1>3, <1>7 DEF Ends, r

(* Two sequences of events, one after the other. *)
LEMMA CatApplies ==
    ASSUME NEW s \in Seq(Events), NEW t \in Seq(Events), NEW b \in BOOLEAN, NEW f,
      NEW good
    PROVE  /\ Fixing(s \o t, f, good)
                <=> Fixing(t, f, good) \/ (Fixing(s, f, good) /\ Clean(t, f, good))
           /\ Clean(s \o t, f, good) <=> Clean(s, f, good) /\ Clean(t, f, good)
           /\ Ends(b, s \o t, f, good) <=> Ends(Ends(b, s, f, good), t, f, good)
<1> DEFINE r == s \o t
           m == Len(s)
           n == Len(t)
<1>1. /\ m \in Nat /\ n \in Nat /\ DOMAIN s = 1 .. m /\ DOMAIN t = 1 .. n
      /\ DOMAIN r = 1 .. m + n
      /\ \A i \in 1 .. m : r[i] = s[i]
      /\ \A i \in 1 .. n : r[m + i] = t[i]
  <2>1. r \in Seq(Events) /\ Len(r) = m + n
        /\ \A i \in 1 .. m + n : r[i] = IF i <= m THEN s[i] ELSE t[i - m]
    BY ConcatProperties
  <2>2. DOMAIN r = 1 .. m + n BY <2>1
  <2>3. \A i \in 1 .. n : m + i \in 1 .. m + n /\ ~(m + i <= m) /\ m + i - m = i OBVIOUS
  <2> QED BY <2>1, <2>2, <2>3
<1> HIDE DEF r, m, n
<1>2. \A i \in 1 .. m + n : i \in 1 .. m \/ \E k \in 1 .. n : i = m + k
  <2> TAKE i \in 1 .. m + n
  <2>1. CASE i <= m BY <1>1, <2>1
  <2>2. CASE i > m
    <3>1. i - m \in 1 .. n /\ i = m + (i - m) BY <1>1, <2>2
    <3> QED BY <3>1
  <2> QED BY <1>1, <2>1, <2>2
<1>3. Clean(r, f, good) <=> Clean(s, f, good) /\ Clean(t, f, good)
  <2>1. \A i \in 1 .. m : i \in 1 .. m + n BY <1>1
  <2>2. \A i \in 1 .. n : m + i \in 1 .. m + n BY <1>1
  <2>3. ASSUME Clean(r, f, good) PROVE Clean(s, f, good) /\ Clean(t, f, good)
    BY <1>1, <2>1, <2>2, <2>3 DEF Clean
  <2>4. ASSUME Clean(s, f, good), Clean(t, f, good) PROVE Clean(r, f, good)
    <3> SUFFICES ASSUME NEW i \in 1 .. m + n PROVE ~Spoils(r[i], f, good)
      BY <1>1 DEF Clean
    <3>1. CASE i \in 1 .. m BY <1>1, <2>4, <3>1 DEF Clean
    <3>2. CASE \E k \in 1 .. n : i = m + k BY <1>1, <2>4, <3>2 DEF Clean
    <3> QED BY <1>2, <3>1, <3>2
  <2> QED BY <2>3, <2>4
<1>4. ASSUME Fixing(t, f, good) PROVE Fixing(r, f, good)
  <2>1. PICK k \in 1 .. n : Fixes(t[k], f, good) /\ \A j \in 1 .. n : j > k =>
          ~Spoils(t[j], f, good)
    BY <1>1, <1>4 DEF Fixing
  <2>2. m + k \in 1 .. m + n /\ Fixes(r[m + k], f, good) BY <1>1, <2>1
  <2>3. ASSUME NEW j \in 1 .. m + n, j > m + k PROVE ~Spoils(r[j], f, good)
    <3>1. PICK l \in 1 .. n : j = m + l
      <4>1. j \in Nat /\ j > m + k /\ j <= m + n /\ m \in Nat /\ n \in Nat /\ k \in Nat
        BY <1>1, <1>2, <2>1, <2>3
      <4>2. j - m \in 1 .. n /\ j = m + (j - m) BY <4>1
      <4> QED BY <4>2
    <3>2. l > k BY <1>1, <2>3, <3>1
    <3> QED BY <1>1, <2>1, <3>1, <3>2
  <2> QED BY <1>1, <2>2, <2>3 DEF Fixing
<1>5. ASSUME Fixing(s, f, good), Clean(t, f, good) PROVE Fixing(r, f, good)
  <2>1. PICK k \in 1 .. m : Fixes(s[k], f, good) /\ \A j \in 1 .. m : j > k =>
          ~Spoils(s[j], f, good)
    BY <1>1, <1>5 DEF Fixing
  <2>2. k \in 1 .. m + n /\ Fixes(r[k], f, good) BY <1>1, <2>1
  <2>3. ASSUME NEW j \in 1 .. m + n, j > k PROVE ~Spoils(r[j], f, good)
    <3>1. CASE j \in 1 .. m BY <1>1, <2>1, <2>3, <3>1
    <3>2. CASE \E l \in 1 .. n : j = m + l BY <1>1, <1>5, <3>2 DEF Clean
    <3> QED BY <1>2, <3>1, <3>2
  <2> QED BY <1>1, <2>2, <2>3 DEF Fixing
<1>6. ASSUME Fixing(r, f, good) PROVE Fixing(t, f, good)
        \/ (Fixing(s, f, good) /\ Clean(t, f, good))
  <2>1. PICK i \in 1 .. m + n :
            Fixes(r[i], f, good) /\ \A j \in 1 .. m + n : j > i => ~Spoils(r[j], f, good)
    BY <1>1, <1>6 DEF Fixing
  <2>2. CASE i \in 1 .. m
    <3>1. \A j \in 1 .. n : m + j \in 1 .. m + n /\ m + j > i BY <1>1, <2>2
    <3>2. Clean(t, f, good) BY <1>1, <2>1, <3>1 DEF Clean
    <3>3. Fixes(s[i], f, good) BY <1>1, <2>1, <2>2
    <3>4. \A j \in 1 .. m : j > i => ~Spoils(s[j], f, good) BY <1>1, <2>1
    <3> QED BY <1>1, <2>2, <3>2, <3>3, <3>4 DEF Fixing
  <2>3. CASE \E k \in 1 .. n : i = m + k
    <3>1. PICK k \in 1 .. n : i = m + k BY <2>3
    <3>2. Fixes(t[k], f, good) BY <1>1, <2>1, <3>1
    <3>3. ASSUME NEW j \in 1 .. n, j > k PROVE ~Spoils(t[j], f, good)
      <4>1. m + j \in 1 .. m + n /\ m + j > i BY <1>1, <3>1, <3>3
      <4> QED BY <1>1, <2>1, <4>1
    <3> QED BY <1>1, <3>2, <3>3 DEF Fixing
  <2> QED BY <1>2, <2>2, <2>3
<1>7. Fixing(r, f, good) <=>
        Fixing(t, f, good) \/ (Fixing(s, f, good) /\ Clean(t, f, good))
  BY <1>4, <1>5, <1>6
<1> QED BY <1>3, <1>7 DEF Ends, r

(* The first event of a sequence and the rest. *)
LEMMA HeadApplies ==
    ASSUME NEW s \in Seq(Events), s # <<>>, NEW b \in BOOLEAN, NEW f, NEW good
    PROVE  /\ Clean(s, f, good) <=> ~Spoils(Head(s), f, good) /\ Clean(Tail(s), f, good)
           /\ Ends(b, s, f, good)
                <=> Ends(Fixes(Head(s), f, good) \/ (b /\ ~Spoils(Head(s), f, good)),
                  Tail(s), f, good)
<1> DEFINE e == Head(s)
           t == Tail(s)
           r == <<e>>
<1>1. e \in Events /\ t \in Seq(Events) /\ r \in Seq(Events) /\ s = r \o t
  BY HeadTailProperties
<1> HIDE DEF e, t, r
<1>2. /\ Clean(s, f, good) <=> Clean(r, f, good) /\ Clean(t, f, good)
      /\ Ends(b, s, f, good) <=> Ends(Ends(b, r, f, good), t, f, good)
  <2>1. /\ Clean(r \o t, f, good) <=> Clean(r, f, good) /\ Clean(t, f, good)
        /\ Ends(b, r \o t, f, good) <=> Ends(Ends(b, r, f, good), t, f, good)
    BY <1>1, CatApplies
  <2> QED BY <1>1, <2>1
<1>3. r = Append(<<>>, e) /\ <<>> \in Seq(Events) BY <1>1 DEF r
<1>4. /\ Clean(r, f, good) <=> ~Spoils(e, f, good)
      /\ Ends(b, r, f, good) <=> Fixes(e, f, good) \/ (b /\ ~Spoils(e, f, good))
  <2>1. /\ Clean(r, f, good) <=> Clean(<<>>, f, good) /\ ~Spoils(e, f, good)
        /\ Ends(b, r, f, good) <=>
             Fixes(e, f, good) \/ (Ends(b, <<>>, f, good) /\ ~Spoils(e, f, good))
    BY <1>1, <1>3, AppendApplies, ZenonT(30)
  <2> QED BY <2>1, EmptyApplies
<1>5. Ends(b, r, f, good) = (Fixes(e, f, good) \/ (b /\ ~Spoils(e, f, good)))
  BY <1>4 DEF Ends
<1> QED BY <1>2, <1>4, <1>5 DEF e, t

(* What is right for fewer versions is right for more. *)
LEMMA MoreIsRight ==
    ASSUME NEW s \in Seq(Events), NEW b \in BOOLEAN, NEW c \in BOOLEAN, b => c, NEW f,
           NEW good, NEW more, good \subseteq more
    PROVE  /\ Fixing(s, f, good) => Fixing(s, f, more)
           /\ Clean(s, f, good) => Clean(s, f, more)
           /\ Ends(b, s, f, good) => Ends(c, s, f, more)
<1>1. \A e : (Fixes(e, f, good) => Fixes(e, f, more))
        /\ (Spoils(e, f, more) => Spoils(e, f, good))
  BY DEF Fixes, Spoils
<1>2. Clean(s, f, good) => Clean(s, f, more) BY <1>1 DEF Clean
<1>3. Fixing(s, f, good) => Fixing(s, f, more) BY <1>1 DEF Fixing
<1> QED BY <1>2, <1>3 DEF Ends

-----------------------------------------------------------------------------
(* The commands of a queue carry sequences of events. *)
LEMMA OrderTyped ==
    ASSUME NEW q \in Seq(Orders)
    PROVE  /\ Len(q) \in Nat /\ DOMAIN q = 1 .. Len(q)
           /\ \A k \in 1 .. Len(q) : q[k] \in Orders /\ q[k].events \in Seq(Events)
<1>1. \A k \in 1 .. Len(q) : q[k] \in Orders BY ElementOfSeq
<1>2. \A c \in Orders : c.events \in Seq(Events) BY DEF Orders
<1> QED BY <1>1, <1>2, LenProperties

(* A command is taken from a queue. *)
LEMMA QueueTaken ==
    ASSUME NEW q \in Seq(Orders), q # <<>>, NEW b \in BOOLEAN, NEW f, NEW good, NEW stops
    PROVE  /\ Head(q) \in Orders /\ Tail(q) \in Seq(Orders)
           /\ Head(q).events \in Seq(Events)
           /\ QueueClean(q, f, good) => /\ Clean(Head(q).events, f, good)
                                        /\ QueueClean(Tail(q), f, good)
           /\ QueueEnds(b, q, f, good, stops) /\ Head(q).cmd \notin stops
                => QueueEnds(Ends(b, Head(q).events, f, good), Tail(q), f, good, stops)
           /\ QueueEnds(b, q, f, good, stops) /\ Head(q).cmd \in stops =>
                b /\ QueueClean(q, f, good)
<1> DEFINE r == Tail(q)
           n == Len(r)
<1>1. /\ Head(q) \in Orders /\ r \in Seq(Orders) /\ Len(q) = n + 1 /\ Head(q) = q[1]
      /\ \A i \in 1 .. n : r[i] = q[i + 1]
      /\ Head(q).events \in Seq(Events)
  <2>1. \A c \in Orders : c.events \in Seq(Events) BY DEF Orders
  <2>2. Len(q) \in Nat \ {0} BY EmptySeq
  <2> QED BY <2>1, <2>2, HeadTailProperties
<1>2. n \in Nat /\ DOMAIN r = 1 .. n /\ DOMAIN q = 1 .. n + 1 BY <1>1, OrderTyped
<1> HIDE DEF r, n
<1>3. 1 \in 1 .. n + 1 /\ \A i \in 1 .. n : i + 1 \in 1 .. n + 1 BY <1>2
<1>4. ASSUME QueueClean(q, f, good) PROVE Clean(Head(q).events, f, good)
        /\ QueueClean(r, f, good)
  BY <1>1, <1>2, <1>3, <1>4 DEF QueueClean
<1>5. ASSUME QueueEnds(b, q, f, good, stops), Head(q).cmd \notin stops
      PROVE  QueueEnds(Ends(b, Head(q).events, f, good), r, f, good, stops)
  <2>1. CASE b /\ QueueClean(q, f, good) BY <1>4, <2>1 DEF QueueEnds, Ends
  <2>2. CASE QueueFixes(q, f, good, stops)
    <3>1. PICK k \in 1 .. n + 1 : /\ Fixing(q[k].events, f, good)
                                  /\ \A j \in 1 .. n + 1 : j > k =>
                                       Clean(q[j].events, f, good)
                                  /\ \A j \in 1 .. n + 1 : j <= k => q[j].cmd \notin stops
      BY <1>2, <2>2 DEF QueueFixes
    <3>2. CASE k = 1
      <4>1. Ends(b, Head(q).events, f, good) BY <1>1, <3>1, <3>2 DEF Ends
      <4>2. QueueClean(r, f, good)
        <5>1. \A i \in 1 .. n : i + 1 \in 1 .. n + 1 /\ i + 1 > k BY <1>2, <3>2
        <5> QED BY <1>1, <1>2, <3>1, <5>1 DEF QueueClean
      <4> QED BY <4>1, <4>2 DEF QueueEnds
    <3>3. CASE k # 1
      <4>1. k - 1 \in 1 .. n /\ k - 1 + 1 = k BY <1>2, <3>3
      <4>2. Fixing(r[k - 1].events, f, good) BY <1>1, <3>1, <4>1
      <4>3. \A j \in 1 .. n : j > k - 1 => Clean(r[j].events, f, good)
        <5>1. \A j \in 1 .. n : j > k - 1 => j + 1 > k BY <1>2
        <5> QED BY <1>1, <1>3, <3>1, <5>1
      <4>4. \A j \in 1 .. n : j <= k - 1 => r[j].cmd \notin stops
        <5>1. \A j \in 1 .. n : j <= k - 1 => j + 1 <= k BY <1>2
        <5> QED BY <1>1, <1>3, <3>1, <5>1
      <4> QED BY <1>2, <4>1, <4>2, <4>3, <4>4 DEF QueueEnds, QueueFixes
    <3> QED BY <3>2, <3>3
  <2> QED BY <1>5, <2>1, <2>2 DEF QueueEnds
<1>6. ASSUME QueueEnds(b, q, f, good, stops), Head(q).cmd \in stops PROVE b
        /\ QueueClean(q, f, good)
  <2>1. \A k \in 1 .. n + 1 : 1 <= k BY <1>2
  <2>2. ~QueueFixes(q, f, good, stops) BY <1>1, <1>2, <1>3, <1>6, <2>1 DEF QueueFixes
  <2> QED BY <1>6, <2>2 DEF QueueEnds
<1> QED BY <1>1, <1>4, <1>5, <1>6 DEF r

(* A command joins a queue. *)
LEMMA QueueJoined ==
    ASSUME NEW q \in Seq(Orders), NEW c \in Orders, NEW b \in BOOLEAN, NEW f, NEW good,
      NEW stops
    PROVE  /\ Append(q, c) \in Seq(Orders)
           /\ QueueClean(q, f, good) /\ Clean(c.events, f, good) =>
                QueueClean(Append(q, c), f, good)
           /\ QueueEnds(b, q, f, good, stops) /\ Clean(c.events, f, good)
                => QueueEnds(b, Append(q, c), f, good, stops)
           /\ /\ Fixing(c.events, f, good) /\ c.cmd \notin stops
              /\ \A k \in DOMAIN q : q[k].cmd \notin stops
              => QueueEnds(b, Append(q, c), f, good, stops)
<1> DEFINE r == Append(q, c)
           n == Len(q)
<1>1. /\ r \in Seq(Orders) /\ n \in Nat /\ DOMAIN q = 1 .. n /\ DOMAIN r = 1 .. n + 1
      /\ \A i \in 1 .. n : r[i] = q[i]
      /\ r[n + 1] = c
  BY AppendProperties
<1> HIDE DEF r, n
<1>2. /\ n + 1 \in 1 .. n + 1
      /\ \A i \in 1 .. n : i \in 1 .. n + 1 /\ i < n + 1
      /\ \A i \in 1 .. n + 1 : i \in 1 .. n \/ i = n + 1
  BY <1>1
<1>3. ASSUME QueueClean(q, f, good), Clean(c.events, f, good) PROVE QueueClean(r, f, good)
  BY <1>1, <1>2, <1>3 DEF QueueClean
<1>4. ASSUME QueueEnds(b, q, f, good, stops), Clean(c.events, f, good)
      PROVE  QueueEnds(b, r, f, good, stops)
  <2>1. CASE b /\ QueueClean(q, f, good) BY <1>3, <1>4, <2>1 DEF QueueEnds
  <2>2. CASE QueueFixes(q, f, good, stops)
    <3>1. PICK k \in 1 .. n : /\ Fixing(q[k].events, f, good)
                              /\ \A j \in 1 .. n : j > k => Clean(q[j].events, f, good)
                              /\ \A j \in 1 .. n : j <= k => q[j].cmd \notin stops
      BY <1>1, <2>2 DEF QueueFixes
    <3>2. k \in 1 .. n + 1 /\ Fixing(r[k].events, f, good) BY <1>1, <1>2, <3>1
    <3>3. \A j \in 1 .. n + 1 : j > k => Clean(r[j].events, f, good)
      BY <1>1, <1>2, <1>4, <3>1
    <3>4. \A j \in 1 .. n + 1 : j <= k => j \in 1 .. n BY <1>1
    <3>5. \A j \in 1 .. n + 1 : j <= k => r[j].cmd \notin stops BY <1>1, <3>1, <3>4
    <3> QED BY <1>1, <3>2, <3>3, <3>5 DEF QueueEnds, QueueFixes
  <2> QED BY <1>4, <2>1, <2>2 DEF QueueEnds
<1>5. ASSUME Fixing(c.events, f, good), c.cmd \notin stops, \A k \in DOMAIN q :
        q[k].cmd \notin stops
      PROVE  QueueEnds(b, r, f, good, stops)
  <2>1. \A j \in 1 .. n + 1 : ~(j > n + 1) BY <1>1
  <2>2. \A j \in 1 .. n + 1 : r[j].cmd \notin stops BY <1>1, <1>2, <1>5
  <2> QED BY <1>1, <1>2, <1>5, <2>1, <2>2 DEF QueueEnds, QueueFixes
<1> QED BY <1>1, <1>3, <1>4, <1>5 DEF r

(* The same for a queue of commands. *)
LEMMA MoreIsRightQueued ==
    ASSUME NEW q \in Seq(Orders), NEW b \in BOOLEAN, NEW c \in BOOLEAN, b => c, NEW f,
           NEW good, NEW more, good \subseteq more, NEW stops
    PROVE  /\ QueueClean(q, f, good) => QueueClean(q, f, more)
           /\ QueueEnds(b, q, f, good, stops) => QueueEnds(c, q, f, more, stops)
<1>1. \A k \in DOMAIN q : /\ Fixing(q[k].events, f, good) => Fixing(q[k].events, f, more)
                          /\ Clean(q[k].events, f, good) => Clean(q[k].events, f, more)
  BY OrderTyped, MoreIsRight
<1>2. QueueClean(q, f, good) => QueueClean(q, f, more) BY <1>1 DEF QueueClean
<1>3. QueueFixes(q, f, good, stops) => QueueFixes(q, f, more, stops)
  BY <1>1 DEF QueueFixes
<1> QED BY <1>2, <1>3 DEF QueueEnds

(* A queue without commands leaves a file as it is. *)
LEMMA EmptyQueueEnds ==
    ASSUME NEW b \in BOOLEAN, NEW f, NEW good, NEW stops
    PROVE  QueueClean(<<>>, f, good) /\ (QueueEnds(b, <<>>, f, good, stops) <=> b)
BY DEF QueueEnds, QueueFixes, QueueClean

(* What becomes of a file is a matter of yes or no. *)
LEMMA YesOrNo ==
    ASSUME NEW b, NEW s, NEW q, NEW f, NEW good, NEW stops
    PROVE  /\ Ends(b, s, f, good) \in BOOLEAN
           /\ QueueEnds(b, q, f, good, stops) \in BOOLEAN
           /\ Base(f, good) \in BOOLEAN /\ Worked(f, good) \in BOOLEAN
<1>1. Ends(b, s, f, good) \in BOOLEAN /\ QueueEnds(b, q, f, good, stops) \in BOOLEAN
  BY DEF Ends, QueueEnds
<1>2. Base(f, good) \in BOOLEAN BY DEF Base
<1>3. Worked(f, good) \in BOOLEAN BY DEF Worked, Ends
<1> QED BY <1>1, <1>2, <1>3

(* A build indexes what is there. *)
LEMMA BuildIsRight ==
    ASSUME GraphTypes, NEW f \in Files, NEW good, disk[f] \in good
    PROVE  Everything \in Seq(Events) /\ Ends(0 \in good, Everything, f, good)
<1> DEFINE there == {g \in Files : disk[g] # 0}
           all == {Touch(g) : g \in there}
           n == Cardinality(all)
<1>1. IsFiniteSet(all)
  <2>1. IsFiniteSet(there) BY GraphIndexAssumption, FS_Subset
  <2>2. [g \in there |-> Touch(g)] \in Surjection(there, all)
    <3> DEFINE h == [g \in there |-> Touch(g)]
    <3>1. h \in [there -> all] OBVIOUS
    <3>2. \A e \in all : \E g \in there : h[g] = e OBVIOUS
    <3> QED BY <3>1, <3>2, Fun_IsSurj DEF Surjection
  <2> QED BY <2>1, <2>2, FS_Surjection
<1>2. \E s \in [1 .. n -> all] : IsInjective(s)
  <2>1. ExistsBijection(1 .. n, all) BY <1>1, FS_CardinalityType
  <2> QED BY <2>1 DEF ExistsBijection, Bijection, Injection
<1>3. Everything \in [1 .. n -> all] /\ IsInjective(Everything)
  BY <1>2 DEF Everything, SetToSeq
<1>4. n \in Nat BY <1>1, FS_CardinalityType
<1>5. Everything \in Surjection(1 .. n, all)
  <2>1. Everything \in Injection(1 .. n, all) BY <1>3 DEF Injection
  <2>2. Cardinality(1 .. n) = n BY <1>4, FS_Interval
  <2> QED BY <1>1, <2>1, <2>2, FS_Injection
<1>6. \A e \in all : e \in Events /\ e.kind = "touch" BY DEF Events, Touch
<1>7. Everything \in Seq(Events) /\ DOMAIN Everything = 1 .. n
  <2> HIDE DEF all, n
  <2>1. Everything \in [1 .. n -> Events] BY <1>3, <1>6
  <2> QED BY <1>4, <2>1
<1>8. \A i \in 1 .. n : ~Spoils(Everything[i], f, good) BY <1>3, <1>6, EventsApply
<1>9. CASE disk[f] = 0 BY <1>7, <1>8, <1>9 DEF Ends, Clean
<1>10. CASE disk[f] # 0
  <2>1. Touch(f) \in all BY <1>10
  <2>2. PICK i \in 1 .. n : Everything[i] = Touch(f) BY <1>5, <2>1 DEF Surjection
  <2>3. Fixes(Everything[i], f, good) BY <2>2 DEF Fixes, Touch
  <2> QED BY <1>7, <1>8, <2>3 DEF Ends, Fixing
<1> QED BY <1>7, <1>9, <1>10

(* What is under way, as the worker finds it. *)
LEMMA WorkTyped ==
    ASSUME GraphTypes, WorkFits
    PROVE  /\ worker.todo \in Seq(Events) /\ Todo \in Seq(Events)
           /\ events \in Seq(Events)
           /\ worker.cmd = "none" =>
                Todo = <<>> /\ worker.todo = <<>> /\ worker.read = <<>> /\ ~worker.replay
           /\ worker.todo # <<>> => /\ Head(worker.todo) \in Events
                /\ Tail(worker.todo) \in Seq(Events)
                                    /\ worker.cmd # "none"
<1>1. worker.todo \in Seq(Events) /\ events \in Seq(Events) BY DEF GraphTypes
<1>2. worker.read # <<>> => Tail(worker.todo) \in Seq(Events)
  BY <1>1, HeadTailProperties DEF WorkFits
<1>3. Todo \in Seq(Events) BY <1>1, <1>2 DEF Todo
<1>4. worker.cmd = "none" => worker = Idle BY DEF WorkFits
<1>5. worker.cmd = "none" => worker.todo = <<>> BY <1>4 DEF Idle
<1>6. worker.todo # <<>> =>
        Head(worker.todo) \in Events /\ Tail(worker.todo) \in Seq(Events)
  BY <1>1, HeadTailProperties
<1> QED BY <1>1, <1>3, <1>4, <1>5, <1>6 DEF Todo, Idle

-----------------------------------------------------------------------------
(* No step of the worker loses what is right for a file. *)
LEMMA TakeIsRight ==
    ASSUME GraphTypes, WorkFits, ThreadFits, Take,
           NEW f \in Files, NEW good, disk[f] \in good, NEW stops,
           QueueEnds(Worked(f, good), queue, f, good, stops)
    PROVE  QueueEnds(Worked(f, good)', queue', f, good, stops)
<1> DEFINE c == Head(queue)
           W == Worked(f, good)
<1>1. queue # <<>> /\ queue' = Tail(queue) /\ worker = Idle /\ UNCHANGED <<disk, manager>>
  BY DEF Take
<1>2. queue \in Seq(Orders) BY DEF GraphTypes
<1>3. W \in BOOLEAN BY YesOrNo
<1>4. /\ c \in Orders /\ Tail(queue) \in Seq(Orders) /\ c.events \in Seq(Events)
      /\ QueueClean(queue, f, good) => /\ Clean(c.events, f, good)
                                       /\ QueueClean(Tail(queue), f, good)
      /\ QueueEnds(W, queue, f, good, stops) /\ c.cmd \notin stops
           => QueueEnds(Ends(W, c.events, f, good), Tail(queue), f, good, stops)
      /\ QueueEnds(W, queue, f, good, stops) /\ c.cmd \in stops =>
           W /\ QueueClean(queue, f, good)
  BY <1>1, <1>2, <1>3, QueueTaken
<1>5. /\ worker.cmd = "none" /\ worker.todo = <<>> /\ worker.read = <<>> /\ Todo = <<>>
      /\ events \in Seq(Events)
  BY <1>1, WorkTyped DEF Idle
<1>6. W = Ends(Base(f, good), events, f, good)
  <2>1. Base(f, good) \in BOOLEAN BY YesOrNo
  <2>2. Ends(Base(f, good), <<>>, f, good) = Base(f, good) BY <2>1, EmptyApplies DEF Ends
  <2> QED BY <1>5, <2>2 DEF Worked
<1>8. QueueEnds(W, queue, f, good, stops) OBVIOUS
<1> HIDE DEF c, W
<1>7. QueueEnds(Ends(W, c.events, f, good), Tail(queue), f, good, stops)
  <2>1. CASE c.cmd \notin stops BY <1>4, <1>8, <2>1
  <2>2. CASE c.cmd \in stops
    <3>1. Ends(W, c.events, f, good) /\ QueueClean(Tail(queue), f, good)
      BY <1>4, <1>8, <2>2 DEF Ends
    <3> QED BY <3>1 DEF QueueEnds
  <2> QED BY <2>1, <2>2
<1>9. ASSUME Ends(W, c.events, f, good) => Worked(f, good)'
      PROVE  QueueEnds(Worked(f, good)', queue', f, good, stops)
  <2> DEFINE V == Worked(f, good)'
             U == Ends(W, c.events, f, good)
  <2>1. U \in BOOLEAN BY DEF Ends
  <2>2. V \in BOOLEAN BY DEF Worked, Ends
  <2>3. U => V BY <1>9
  <2>4. QueueEnds(U, Tail(queue), f, good, stops) BY <1>7
  <2> HIDE DEF U, V
  <2>5. QueueEnds(V, Tail(queue), f, good, stops)
    BY <1>4, <2>1, <2>2, <2>3, <2>4, MoreIsRightQueued
  <2> QED BY <1>1, <2>5 DEF V
<1>10. \A b \in BOOLEAN : Ends(b, <<>>, f, good) <=> b BY EmptyApplies
<1>11. Worked(f, good)' <=> Ends(Ends(Base(f, good)', Todo', f, good), events', f, good)
  BY DEF Worked
<1>12. Base(f, good)' \in BOOLEAN BY DEF Base
<1>13. ASSUME c.events = <<>>, UNCHANGED <<worker, events>>, Base(f, good) =>
         Base(f, good)'
       PROVE  QueueEnds(Worked(f, good)', queue', f, good, stops)
  <2>1. Todo' = <<>> BY <1>5, <1>13 DEF Todo
  <2>2. Ends(W, c.events, f, good) => Ends(Base(f, good), events, f, good)
    BY <1>3, <1>6, <1>10, <1>13
  <2>3. Ends(Base(f, good)', Todo', f, good) <=> Base(f, good)' BY <1>10, <1>12, <2>1
  <2>4. Ends(Base(f, good), events, f, good) => Ends(Base(f, good)', events, f, good)
    BY <1>13 DEF Ends
  <2>5. Ends(Ends(Base(f, good)', Todo', f, good), events, f, good) <=>
          Ends(Base(f, good)', events, f, good)
    BY <2>3 DEF Ends
  <2> QED BY <1>9, <1>11, <1>13, <2>2, <2>4, <2>5
<1>14. ASSUME NEW todo \in Seq(Events), c.events = <<>>, worker'.cmd # "none",
         worker'.todo = todo,
              worker'.read = <<>>, UNCHANGED events,
              Base(f, good) => Ends(worker'.index[f].text \in good, todo, f, good)
       PROVE  QueueEnds(Worked(f, good)', queue', f, good, stops)
  <2>1. Todo' = todo BY <1>14 DEF Todo
  <2>2. Ends(W, c.events, f, good) => Ends(Base(f, good), events, f, good)
    BY <1>3, <1>6, <1>10, <1>14
  <2>3. Base(f, good)' <=> worker'.index[f].text \in good BY <1>14 DEF Base, Reads
  <2>4. Base(f, good) => Ends(Base(f, good)', todo, f, good) BY <1>14, <2>3 DEF Ends
  <2>5. Ends(Base(f, good), events, f, good) =>
          Ends(Ends(Base(f, good)', todo, f, good), events, f, good)
    BY <2>4 DEF Ends
  <2> QED BY <1>9, <1>11, <1>14, <2>1, <2>2, <2>5
<1>15. c.cmd # "events" => c.events = <<>> BY <1>4 DEF Orders
<1>16. CASE c.cmd = "events" /\ manager = None
            /\ events' = events \o c.events
            /\ UNCHANGED <<worker, rebuild, cache, thread>>
  <2>1. Todo' = <<>> BY <1>5, <1>16 DEF Todo
  <2>2. Base(f, good)' <=> Base(f, good) BY <1>1, <1>16 DEF Base, Reads, Torn
  <2>3. Ends(Base(f, good)', Todo', f, good) <=> Base(f, good) BY <1>10, <1>12, <2>1, <2>2
  <2>4. Worked(f, good)' <=> Ends(Base(f, good), events \o c.events, f, good)
    BY <1>11, <1>16, <2>3 DEF Ends
  <2>5. Ends(Base(f, good), events \o c.events, f, good)
          <=> Ends(Ends(Base(f, good), events, f, good), c.events, f, good)
    <3> DEFINE b == Base(f, good)
    <3>1. b \in BOOLEAN BY YesOrNo
    <3> HIDE DEF b
    <3>2. Ends(b, events \o c.events, f, good) <=>
            Ends(Ends(b, events, f, good), c.events, f, good)
      BY <1>4, <1>5, <3>1, CatApplies
    <3> QED BY <3>2 DEF b
  <2> QED BY <1>6, <1>9, <2>4, <2>5
<1>17. CASE /\ c.cmd = "events" /\ manager # None
         /\ Work("events", c.events, manager, FALSE)
            /\ UNCHANGED <<events, dirty, rebuild, cache, thread>>
  <2>1. events = <<>> BY <1>17 DEF WorkFits
  <2>2. /\ worker'.cmd = "events" /\ worker'.todo = c.events /\ worker'.index = manager
        /\ worker'.read = <<>>
    BY <1>17 DEF Work
  <2>3. Base(f, good)' <=> manager[f].text \in good BY <2>2 DEF Base, Reads
  <2>4. Base(f, good) <=> manager[f].text \in good BY <1>5, <1>17 DEF Base
  <2>5. Todo' = c.events BY <2>2 DEF Todo
  <2>6. W <=> Base(f, good) BY <1>6, <1>10, <2>1, YesOrNo
  <2>7. Ends(W, c.events, f, good) <=> Ends(Base(f, good)', Todo', f, good)
    BY <2>3, <2>4, <2>5, <2>6 DEF Ends
  <2>8. Ends(Base(f, good)', Todo', f, good) \in BOOLEAN BY DEF Ends
  <2>9. Worked(f, good)' <=> Ends(Base(f, good)', Todo', f, good)
    BY <1>10, <1>11, <1>17, <2>1, <2>8
  <2> QED BY <1>9, <2>7, <2>9
<1>18. CASE c.cmd = "ensure" /\ UNCHANGED <<worker, events, dirty, rebuild, cache>>
  BY <1>1, <1>13, <1>15, <1>18 DEF Base, Torn, Reads
<1>19. CASE /\ c.cmd = "ensure" /\ manager = None /\ CacheFresh
         /\ Work("load", <<>>, cache, TRUE)
            /\ UNCHANGED <<events, dirty, rebuild, cache, thread>>
  <2>1. /\ worker'.cmd = "load" /\ worker'.todo = <<>> /\ worker'.index = cache
        /\ worker'.read = <<>>
    BY <1>19 DEF Work
  <2>2. Base(f, good) => cache[f].text \in good BY <1>5, <1>19 DEF Base, Torn, CacheFresh
  <2>3. Base(f, good) => Ends(worker'.index[f].text \in good, <<>>, f, good)
    BY <1>10, <2>1, <2>2
  <2>4. <<>> \in Seq(Events) OBVIOUS
  <2> QED BY <1>14, <1>15, <1>19, <2>1, <2>3, <2>4
<1>20. CASE /\ c.cmd \in {"ensure", "rebuild"} /\ Work(c.cmd, Everything, Nothing, TRUE)
            /\ UNCHANGED <<events, dirty, rebuild, cache, thread>>
  <2>1. /\ worker'.cmd = c.cmd /\ worker'.todo = Everything /\ worker'.index = Nothing
        /\ worker'.read = <<>>
    BY <1>20 DEF Work
  <2>2. Everything \in Seq(Events) /\ Ends(0 \in good, Everything, f, good)
    BY BuildIsRight
  <2>3. worker'.index[f].text = 0 BY <2>1 DEF Nothing
  <2>4. Ends(worker'.index[f].text \in good, Everything, f, good) BY <2>2, <2>3
  <2> QED BY <1>14, <1>15, <1>20, <2>1, <2>2, <2>4
<1>21. CASE c.cmd = "request" /\ UNCHANGED <<worker, events, cache, thread>>
  BY <1>1, <1>13, <1>15, <1>21 DEF Base, Torn, Reads
<1>22. CASE /\ c.cmd = "persist" /\ UNCHANGED <<worker, events, rebuild>>
            /\ IF manager # None /\ dirty THEN cache' = manager /\ dirty' = FALSE
                                          ELSE UNCHANGED <<cache, dirty>>
  <2>1. manager = None => UNCHANGED cache BY <1>22
  <2>2. Base(f, good) => Base(f, good)' BY <1>1, <1>22, <2>1 DEF Base, Torn, Reads
  <2> QED BY <1>13, <1>15, <1>22, <2>2
<1>23. CASE c.cmd = "fence" /\ UNCHANGED <<worker, events, dirty, rebuild, cache>>
  BY <1>1, <1>13, <1>15, <1>23 DEF Base, Torn, Reads
<1> QED
  BY <1>16, <1>17, <1>18, <1>19, <1>20, <1>21, <1>22, <1>23 DEF Take, c

(* The work goes on: what it makes of a file stays at least as right. *)
LEMMA WorkGoesOn ==
    ASSUME GraphTypes, NEW f, NEW good, NEW stops,
           QueueEnds(Worked(f, good), queue, f, good, stops),
           Worked(f, good) => Worked(f, good)', UNCHANGED queue
    PROVE  QueueEnds(Worked(f, good)', queue', f, good, stops)
<1> DEFINE V == Worked(f, good)'
           U == Worked(f, good)
<1>1. U \in BOOLEAN BY YesOrNo
<1>2. V \in BOOLEAN BY DEF Worked, Ends
<1>3. U => V OBVIOUS
<1>4. QueueEnds(U, queue, f, good, stops) OBVIOUS
<1>5. queue \in Seq(Orders) BY DEF GraphTypes
<1> HIDE DEF U, V
<1>6. QueueEnds(V, queue, f, good, stops)
  BY <1>1, <1>2, <1>3, <1>4, <1>5, MoreIsRightQueued
<1> QED BY <1>6 DEF V

(* The worker drops a file that was removed, or renamed away. *)
LEMMA RemovalIsRight ==
    ASSUME GraphTypes, WorkFits, ApplyRemoval, NEW f \in Files, NEW good
    PROVE  Worked(f, good) => Worked(f, good)'
<1> DEFINE todo == worker.todo
           e == Head(todo)
           rest == Tail(todo)
           index == [worker.index EXCEPT ![e.file] = [text |-> 0, meta |-> 0]]
           next == IF e.kind = "rename" THEN <<Touch(e.to)>> \o rest ELSE rest
<1>1. /\ todo # <<>> /\ e.kind # "touch" /\ UNCHANGED events
      /\ worker' = [worker EXCEPT !.index = index, !.todo = next, !.read = <<>>]
  BY DEF ApplyRemoval, Step
<1>2. todo \in Seq(Events) /\ e \in Events /\ rest \in Seq(Events) /\ worker.cmd # "none"
  BY <1>1, WorkTyped
<1>3. worker.read = <<>> BY <1>1 DEF WorkFits
<1>4. worker \in [cmd : {"none", "events", "load", "ensure", "rebuild"},
        todo : Seq(Events),
                  index : Indexes, read : Seq(Nat), replay : BOOLEAN]
  BY DEF GraphTypes
<1>5. worker.index \in [Files -> [text : Nat, meta : Nat]] BY <1>2 DEF WorkFits
<1> HIDE DEF index, next
<1>6. worker'.cmd = worker.cmd /\ worker'.todo = next /\ worker'.index = index
        /\ worker'.read = <<>>
  BY <1>1, <1>4
<1>7. e.file \in Files /\ index[f].text = IF f = e.file THEN 0 ELSE worker.index[f].text
  BY <1>2, <1>5 DEF index, Events
<1> DEFINE b == worker.index[f].text \in good
           d == index[f].text \in good
<1>8. Base(f, good) <=> b BY <1>2, <1>3 DEF Base, Reads
<1>9. Base(f, good)' <=> d BY <1>2, <1>6 DEF Base, Reads
<1>10. Todo = todo /\ Todo' = next BY <1>3, <1>6 DEF Todo
<1> DEFINE u == Fixes(e, f, good) \/ (b /\ ~Spoils(e, f, good))
<1>11. Ends(b, todo, f, good) <=> Ends(u, rest, f, good)
  <2>1. b \in BOOLEAN OBVIOUS
  <2> HIDE DEF b
  <2> QED BY <1>1, <1>2, <2>1, HeadApplies
<1>12. Ends(u, rest, f, good) => Ends(d, next, f, good)
  <2>1. CASE e.kind = "remove"
    <3>1. next = rest BY <2>1 DEF next
    <3>2. u => d BY <1>2, <1>7, <2>1 DEF Fixes, Spoils, Events
    <3> QED BY <3>1, <3>2 DEF Ends
  <2>2. CASE e.kind = "rename"
    <3> DEFINE w == Fixes(Touch(e.to), f, good) \/ (d /\ ~Spoils(Touch(e.to), f, good))
    <3>1. next = <<Touch(e.to)>> \o rest /\ Touch(e.to) \in Events
      BY <1>2, <2>2 DEF next, Events, Touch
    <3>2. next \in Seq(Events) /\ next # <<>> /\ Head(next) = Touch(e.to)
            /\ Tail(next) = rest
      <4> HIDE DEF rest
      <4> QED BY <1>2, <3>1
    <3>3. Ends(d, next, f, good) <=> Ends(w, rest, f, good)
      <4>1. d \in BOOLEAN OBVIOUS
      <4> HIDE DEF d, next
      <4>2. Ends(d, next, f, good)
              <=> Ends(Fixes(Head(next), f, good) \/ (d /\ ~Spoils(Head(next), f,
                good)), Tail(next), f, good)
        BY <3>2, <4>1, HeadApplies
      <4> QED BY <3>2, <4>2
    <3>4. u => w BY <1>2, <1>7, <2>2 DEF Fixes, Spoils, Events, Touch
    <3> QED BY <3>3, <3>4 DEF Ends
  <2> QED BY <1>1, <1>2, <2>1, <2>2 DEF Events
<1>13. Worked(f, good) => Ends(Ends(b, todo, f, good), events, f, good)
  BY <1>8, <1>10 DEF Worked, Ends
<1>14. Ends(Ends(d, next, f, good), events, f, good) => Worked(f, good)'
  BY <1>1, <1>9, <1>10 DEF Worked, Ends
<1>15. Ends(Ends(b, todo, f, good), events, f, good) =>
         Ends(Ends(d, next, f, good), events, f, good)
  BY <1>11, <1>12 DEF Ends
<1> QED BY <1>13, <1>14, <1>15

(* The worker reads a file: what it reads is on the disk then. *)
LEMMA ReadIsRight ==
    ASSUME GraphTypes, WorkFits, ReadFile, NEW f \in Files, NEW good, disk[f] \in good
    PROVE  Worked(f, good) => Worked(f, good)'
<1> DEFINE todo == worker.todo
           e == Head(todo)
           rest == Tail(todo)
<1>1. /\ todo # <<>> /\ e.kind = "touch" /\ worker.read = <<>> /\ UNCHANGED events
      /\ worker' = [worker EXCEPT !.index = worker.index, !.todo = todo,
           !.read = <<disk[e.file]>>]
  BY DEF ReadFile, Step
<1>2. todo \in Seq(Events) /\ e \in Events /\ rest \in Seq(Events) /\ worker.cmd # "none"
  BY <1>1, WorkTyped
<1>3. worker \in [cmd : {"none", "events", "load", "ensure", "rebuild"},
        todo : Seq(Events),
                  index : Indexes, read : Seq(Nat), replay : BOOLEAN]
  BY DEF GraphTypes
<1>4. /\ worker'.cmd = worker.cmd /\ worker'.todo = todo /\ worker'.index = worker.index
      /\ worker'.read = <<disk[e.file]>> /\ worker'.read # <<>>
      /\ Head(worker'.read) = disk[e.file]
  BY <1>1, <1>3
<1> DEFINE b == worker.index[f].text \in good
           d == e.file = f \/ b
<1>5. Base(f, good) <=> b BY <1>1, <1>2 DEF Base, Reads
<1>6. d => Base(f, good)' BY <1>2, <1>4 DEF Base, Reads
<1>7. Todo = todo /\ Todo' = rest BY <1>1, <1>4 DEF Todo
<1> DEFINE u == Fixes(e, f, good) \/ (b /\ ~Spoils(e, f, good))
<1>8. Ends(b, todo, f, good) <=> Ends(u, rest, f, good)
  <2>1. b \in BOOLEAN OBVIOUS
  <2> HIDE DEF b
  <2> QED BY <1>1, <1>2, <2>1, HeadApplies
<1>9. u => d BY <1>1, <1>2, EventsApply
<1>10. Ends(b, todo, f, good) => Ends(Base(f, good)', rest, f, good)
  BY <1>6, <1>8, <1>9 DEF Ends
<1>11. Worked(f, good) => Ends(Ends(b, todo, f, good), events, f, good)
  BY <1>5, <1>7 DEF Worked, Ends
<1>12. Ends(Ends(Base(f, good)', rest, f, good), events, f, good) => Worked(f, good)'
  BY <1>1, <1>7 DEF Worked, Ends
<1>13. Ends(Ends(b, todo, f, good), events, f, good) =>
         Ends(Ends(Base(f, good)', rest, f, good), events, f, good)
  BY <1>10 DEF Ends
<1> QED BY <1>11, <1>12, <1>13

(* The worker takes the file's metadata, and the entry goes in the index. *)
LEMMA StatIsRight ==
    ASSUME GraphTypes, WorkFits, StatFile, NEW f \in Files, NEW good
    PROVE  Worked(f, good) => Worked(f, good)'
<1> DEFINE todo == worker.todo
           e == Head(todo)
           text == Head(worker.read)
           entry == IF text = 0 THEN [text |-> 0, meta |-> 0] ELSE [text |-> text,
             meta |-> disk[e.file]]
           index == [worker.index EXCEPT ![e.file] = entry]
<1>1. /\ worker.read # <<>> /\ UNCHANGED events
      /\ worker' = [worker EXCEPT !.index = index, !.todo = Tail(todo), !.read = <<>>]
  BY DEF StatFile, Step
<1>2. todo \in Seq(Events) /\ e \in Events /\ worker.cmd # "none"
  BY <1>1, WorkTyped DEF WorkFits
<1>3. worker \in [cmd : {"none", "events", "load", "ensure", "rebuild"},
        todo : Seq(Events),
                  index : Indexes, read : Seq(Nat), replay : BOOLEAN]
  BY DEF GraphTypes
<1>4. worker.index \in [Files -> [text : Nat, meta : Nat]] BY <1>2 DEF WorkFits
<1>5. entry.text = text OBVIOUS
<1> HIDE DEF entry
<1>6. index[f].text = IF f = e.file THEN text ELSE worker.index[f].text
  BY <1>2, <1>4, <1>5 DEF Events
<1> HIDE DEF index
<1>7. /\ worker'.cmd = worker.cmd /\ worker'.todo = Tail(todo) /\ worker'.index = index
      /\ worker'.read = <<>>
  BY <1>1, <1>3
<1>8. Base(f, good)' <=> Base(f, good) BY <1>1, <1>2, <1>6, <1>7 DEF Base, Reads
<1>9. Todo' = Todo BY <1>1, <1>7 DEF Todo
<1> QED BY <1>1, <1>8, <1>9 DEF Worked, Ends

(* The events that came while the worker built are applied after all. *)
LEMMA ReplayIsRight ==
    ASSUME GraphTypes, WorkFits, Replay, NEW f \in Files, NEW good
    PROVE  Worked(f, good) => Worked(f, good)'
<1>1. worker.replay /\ worker.todo = <<>> /\ events' = <<>> BY DEF Replay
<1>2. worker.cmd # "none" /\ worker.read = <<>> BY <1>1, WorkTyped DEF WorkFits
<1>3. worker \in [cmd : {"none", "events", "load", "ensure", "rebuild"},
        todo : Seq(Events),
                  index : Indexes, read : Seq(Nat), replay : BOOLEAN]
  BY DEF GraphTypes
<1> DEFINE cmd == IF worker.cmd = "load" /\ events # <<>> THEN "ensure" ELSE worker.cmd
<1>4. worker' = [worker EXCEPT !.todo = events, !.replay = FALSE, !.cmd = cmd]
  BY DEF Replay
<1>5. cmd # "none" BY <1>2
<1> HIDE DEF cmd
<1>6. worker'.cmd # "none" /\ worker'.read = <<>> /\ worker'.todo = events
        /\ worker'.index = worker.index
  BY <1>2, <1>3, <1>4, <1>5
<1>7. Base(f, good)' <=> Base(f, good) BY <1>2, <1>6 DEF Base, Reads
<1>8. Todo = <<>> /\ Todo' = events BY <1>1, <1>2, <1>6 DEF Todo
<1> DEFINE b == Base(f, good)
<1>9. b \in BOOLEAN BY YesOrNo
<1> HIDE DEF b
<1>10. Ends(b, <<>>, f, good) <=> b BY <1>9, EmptyApplies
<1>11. Ends(Ends(b, events, f, good), <<>>, f, good) <=> Ends(b, events, f, good)
  <2>1. Ends(b, events, f, good) \in BOOLEAN BY DEF Ends
  <2> QED BY <2>1, EmptyApplies
<1>12. Worked(f, good) <=> Ends(Ends(b, <<>>, f, good), events, f, good)
  BY <1>8 DEF Worked, b, Ends
<1>13. Worked(f, good)' <=> Ends(Ends(b, events, f, good), <<>>, f, good)
  BY <1>1, <1>7, <1>8 DEF Worked, b, Ends
<1> QED BY <1>10, <1>11, <1>12, <1>13 DEF Ends

(* The worker is done, and its index is the one that is read. *)
LEMMA FinishIsRight ==
    ASSUME GraphTypes, WorkFits, Finish, NEW f \in Files, NEW good, NEW stops,
           QueueEnds(Worked(f, good), queue, f, good, stops)
    PROVE  QueueEnds(Worked(f, good)', queue', f, good, stops)
<1>1. /\ worker # Idle /\ worker.todo = <<>> /\ ~worker.replay /\ worker' = Idle
      /\ manager' = worker.index /\ UNCHANGED events
  BY DEF Finish
<1>2. worker.cmd # "none" /\ worker.read = <<>> BY <1>1 DEF WorkFits
<1>3. events = <<>> BY <1>1, <1>2 DEF WorkFits
<1>4. worker.index # None
  <2>1. worker.index \in [Files -> [text : Nat, meta : Nat]] BY <1>2 DEF WorkFits
  <2>2. f \in DOMAIN worker.index BY <2>1
  <2> QED BY <2>2 DEF None
<1>5. worker'.cmd = "none" /\ worker'.read = <<>> /\ worker'.todo = <<>> BY <1>1 DEF Idle
<1>6. Base(f, good)' <=> Base(f, good) BY <1>1, <1>2, <1>4, <1>5 DEF Base, Reads
<1>7. Todo = <<>> /\ Todo' = <<>> BY <1>1, <1>2, <1>5 DEF Todo
<1>8. Worked(f, good)' <=> Worked(f, good) BY <1>1, <1>6, <1>7 DEF Worked, Ends
<1>9. queue \in Seq(Orders) BY DEF GraphTypes
<1>10. CASE UNCHANGED queue BY <1>8, <1>10, WorkGoesOn
<1>11. CASE queue' = Append(queue, [cmd |-> "persist", events |-> <<>>])
  <2> DEFINE c == [cmd |-> "persist", events |-> <<>>]
             U == Worked(f, good)
             V == Worked(f, good)'
  <2>1. c \in Orders /\ c.events = <<>>
    <3>1. <<>> \in Seq(Events) OBVIOUS
    <3> QED BY <3>1 DEF Orders, Blocking
  <2>2. U \in BOOLEAN BY YesOrNo
  <2>3. Clean(c.events, f, good) BY <2>1, EmptyApplies
  <2>4. QueueEnds(U, queue, f, good, stops) OBVIOUS
  <2>5. U = V BY <1>8 DEF Worked, Ends
  <2> HIDE DEF U, V, c
  <2>6. QueueEnds(U, Append(queue, c), f, good, stops)
    BY <1>9, <2>1, <2>2, <2>3, <2>4, QueueJoined
  <2> QED BY <1>11, <2>5, <2>6 DEF V, c
<1>12. worker.cmd \in {"events", "load", "ensure", "rebuild"} BY <1>2 DEF GraphTypes
<1>13. UNCHANGED queue \/ queue' = Append(queue, [cmd |-> "persist", events |-> <<>>])
  BY <1>12 DEF Finish, Enqueue
<1> QED BY <1>10, <1>11, <1>13

(* Whatever the worker does, it promises of a file what it did before. *)
LEMMA WorkIsRight ==
    ASSUME GraphTypes, WorkFits, ThreadFits, WorkerStep,
           NEW f \in Files, NEW good, disk[f] \in good, NEW stops,
           QueueEnds(Worked(f, good), queue, f, good, stops)
    PROVE  QueueEnds(Worked(f, good)', queue', f, good, stops)
<1>1. CASE Take BY <1>1, TakeIsRight
<1>2. CASE ApplyRemoval
  <2>1. UNCHANGED queue BY <1>2 DEF ApplyRemoval, Step
  <2> QED BY <1>2, <2>1, RemovalIsRight, WorkGoesOn
<1>3. CASE ReadFile
  <2>1. UNCHANGED queue BY <1>3 DEF ReadFile, Step
  <2> QED BY <1>3, <2>1, ReadIsRight, WorkGoesOn
<1>4. CASE StatFile
  <2>1. UNCHANGED queue BY <1>4 DEF StatFile, Step
  <2> QED BY <1>4, <2>1, StatIsRight, WorkGoesOn
<1>5. CASE Replay
  <2>1. UNCHANGED queue BY <1>5 DEF Replay
  <2> QED BY <1>5, <2>1, ReplayIsRight, WorkGoesOn
<1>6. CASE Finish BY <1>6, FinishIsRight
<1> QED BY <1>1, <1>2, <1>3, <1>4, <1>5, <1>6 DEF WorkerStep

-----------------------------------------------------------------------------
Shape == GraphTypes /\ WorkFits /\ ThreadFits /\ CleanIsSaved

(* Nothing happens to the worker, nor to what it works on. *)
Undisturbed == UNCHANGED <<worker, manager, events, dirty, rebuild, cache>>

(* Such a step leaves the worker's part of the invariant alone. *)
LEMMA OutsideIsKept ==
    ASSUME WorkFits, CleanIsSaved, Undisturbed
    PROVE  /\ WorkFits' /\ CleanIsSaved' /\ Todo' = Todo
           /\ \A f, good : /\ Base(f, good)' <=> Base(f, good)
                           /\ Worked(f, good)' <=> Worked(f, good)
<1>1. WorkFits' /\ CleanIsSaved' BY DEF WorkFits, CleanIsSaved, Undisturbed
<1>2. Todo' = Todo BY DEF Todo, Undisturbed
<1>3. ASSUME NEW f, NEW good PROVE Base(f, good)' <=> Base(f, good)
  BY DEF Base, Undisturbed, Reads, Torn
<1>4. ASSUME NEW f, NEW good PROVE Worked(f, good)' <=> Worked(f, good)
  BY <1>2, <1>3 DEF Worked, Ends, Undisturbed
<1> QED BY <1>1, <1>2, <1>3, <1>4

(* A command joins the queue. *)
LEMMA ThreadJoins ==
    ASSUME GraphTypes, ThreadFits, NEW c \in Orders, queue' = Append(queue, c),
           worker'.cmd = worker.cmd \/ worker'.cmd = "none",
           \A k \in DOMAIN queue : queue[k].cmd \in Blocking =>
             c.cmd \notin Blocking /\ thread' = thread,
           c.cmd \in Blocking => thread' = c.cmd /\ worker'.cmd \in {"none", "events"},
           worker'.cmd \in {"load", "ensure"} => thread' = "ensure",
           worker'.cmd = "rebuild" => thread' = "rebuild",
           thread' \in {"answered", "fence", "reading"} => manager' # None
    PROVE  ThreadFits'
<1> DEFINE q == queue
           r == queue'
           n == Len(queue)
<1>1. queue \in Seq(Orders) BY DEF GraphTypes
<1>2. /\ n \in Nat /\ DOMAIN q = 1 .. n /\ DOMAIN r = 1 .. n + 1
      /\ \A i \in 1 .. n : r[i] = q[i]
      /\ r[n + 1] = c
  BY <1>1, AppendProperties
<1> HIDE DEF n
<1>3. \A i \in 1 .. n + 1 : i \in 1 .. n \/ i = n + 1 BY <1>2
<1>4. \A k \in 1 .. n : q[k].cmd \in Blocking =>
          /\ thread = q[k].cmd /\ worker.cmd \in {"none", "events"}
          /\ \A j \in 1 .. n : q[j].cmd \in Blocking => j = k
  BY <1>2 DEF ThreadFits
<1>5. ASSUME NEW k \in 1 .. n + 1, r[k].cmd \in Blocking
      PROVE  /\ thread' = r[k].cmd /\ worker'.cmd \in {"none", "events"}
             /\ \A j \in 1 .. n + 1 : r[j].cmd \in Blocking => j = k
  <2>1. CASE k \in 1 .. n
    <3>1. q[k].cmd \in Blocking /\ r[k] = q[k] /\ c.cmd \notin Blocking
            /\ thread' = thread
      BY <1>2, <1>5, <2>1
    <3>2. \A j \in 1 .. n + 1 : r[j].cmd \in Blocking =>
            j \in 1 .. n /\ q[j].cmd \in Blocking
      BY <1>2, <1>3, <3>1
    <3> QED BY <1>4, <2>1, <3>1, <3>2
  <2>2. CASE k = n + 1
    <3>1. c.cmd \in Blocking /\ thread' = c.cmd /\ worker'.cmd \in {"none", "events"}
      BY <1>2, <1>5, <2>2
    <3>2. \A j \in 1 .. n : q[j].cmd \notin Blocking BY <1>2, <3>1
    <3>3. \A j \in 1 .. n + 1 : r[j].cmd \in Blocking => j = k BY <1>2, <1>3, <2>2, <3>2
    <3> QED BY <1>2, <2>2, <3>1, <3>3
  <2> QED BY <1>3, <2>1, <2>2
<1> QED BY <1>2, <1>5 DEF ThreadFits

(* The queue stays. *)
LEMMA ThreadStays ==
    ASSUME ThreadFits, UNCHANGED queue,
           worker'.cmd = worker.cmd \/ worker'.cmd = "none",
           thread' = thread \/ \A k \in DOMAIN queue : queue[k].cmd \notin Blocking,
           worker'.cmd \in {"load", "ensure"} => thread' = "ensure",
           worker'.cmd = "rebuild" => thread' = "rebuild",
           thread' \in {"answered", "fence", "reading"} => manager' # None
    PROVE  ThreadFits'
<1>1. ASSUME NEW k \in DOMAIN queue', queue'[k].cmd \in Blocking
      PROVE  /\ thread' = queue'[k].cmd /\ worker'.cmd \in {"none", "events"}
             /\ \A j \in DOMAIN queue' : queue'[j].cmd \in Blocking => j = k
  BY <1>1 DEF ThreadFits
<1> QED BY <1>1 DEF ThreadFits

(* Files are not where else the thread may be. *)
LEMMA FilesApart ==
    ASSUME NEW f \in Files
    PROVE  f \notin Blocking /\ f \notin {"idle", "answered", "reading"}
BY GraphIndexAssumption

(* The commands that are made are commands. *)
LEMMA OrdersAre ==
    /\ \A cmd \in Blocking \cup {"request"} : [cmd |-> cmd, events |-> <<>>] \in Orders
    /\ \A s \in Seq(Events) : [cmd |-> "events", events |-> s] \in Orders
<1>1. <<>> \in Seq(Events) OBVIOUS
<1>2. \A cmd \in Blocking \cup {"request"} : [cmd |-> cmd, events |-> <<>>] \in Orders
  BY <1>1 DEF Orders, Blocking
<1>3. \A s \in Seq(Events) : [cmd |-> "events", events |-> s] \in Orders BY DEF Orders
<1> QED BY <1>2, <1>3

(* Which events a change comes with. *)
Changing(new, e) ==
    /\ new \in [Files -> Nat] /\ e \in Events
    /\ \A f \in Files : \/ new[f] = disk[f] /\ (e.kind # "touch" => e.file # f)
                        \/ e.to = f /\ e.kind # "remove"
                        \/ e.file = f /\ e.kind # "touch" /\ new[f] = 0

(* The three changes of a file come with an event that tells of them. *)
LEMMA ChangesAre ==
    ASSUME GraphTypes, NEW f \in Files
    PROVE  /\ Changing([disk EXCEPT ![f] = changes + 1], Touch(f))
           /\ Changing([disk EXCEPT ![f] = 0], Removed(f))
           /\ \A g \in Files \ {f} :
                Changing([disk EXCEPT ![f] = 0, ![g] = changes + 1], Rename(f, g))
<1>1. disk \in [Files -> Nat] /\ changes + 1 \in Nat BY DEF GraphTypes
<1>2. Changing([disk EXCEPT ![f] = changes + 1], Touch(f))
  BY <1>1 DEF Changing, Touch, Events
<1>3. Changing([disk EXCEPT ![f] = 0], Removed(f)) BY <1>1 DEF Changing, Removed, Events
<1>4. ASSUME NEW g \in Files \ {f}
      PROVE  Changing([disk EXCEPT ![f] = 0, ![g] = changes + 1], Rename(f, g))
  BY <1>1 DEF Changing, Rename, Events
<1> QED BY <1>2, <1>3, <1>4

(* The disk changes, by a tool or without it. *)
LEMMA ChangeShapes ==
    ASSUME Shape, NEW new, NEW e, Changing(new, e), Change(new, e), Undisturbed,
           UNCHANGED <<pend, queue, shadowed>>, thread' \in Files \cup {thread},
           thread' # thread => thread = "idle"
    PROVE  Shape'
<1> USE DEF Shape
<1>1. changes' = changes + 1 /\ disk' = new /\ os' = Append(os, e) BY DEF Change
<1>2. since' = [f \in Files |-> IF since[f] = {} THEN {} ELSE since[f] \cup {new[f]}]
  BY DEF Change
<1>3. WorkFits' /\ CleanIsSaved' BY OutsideIsKept
<1>4. \A k \in DOMAIN queue : queue[k].cmd \in Blocking => thread = queue[k].cmd
  BY DEF ThreadFits
<1>5. thread' = thread \/ \A k \in DOMAIN queue : queue[k].cmd \notin Blocking
  BY <1>4 DEF Blocking
<1>6. ThreadFits'
  <2>1. thread' # thread =>
          thread' \in Files /\ worker.cmd \notin {"load", "ensure", "rebuild"}
    BY DEF ThreadFits
  <2>2. thread' # thread => thread' \notin {"answered", "fence", "reading"}
    BY <2>1, FilesApart DEF Blocking
  <2> QED BY <1>5, <2>1, <2>2, ThreadStays DEF ThreadFits, Undisturbed
<1>7. GraphTypes'
  <2>1. new \in [Files -> Nat] /\ e \in Events BY DEF Changing
  <2>2. since' \in [Files -> SUBSET Nat] BY <1>2, <2>1 DEF GraphTypes
  <2>3. Append(os, e) \in Seq(Events) BY <2>1 DEF GraphTypes
  <2> QED BY <1>1, <2>1, <2>2, <2>3 DEF GraphTypes, Undisturbed
<1> QED BY <1>3, <1>6, <1>7

(* The debouncer takes a notice. *)
LEMMA PushShapes == ASSUME Shape, Push PROVE Shape'
<1> USE DEF Shape
<1> DEFINE e == Head(os)
           same == {i \in DOMAIN pend : Key(pend[i]) = Key(e)}
<1>1. /\ os # <<>> /\ os' = Tail(os)
      /\ pend' = IF same = {} THEN Append(pend, e)
                 ELSE [i \in DOMAIN pend |-> IF i \in same THEN e ELSE pend[i]]
      /\ shadowed' \in {shadowed \cup {e.to}, shadowed \ {e.file, e.to}}
      /\ Undisturbed /\ UNCHANGED <<disk, changes, queue, thread, since>>
  BY DEF Push, Undisturbed
<1>2. WorkFits' /\ CleanIsSaved' BY <1>1, OutsideIsKept
<1>3. ThreadFits' BY <1>1, ThreadStays DEF ThreadFits, Undisturbed
<1>4. e \in Events /\ Tail(os) \in Seq(Events) /\ e.to \in Files
  <2>1. e \in Events /\ Tail(os) \in Seq(Events)
    BY <1>1, HeadTailProperties DEF GraphTypes
  <2> QED BY <2>1 DEF Events
<1>5. pend' \in Seq(Events)
  <2>1. pend \in Seq(Events) /\ DOMAIN pend = 1 .. Len(pend) /\ Len(pend) \in Nat
    BY DEF GraphTypes
  <2> HIDE DEF e, same
  <2>2. CASE same = {} BY <1>1, <1>4, <2>1, <2>2
  <2>3. CASE same # {}
    <3>0. pend' = [i \in DOMAIN pend |-> IF i \in same THEN e ELSE pend[i]] BY <1>1, <2>3
    <3>1. \A i \in DOMAIN pend : pend[i] \in Events BY <2>1
    <3>2. pend' \in [1 .. Len(pend) -> Events] BY <1>4, <2>1, <3>0, <3>1
    <3> QED BY <2>1, <3>2
  <2> QED BY <2>2, <2>3
<1>6. shadowed' \subseteq Files BY <1>1, <1>4 DEF GraphTypes
<1>7. GraphTypes' BY <1>1, <1>4, <1>5, <1>6 DEF GraphTypes, Undisturbed
<1> QED BY <1>2, <1>3, <1>7

(* Commands from outside the worker. *)
LEMMA JoinShapes ==
    ASSUME Shape, Undisturbed, NEW c \in Orders, queue' = Append(queue, c),
      UNCHANGED <<disk, changes, os, shadowed>>,
           pend' \in {pend, <<>>}, thread' \in Files \cup {"idle", "answered",
             "reading"} \cup Blocking,
           since' \in [Files -> SUBSET Nat],
           \/ /\ c.cmd \notin Blocking
              /\ thread' = thread
                   \/ (thread \in Files \cup {"answered", "idle",
                        "reading"} /\ thread' = "idle")
           \/ c.cmd \in Blocking /\ thread \in {"idle", "answered"} /\ thread' = c.cmd
              /\ (c.cmd = "fence" => thread = "answered")
    PROVE  Shape'
<1> USE DEF Shape
<1>1. WorkFits' /\ CleanIsSaved' BY OutsideIsKept
<1>2. worker' = worker /\ manager' = manager BY DEF Undisturbed
<1>3. thread \in Files \cup {"answered", "idle", "reading"} => thread \notin Blocking
  BY FilesApart DEF Blocking
<1>4. \A k \in DOMAIN queue : queue[k].cmd \in Blocking => thread \in Blocking
  BY DEF ThreadFits
<1>5. thread \in Files \cup {"answered", "idle", "reading"} =>
        worker.cmd \in {"none", "events"}
  <2>1. worker.cmd \in {"none", "events", "load", "ensure", "rebuild"} BY DEF GraphTypes
  <2>2. worker.cmd \notin {"none", "events"} => thread \in Blocking
    BY <2>1 DEF ThreadFits, Blocking
  <2> QED BY <1>3, <2>2
<1>6. \A k \in DOMAIN queue : queue[k].cmd \in Blocking =>
        c.cmd \notin Blocking /\ thread' = thread
  BY <1>3, <1>4
<1>7. c.cmd \in Blocking => thread' = c.cmd /\ worker'.cmd \in {"none", "events"}
  BY <1>2, <1>5
<1>8. worker.cmd \in {"load", "ensure", "rebuild"} => thread' = thread
  BY <1>5
<1>9. thread' \in {"answered", "fence", "reading"} => manager # None
  BY DEF ThreadFits, Blocking
<1>10. ThreadFits'
  <2>1. worker'.cmd \in {"load", "ensure"} => thread' = "ensure"
    BY <1>2, <1>8 DEF ThreadFits
  <2>2. worker'.cmd = "rebuild" => thread' = "rebuild" BY <1>2, <1>8 DEF ThreadFits
  <2> QED BY <1>2, <1>6, <1>7, <1>9, <2>1, <2>2, ThreadJoins
<1>11. Append(queue, c) \in Seq(Orders) /\ pend' \in Seq(Events)
  <2>1. pend \in Seq(Events) /\ queue \in Seq(Orders) /\ <<>> \in Seq(Events)
    BY DEF GraphTypes
  <2>2. pend' \in Seq(Events) BY <2>1
  <2>3. Append(queue, c) \in Seq(Orders) BY <2>1
  <2> QED BY <2>2, <2>3
<1>12. GraphTypes' BY <1>11 DEF GraphTypes, Undisturbed
<1> QED BY <1>1, <1>10, <1>12

(* Its timer sends what is pending. *)
LEMMA FireShapes == ASSUME Shape, Fire PROVE Shape'
<1> DEFINE c == [cmd |-> "events", events |-> pend]
<1>1. c \in Orders BY OrdersAre DEF Shape, GraphTypes
<1>2. /\ queue' = Append(queue, c) /\ pend' = <<>>
      /\ Undisturbed /\ UNCHANGED <<disk, changes, os, thread, since, shadowed>>
  BY DEF Fire, Enqueue, Undisturbed
<1>3. c.cmd \notin Blocking BY DEF Blocking
<1>4. thread' \in Files \cup {"idle", "answered", "reading"} \cup Blocking
        /\ since' \in [Files -> SUBSET Nat]
  BY <1>2 DEF Shape, GraphTypes
<1>5. c.cmd \notin Blocking /\ thread' = thread
  BY <1>2, <1>3
<1> HIDE DEF c
<1>6. pend' \in {pend, <<>>} BY <1>2
<1> QED BY <1>1, <1>2, <1>4, <1>5, <1>6, JoinShapes

(* A tool marks what it wrote. *)
LEMMA MarkShapes == ASSUME Shape, MarkDirty PROVE Shape'
<1> DEFINE c == [cmd |-> "events", events |-> <<Touch(thread)>>]
<1>1. thread \in Files BY DEF MarkDirty
<1>2. c \in Orders
  <2>1. Touch(thread) \in Events BY <1>1 DEF Touch, Events
  <2>2. <<Touch(thread)>> \in Seq(Events) BY <2>1
  <2> QED BY <2>2, OrdersAre
<1>3. /\ queue' = Append(queue, c) /\ thread' = "idle"
      /\ Undisturbed /\ UNCHANGED <<disk, changes, os, pend, shadowed>>
  BY DEF MarkDirty, Enqueue, Undisturbed
<1>4. since' \in [Files -> SUBSET Nat]
  <2>1. since \in [Files -> SUBSET Nat] /\ disk[thread] \in Nat
    BY <1>1 DEF Shape, GraphTypes
  <2>2. \E was \in {{}, {disk[thread]}} : since' = [since EXCEPT ![thread] = was]
    BY DEF MarkDirty
  <2> QED BY <2>1, <2>2
<1>5. c.cmd \notin Blocking BY DEF Blocking
<1> HIDE DEF c
<1> QED BY <1>1, <1>2, <1>3, <1>4, <1>5, JoinShapes

(* A query asks for an index, or a rebuild. *)
LEMMA AskShapes ==
    ASSUME Shape, NEW cmd \in {"ensure", "rebuild", "request"}, Ask(cmd)
    PROVE  Shape'
<1> DEFINE c == [cmd |-> cmd, events |-> <<>>]
<1>1. c \in Orders BY OrdersAre DEF Blocking
<1>2. /\ queue' = Append(queue, c) /\ thread = "idle"
      /\ thread' = IF cmd = "request" THEN thread ELSE cmd
      /\ Undisturbed /\ UNCHANGED <<disk, changes, os, pend, since, shadowed>>
  BY DEF Ask, Enqueue, Undisturbed
<1>3. since' \in [Files -> SUBSET Nat] BY <1>2 DEF Shape, GraphTypes
<1>4. c.cmd = cmd OBVIOUS
<1> HIDE DEF c
<1>5. thread' \in {"idle"} \cup Blocking BY <1>2 DEF Blocking
<1>6. \/ c.cmd \notin Blocking /\ thread' = thread
      \/ c.cmd \in Blocking /\ thread' = c.cmd /\ c.cmd # "fence"
  BY <1>2, <1>4 DEF Blocking
<1> QED BY <1>1, <1>2, <1>3, <1>5, <1>6, JoinShapes

(* A query waits for what was queued before it. *)
LEMMA FenceShapes == ASSUME Shape, ReadFence PROVE Shape'
<1> DEFINE c == [cmd |-> "fence", events |-> <<>>]
<1>1. c \in Orders BY OrdersAre DEF Blocking
<1>2. /\ queue' = Append(queue, c) /\ thread = "answered" /\ thread' = "fence"
      /\ Undisturbed /\ UNCHANGED <<disk, changes, os, pend, since, shadowed>>
  BY DEF ReadFence, Enqueue, Undisturbed
<1>3. since' \in [Files -> SUBSET Nat] BY <1>2 DEF Shape, GraphTypes
<1>4. c.cmd = "fence" /\ "fence" \in Blocking BY DEF Blocking
<1> HIDE DEF c
<1> QED BY <1>1, <1>2, <1>3, <1>4, JoinShapes

(* A query reads the index. *)
LEMMA ReadShapes == ASSUME Shape, Read PROVE Shape'
<1> USE DEF Shape
<1>1. thread = "reading" /\ thread' = "idle" /\ Undisturbed
        /\ UNCHANGED <<disk, changes, os, pend, queue, since, shadowed>>
  BY DEF Read, Undisturbed
<1>2. WorkFits' /\ CleanIsSaved' BY <1>1, OutsideIsKept
<1>3. \A k \in DOMAIN queue : queue[k].cmd \notin Blocking
  BY <1>1 DEF ThreadFits, Blocking
<1>4. worker.cmd \notin {"load", "ensure", "rebuild"} BY <1>1 DEF ThreadFits
<1>5. ThreadFits' BY <1>1, <1>3, <1>4, ThreadStays DEF Undisturbed
<1>6. GraphTypes' BY <1>1 DEF GraphTypes, Undisturbed
<1> QED BY <1>2, <1>5, <1>6

(* The process dies, and the cache is what the next one has. *)
LEMMA DeathShapes == ASSUME Shape, ProcessDies PROVE Shape'
<1> USE DEF Shape
<1>1. /\ os' = <<>> /\ pend' = <<>> /\ queue' = <<>> /\ worker' = Idle /\ manager' = None
      /\ events' = <<>> /\ dirty' = FALSE /\ rebuild' = FALSE /\ thread' = "idle"
      /\ UNCHANGED <<disk, changes, cache>>
      /\ shadowed' = {f \in Files : cache # None /\ cache[f].text # cache[f].meta}
  BY DEF ProcessDies
<1>2. since' \in [Files -> SUBSET Nat]
  <2>1. disk \in [Files -> Nat] BY DEF GraphTypes
  <2>2. \E wasTorn : since' = [f \in Files |-> IF f \in wasTorn THEN {} ELSE {disk[f]}]
    BY DEF ProcessDies
  <2> QED BY <2>1, <2>2
<1>3. <<>> \in Seq(Events) /\ <<>> \in Seq(Orders) /\ <<>> \in Seq(Nat) OBVIOUS
<1>4. Idle \in [cmd : {"none", "events", "load", "ensure", "rebuild"}, todo : Seq(Events),
                index : Indexes, read : Seq(Nat), replay : BOOLEAN]
  BY <1>3 DEF Idle, Indexes
<1>5. GraphTypes' BY <1>1, <1>2, <1>3, <1>4 DEF GraphTypes, Indexes
<1>6. worker'.cmd = "none" /\ worker'.read = <<>> BY <1>1 DEF Idle
<1>7. WorkFits' BY <1>1, <1>6 DEF WorkFits
<1>8. DOMAIN queue' = {} BY <1>1
<1>9. ThreadFits' BY <1>1, <1>6, <1>8 DEF ThreadFits
<1>10. CleanIsSaved' BY <1>1 DEF CleanIsSaved
<1> QED BY <1>5, <1>7, <1>9, <1>10

(* The shape holds at first. *)
LEMMA InitShapes == ASSUME GraphInit PROVE Shape
<1> USE DEF GraphInit
<1>1. disk \in [Files -> Nat] OBVIOUS
<1>2. since \in [Files -> SUBSET Nat] BY <1>1
<1>3. <<>> \in Seq(Events) /\ <<>> \in Seq(Orders) /\ <<>> \in Seq(Nat) OBVIOUS
<1>4. Idle \in [cmd : {"none", "events", "load", "ensure", "rebuild"}, todo : Seq(Events),
                index : Indexes, read : Seq(Nat), replay : BOOLEAN]
  BY <1>3 DEF Idle, Indexes
<1>5. GraphTypes BY <1>1, <1>2, <1>3, <1>4 DEF GraphTypes, Indexes
<1>6. worker.cmd = "none" /\ worker.read = <<>> BY DEF Idle
<1>7. WorkFits BY <1>6 DEF WorkFits
<1>8. DOMAIN queue = {} OBVIOUS
<1>9. ThreadFits BY <1>6, <1>8 DEF ThreadFits
<1>10. CleanIsSaved BY DEF CleanIsSaved
<1> QED BY <1>5, <1>7, <1>9, <1>10 DEF Shape

-----------------------------------------------------------------------------
(* What a worker may be. *)
Works == [cmd : {"none", "events", "load", "ensure", "rebuild"}, todo : Seq(Events),
          index : Indexes, read : Seq(Nat), replay : BOOLEAN]

(* The worker takes a command. *)
LEMMA TakeShapes == ASSUME Shape, Take PROVE Shape'
<1> USE DEF Shape
<1> DEFINE c == Head(queue)
<1>1. /\ worker = Idle /\ queue # <<>> /\ queue' = Tail(queue)
      /\ UNCHANGED <<disk, changes, os, pend, manager, left, since, shadowed>>
  BY DEF Take
<1>2. queue \in Seq(Orders) BY DEF GraphTypes
<1>3. c \in Orders /\ Tail(queue) \in Seq(Orders) /\ c.events \in Seq(Events)
      /\ DOMAIN queue = 1 .. Len(queue) /\ Len(queue) \in Nat
      /\ DOMAIN Tail(queue) = 1 .. Len(queue) - 1 /\ 1 \in DOMAIN queue /\ queue[1] = c
      /\ \A i \in DOMAIN Tail(queue) : Tail(queue)[i] = queue[i + 1]
  <2>1. \A x \in Orders : x.events \in Seq(Events) BY DEF Orders
  <2>2. Len(queue) \in Nat \ {0} BY <1>1, <1>2, EmptySeq
  <2> QED BY <1>1, <1>2, <2>1, <2>2, HeadTailProperties
<1> HIDE DEF c
<1>4. \A i \in DOMAIN Tail(queue) : i + 1 \in DOMAIN queue /\ i + 1 # 1 BY <1>3
<1>5. c.cmd \in Blocking => /\ thread = c.cmd
                            /\ \A k \in DOMAIN queue' : queue'[k].cmd \notin Blocking
  BY <1>1, <1>3, <1>4 DEF ThreadFits
<1>6. \A k \in DOMAIN queue' : queue'[k].cmd \in Blocking =>
          /\ thread = queue'[k].cmd
          /\ \A j \in DOMAIN queue' : queue'[j].cmd \in Blocking => j = k
  <2> SUFFICES ASSUME NEW k \in DOMAIN queue', queue'[k].cmd \in Blocking
               PROVE  /\ thread = queue'[k].cmd
                      /\ \A j \in DOMAIN queue' : queue'[j].cmd \in Blocking => j = k
    OBVIOUS
  <2>1. k + 1 \in DOMAIN queue /\ queue'[k] = queue[k + 1] BY <1>1, <1>3, <1>4
  <2>2. thread = queue'[k].cmd BY <2>1 DEF ThreadFits
  <2>3. ASSUME NEW j \in DOMAIN queue', queue'[j].cmd \in Blocking PROVE j = k
    <3>1. j + 1 \in DOMAIN queue /\ queue'[j] = queue[j + 1] BY <1>1, <1>3, <1>4
    <3>2. j + 1 = k + 1 BY <2>1, <2>3, <3>1 DEF ThreadFits
    <3> QED BY <1>1, <1>3, <3>2
  <2> QED BY <2>2, <2>3
<1>7. worker.cmd = "none" /\ worker.todo = <<>> /\ worker.read = <<>> BY <1>1 DEF Idle
<1>8. worker \in Works /\ manager \in Indexes /\ cache \in Indexes
  BY DEF GraphTypes, Works
<1>9. ASSUME worker' \in Works, cache' \in Indexes, events' \in Seq(Events),
        dirty' \in BOOLEAN,
             rebuild' \in BOOLEAN, thread' \in Files \cup {"idle", "answered",
               "reading"} \cup Blocking
      PROVE  GraphTypes'
  BY <1>1, <1>3, <1>9 DEF GraphTypes, Works
<1>10. ASSUME UNCHANGED worker, thread' = thread \/ c.cmd \in Blocking,
              thread' \in {"answered", "fence", "reading"} => manager # None
       PROVE  ThreadFits'
  BY <1>1, <1>5, <1>6, <1>7, <1>10 DEF ThreadFits
<1>11. ASSUME UNCHANGED worker, events' # <<>> => manager = None
       PROVE  WorkFits'
  BY <1>1, <1>7, <1>11 DEF WorkFits
<1>12. thread \in Files \cup {"idle", "answered", "reading"} \cup Blocking
         /\ events \in Seq(Events)
       /\ dirty \in BOOLEAN /\ rebuild \in BOOLEAN
  BY DEF GraphTypes
<1>13. events # <<>> => manager = None BY DEF WorkFits
<1>14. thread \in {"answered", "fence", "reading"} => manager # None BY DEF ThreadFits
<1>15. CASE c.cmd = "events" /\ manager = None /\ events' = events \o c.events
         /\ dirty' = TRUE
            /\ UNCHANGED <<worker, rebuild, cache, thread>>
  <2>1. events' \in Seq(Events) BY <1>3, <1>12, <1>15
  <2>2. GraphTypes' BY <1>8, <1>9, <1>12, <1>15, <2>1
  <2>3. WorkFits' BY <1>11, <1>15
  <2>4. ThreadFits' BY <1>10, <1>14, <1>15
  <2>5. CleanIsSaved' BY <1>15 DEF CleanIsSaved
  <2> QED BY <2>2, <2>3, <2>4, <2>5
<1>16. ASSUME NEW cmd \in {"events", "load", "ensure", "rebuild"},
         NEW todo \in Seq(Events),
              NEW index \in [Files -> [text : Nat, meta : Nat]], NEW replay \in BOOLEAN,
              Work(cmd, todo, index, replay), UNCHANGED <<events, dirty, rebuild, cache,
                thread>>,
              cmd = "events" =>
                c.cmd = "events" /\ manager = index /\ manager # None /\ ~replay,
              cmd # "events" => replay,
              cmd = "load" => index = cache /\ todo = <<>> /\ c.cmd = "ensure",
              cmd = "ensure" => c.cmd = "ensure",
              cmd = "rebuild" => c.cmd = "rebuild"
       PROVE  Shape'
  <2>1. /\ worker' = [cmd |-> cmd, todo |-> todo, index |-> index, read |-> <<>>,
             replay |-> replay]
        /\ worker'.cmd = cmd /\ worker'.todo = todo /\ worker'.index = index
        /\ worker'.read = <<>> /\ worker'.replay = replay
    BY <1>16 DEF Work
  <2>2. worker' \in Works
    <3>1. <<>> \in Seq(Nat) /\ index \in Indexes BY DEF Indexes
    <3> QED BY <2>1, <3>1 DEF Works
  <2>3. GraphTypes' BY <1>8, <1>9, <1>12, <1>16, <2>2
  <2>4. worker' # Idle /\ worker'.cmd # "none" BY <2>1 DEF Idle
  <2>5. WorkFits' BY <1>1, <1>13, <1>16, <2>1, <2>4 DEF WorkFits
  <2>6. ThreadFits'
    <3>1. CASE cmd = "events"
      BY <1>1, <1>6, <1>14, <1>16, <2>1, <3>1 DEF ThreadFits
    <3>2. CASE cmd # "events"
      <4>1. c.cmd \in Blocking /\ thread' = c.cmd /\ c.cmd \in {"ensure", "rebuild"}
        BY <1>5, <1>16, <3>2 DEF Blocking
      <4> QED BY <1>1, <1>5, <1>16, <2>1, <3>2, <4>1 DEF ThreadFits
    <3> QED BY <3>1, <3>2
  <2>7. CleanIsSaved' BY <2>4 DEF CleanIsSaved
  <2> QED BY <2>3, <2>5, <2>6, <2>7
<1>17. CASE /\ c.cmd = "events" /\ manager # None
         /\ Work("events", c.events, manager, FALSE)
            /\ UNCHANGED <<events, dirty, rebuild, cache, thread>>
  <2>1. manager \in [Files -> [text : Nat, meta : Nat]] BY <1>8, <1>17 DEF Indexes
  <2> QED BY <1>3, <1>16, <1>17, <2>1
<1>18. CASE /\ c.cmd = "ensure" /\ manager # None /\ ~rebuild
            /\ thread' = "answered" /\ UNCHANGED <<worker, events, dirty, rebuild, cache>>
  <2>1. GraphTypes' BY <1>8, <1>9, <1>12, <1>18
  <2>2. WorkFits' BY <1>11, <1>13, <1>18
  <2>3. c.cmd \in Blocking BY <1>18 DEF Blocking
  <2>4. ThreadFits' BY <1>10, <1>18, <2>3
  <2>5. CleanIsSaved' BY <1>1, <1>18 DEF CleanIsSaved
  <2> QED BY <2>1, <2>2, <2>4, <2>5
<1>19. CASE /\ c.cmd = "ensure" /\ manager = None /\ CacheFresh
            /\ Work("load", <<>>, cache, TRUE)
            /\ UNCHANGED <<events, dirty, rebuild, cache, thread>>
  <2>1. cache \in [Files -> [text : Nat, meta : Nat]]
    BY <1>8, <1>19 DEF Indexes, CacheFresh
  <2>2. <<>> \in Seq(Events) OBVIOUS
  <2> QED BY <1>16, <1>19, <2>1, <2>2
<1>20. CASE /\ c.cmd \in {"ensure", "rebuild"} /\ Work(c.cmd, Everything, Nothing, TRUE)
            /\ UNCHANGED <<events, dirty, rebuild, cache, thread>>
  <2>1. Nothing \in [Files -> [text : Nat, meta : Nat]] BY DEF Nothing
  <2>2. Everything \in Seq(Events)
    <3>1. PICK f \in Files : TRUE BY GraphIndexAssumption
    <3> QED BY <3>1, BuildIsRight
  <2> QED BY <1>16, <1>20, <2>1, <2>2
<1>21. CASE c.cmd = "request" /\ rebuild' = TRUE /\ dirty' = TRUE
         /\ UNCHANGED <<worker, events, cache, thread>>
  <2>1. GraphTypes' BY <1>8, <1>9, <1>12, <1>21
  <2>2. WorkFits' BY <1>11, <1>13, <1>21
  <2>3. ThreadFits' BY <1>10, <1>14, <1>21
  <2>4. CleanIsSaved' BY <1>21 DEF CleanIsSaved
  <2> QED BY <2>1, <2>2, <2>3, <2>4
<1>22. CASE /\ c.cmd = "persist" /\ thread' = "idle"
            /\ IF manager # None /\ dirty THEN cache' = manager
                 /\ dirty' = FALSE ELSE UNCHANGED <<cache, dirty>>
            /\ UNCHANGED <<worker, events, rebuild>>
  <2>1. cache' \in Indexes /\ dirty' \in BOOLEAN BY <1>8, <1>12, <1>22
  <2>2. GraphTypes' BY <1>8, <1>9, <1>12, <1>22, <2>1
  <2>3. WorkFits' BY <1>11, <1>13, <1>22
  <2>4. c.cmd \in Blocking BY <1>22 DEF Blocking
  <2>5. ThreadFits' BY <1>10, <1>22, <2>4
  <2>6. CleanIsSaved' BY <1>1, <1>22 DEF CleanIsSaved
  <2> QED BY <2>2, <2>3, <2>5, <2>6
<1>23. CASE c.cmd = "fence" /\ thread' = "reading"
         /\ UNCHANGED <<worker, events, dirty, rebuild, cache>>
  <2>1. GraphTypes' BY <1>8, <1>9, <1>12, <1>23
  <2>2. WorkFits' BY <1>11, <1>13, <1>23
  <2>3. c.cmd \in Blocking BY <1>23 DEF Blocking
  <2>4. manager # None BY <1>5, <1>14, <1>23, <2>3
  <2>5. ThreadFits' BY <1>10, <1>23, <2>3, <2>4
  <2>6. CleanIsSaved' BY <1>1, <1>23 DEF CleanIsSaved
  <2> QED BY <2>1, <2>2, <2>5, <2>6
<1> QED BY <1>15, <1>17, <1>18, <1>19, <1>20, <1>21, <1>22, <1>23 DEF Take, c

(* A step within the work. *)
LEMMA StepShapes ==
    ASSUME Shape, worker.todo # <<>>, NEW index \in [Files -> [text : Nat, meta : Nat]],
           NEW todo \in Seq(Events), NEW read \in Seq(Nat), Step(index, todo, read),
           read # <<>> => todo # <<>> /\ Head(todo).kind = "touch" /\ Len(read) = 1
    PROVE  Shape'
<1> USE DEF Shape
<1>1. /\ worker' = [worker EXCEPT !.index = index, !.todo = todo, !.read = read]
      /\ InPlace(index)
      /\ UNCHANGED <<disk, changes, os, pend, queue, events, dirty, rebuild, cache,
           thread, left, since, shadowed>>
  BY DEF Step
<1>2. worker \in Works BY DEF GraphTypes, Works
<1>3. /\ worker'.index = index /\ worker'.todo = todo /\ worker'.read = read
      /\ worker'.cmd = worker.cmd /\ worker'.replay = worker.replay
  BY <1>1, <1>2 DEF Works
<1>4. worker' \in Works
  <2>1. index \in Indexes BY DEF Indexes
  <2> QED BY <1>1, <1>2, <2>1 DEF Works
<1>5. worker.cmd # "none" /\ worker.cmd # "load" BY WorkTyped DEF WorkFits
<1>6. manager' = IF worker.cmd = "events" THEN index ELSE manager BY <1>1 DEF InPlace
<1>7. manager' \in Indexes BY <1>6 DEF Indexes, GraphTypes
<1>8. GraphTypes' BY <1>1, <1>4, <1>7 DEF GraphTypes, Works
<1>9. index # None
  <2>1. worker.todo \in Seq(Events) /\ Head(worker.todo) \in Events BY WorkTyped
  <2>2. Head(worker.todo).file \in DOMAIN index BY <2>1 DEF Events
  <2> QED BY <2>2 DEF None
<1>10. WorkFits'
  <2>1. worker' # Idle BY <1>3, <1>5 DEF Idle
  <2>2. (worker'.cmd = "none") <=> (worker' = Idle) BY <1>3, <1>5, <2>1
  <2>3. worker.cmd = "events" => ~worker.replay BY DEF WorkFits
  <2>4. events' # <<>> => manager' = None /\ worker'.replay
    BY <1>1, <1>3, <1>5, <1>6 DEF WorkFits
  <2> QED BY <1>3, <1>5, <1>6, <1>9, <2>2, <2>3, <2>4 DEF WorkFits
<1>11. thread' \in {"answered", "fence", "reading"} => manager' # None
  BY <1>1, <1>6, <1>9 DEF ThreadFits
<1>12. ThreadFits' BY <1>1, <1>3, <1>11, ThreadStays DEF ThreadFits
<1>13. CleanIsSaved'
  <2>1. worker' # Idle BY <1>3, <1>5 DEF Idle
  <2> QED BY <2>1 DEF CleanIsSaved
<1> QED BY <1>8, <1>10, <1>12, <1>13

(* The worker drops a file. *)
LEMMA RemovalShapes == ASSUME Shape, ApplyRemoval PROVE Shape'
<1> DEFINE todo == worker.todo
           e == Head(todo)
           index == [worker.index EXCEPT ![e.file] = [text |-> 0, meta |-> 0]]
           next == IF e.kind = "rename" THEN <<Touch(e.to)>> \o Tail(todo) ELSE Tail(todo)
<1>1. todo # <<>> /\ Step(index, next, <<>>) BY DEF ApplyRemoval
<1>2. todo \in Seq(Events) /\ e \in Events /\ Tail(todo) \in Seq(Events)
        /\ worker.cmd # "none"
  BY <1>1, WorkTyped DEF Shape
<1>3. index \in [Files -> [text : Nat, meta : Nat]]
  <2>1. worker.index \in [Files -> [text : Nat, meta : Nat]] BY <1>2 DEF Shape, WorkFits
  <2> QED BY <2>1
<1>4. next \in Seq(Events)
  <2>1. Touch(e.to) \in Events BY <1>2 DEF Touch, Events
  <2> HIDE DEF e
  <2> QED BY <1>2, <2>1
<1>5. <<>> \in Seq(Nat) OBVIOUS
<1> HIDE DEF index, next
<1> QED BY <1>1, <1>3, <1>4, <1>5, StepShapes

(* The worker reads a file. *)
LEMMA ReadingShapes == ASSUME Shape, ReadFile PROVE Shape'
<1> DEFINE todo == worker.todo
           read == <<disk[Head(todo).file]>>
<1>1. todo # <<>> /\ Head(todo).kind = "touch" /\ Step(worker.index, todo, read)
  BY DEF ReadFile
<1>2. todo \in Seq(Events) /\ Head(todo) \in Events /\ worker.cmd # "none"
  BY <1>1, WorkTyped DEF Shape
<1>3. worker.index \in [Files -> [text : Nat, meta : Nat]] BY <1>2 DEF Shape, WorkFits
<1>4. read \in Seq(Nat) /\ Len(read) = 1
  <2>1. disk[Head(todo).file] \in Nat BY <1>2 DEF Shape, GraphTypes, Events
  <2> QED BY <2>1
<1> HIDE DEF read
<1> QED BY <1>1, <1>2, <1>3, <1>4, StepShapes

(* The worker enters what it read. *)
LEMMA StatShapes == ASSUME Shape, StatFile PROVE Shape'
<1> DEFINE todo == worker.todo
           e == Head(todo)
           text == Head(worker.read)
           entry == IF text = 0 THEN [text |-> 0, meta |-> 0] ELSE [text |-> text,
             meta |-> disk[e.file]]
           index == [worker.index EXCEPT ![e.file] = entry]
<1>1. worker.read # <<>> /\ Step(index, Tail(todo), <<>>) BY DEF StatFile
<1>2. todo # <<>> BY <1>1 DEF Shape, WorkFits
<1>3. todo \in Seq(Events) /\ e \in Events /\ Tail(todo) \in Seq(Events)
        /\ worker.cmd # "none"
  BY <1>2, WorkTyped DEF Shape
<1>4. index \in [Files -> [text : Nat, meta : Nat]]
  <2>1. worker.index \in [Files -> [text : Nat, meta : Nat]] BY <1>3 DEF Shape, WorkFits
  <2>2. worker.read \in Seq(Nat) /\ disk \in [Files -> Nat] BY DEF Shape, GraphTypes
  <2>3. text \in Nat BY <1>1, <2>2, HeadTailProperties
  <2>4. entry \in [text : Nat, meta : Nat] BY <1>3, <2>2, <2>3 DEF Events
  <2> HIDE DEF entry
  <2> QED BY <2>1, <2>4
<1>5. <<>> \in Seq(Nat) OBVIOUS
<1> HIDE DEF index
<1> QED BY <1>1, <1>2, <1>3, <1>4, <1>5, StepShapes

(* The worker goes on with what came meanwhile. *)
LEMMA ReplayShapes == ASSUME Shape, Replay PROVE Shape'
<1> USE DEF Shape
<1> DEFINE cmd == IF worker.cmd = "load" /\ events # <<>> THEN "ensure" ELSE worker.cmd
<1>1. /\ worker.replay /\ worker.todo = <<>> /\ events' = <<>>
      /\ worker' = [worker EXCEPT !.todo = events, !.replay = FALSE, !.cmd = cmd]
      /\ UNCHANGED <<disk, changes, os, pend, queue, manager, dirty, rebuild, cache,
           thread, left, since, shadowed>>
  BY DEF Replay
<1>2. worker \in Works /\ events \in Seq(Events) BY DEF GraphTypes, Works
<1>3. cmd \in {"none", "events", "load", "ensure", "rebuild"} BY <1>2 DEF Works
<1>4. /\ worker'.index = worker.index /\ worker'.todo = events
      /\ worker'.read = worker.read
      /\ worker'.cmd = cmd /\ ~worker'.replay
  BY <1>1, <1>2, <1>3 DEF Works
<1>5. worker' \in Works BY <1>1, <1>2, <1>3 DEF Works
<1>6. worker.cmd # "none" /\ worker.cmd # "events" /\ worker.read = <<>>
  <2>1. worker.cmd # "none" BY <1>1, WorkTyped
  <2> QED BY <1>1, <2>1 DEF WorkFits
<1>7. cmd # "none" /\ cmd # "events"
        /\ (cmd = "load" => worker.cmd = "load" /\ events = <<>>)
      /\ (cmd = "rebuild" <=> worker.cmd = "rebuild")
           /\ (cmd \in {"load", "ensure"} <=> worker.cmd \in {"load", "ensure"})
  BY <1>6
<1> HIDE DEF cmd
<1>8. GraphTypes'
  <2>1. <<>> \in Seq(Events) OBVIOUS
  <2> QED BY <1>1, <1>5, <2>1 DEF GraphTypes, Works
<1>9. worker' # Idle BY <1>4, <1>7 DEF Idle
<1>10. WorkFits' BY <1>1, <1>4, <1>6, <1>7, <1>9 DEF WorkFits
<1>11. \A k \in DOMAIN queue : queue[k].cmd \notin Blocking
  <2>1. worker.cmd \notin {"none", "events"} BY <1>6
  <2> QED BY <2>1 DEF ThreadFits
<1>12. ThreadFits' BY <1>1, <1>4, <1>7, <1>11 DEF ThreadFits
<1>13. CleanIsSaved' BY <1>9 DEF CleanIsSaved
<1> QED BY <1>8, <1>10, <1>12, <1>13

(* The worker is done. *)
LEMMA FinishShapes == ASSUME Shape, Finish PROVE Shape'
<1> USE DEF Shape
<1>1. /\ worker # Idle /\ worker.todo = <<>> /\ ~worker.replay /\ worker' = Idle
      /\ manager' = worker.index
      /\ UNCHANGED <<disk, changes, os, pend, events, left, since, shadowed>>
  BY DEF Finish
<1>2. worker \in Works BY DEF GraphTypes, Works
<1>3. worker.cmd \in {"events", "load", "ensure", "rebuild"}
  BY <1>1, <1>2 DEF WorkFits, Works
<1>4. worker.index \in [Files -> [text : Nat, meta : Nat]] BY <1>3 DEF WorkFits
<1>5. worker'.cmd = "none" /\ worker'.read = <<>> /\ worker'.todo = <<>>
        /\ ~worker'.replay
  BY <1>1 DEF Idle
<1>6. events = <<>> BY <1>1, <1>3 DEF WorkFits
<1>7. WorkFits' BY <1>1, <1>5, <1>6 DEF WorkFits
<1>8. worker' \in Works /\ manager' \in Indexes
  <2>1. <<>> \in Seq(Events) /\ <<>> \in Seq(Nat) OBVIOUS
  <2> QED BY <1>1, <1>4, <2>1 DEF Works, Idle, Indexes
<1>9. ASSUME cache' \in Indexes, dirty' \in BOOLEAN, rebuild' \in BOOLEAN,
        queue' \in Seq(Orders),
             thread' \in Files \cup {"idle", "answered", "reading"} \cup Blocking
      PROVE  GraphTypes'
  BY <1>1, <1>8, <1>9 DEF GraphTypes, Works
<1>10. thread \in Files \cup {"idle", "answered", "reading"} \cup Blocking
         /\ queue \in Seq(Orders)
       /\ cache \in Indexes /\ dirty \in BOOLEAN /\ rebuild \in BOOLEAN
  BY DEF GraphTypes
<1>11. worker.cmd # "events" => \A k \in DOMAIN queue : queue[k].cmd \notin Blocking
  BY <1>3 DEF ThreadFits
<1>12. manager' # None
  <2>1. PICK f \in Files : TRUE BY GraphIndexAssumption
  <2>2. f \in DOMAIN worker.index BY <1>4, <2>1
  <2> QED BY <1>1, <2>2 DEF None
<1>13. CASE worker.cmd = "events"
  <2>1. dirty' = TRUE /\ UNCHANGED <<rebuild, cache, thread, queue>> BY <1>13 DEF Finish
  <2>2. GraphTypes' BY <1>9, <1>10, <2>1
  <2>3. ThreadFits' BY <1>5, <1>12, <2>1, ThreadStays
  <2>4. CleanIsSaved' BY <2>1 DEF CleanIsSaved
  <2> QED BY <1>7, <2>2, <2>3, <2>4
<1>14. CASE worker.cmd \in {"load", "ensure"}
  <2>1. /\ dirty' = FALSE /\ rebuild' = FALSE /\ thread' = "answered" /\ UNCHANGED queue
        /\ cache' = worker.index \/ (worker.cmd = "load" /\ UNCHANGED cache)
    BY <1>14 DEF Finish
  <2>2. cache' = worker.index BY <2>1 DEF WorkFits
  <2>3. GraphTypes' BY <1>4, <1>9, <1>10, <2>1, <2>2 DEF Indexes
  <2>4. ThreadFits' BY <1>5, <1>11, <1>12, <1>14, <2>1, ThreadStays
  <2>5. CleanIsSaved' BY <1>1, <2>2 DEF CleanIsSaved
  <2> QED BY <1>7, <2>3, <2>4, <2>5
<1>15. CASE worker.cmd = "rebuild"
  <2> DEFINE c == [cmd |-> "persist", events |-> <<>>]
  <2>1. /\ dirty' = TRUE /\ rebuild' = FALSE /\ thread' = "persist" /\ UNCHANGED cache
        /\ queue' = Append(queue, c)
    BY <1>15 DEF Finish, Enqueue
  <2>2. c \in Orders /\ c.cmd = "persist" BY OrdersAre DEF Blocking
  <2> HIDE DEF c
  <2>3. queue' \in Seq(Orders) BY <1>10, <2>1, <2>2
  <2>4. "persist" \in Blocking BY DEF Blocking
  <2>5. GraphTypes' BY <1>9, <1>10, <2>1, <2>3, <2>4
  <2>6. ThreadFits'
    <3>1. \A k \in DOMAIN queue : queue[k].cmd \notin Blocking BY <1>11, <1>15
    <3> QED BY <1>5, <1>12, <2>1, <2>2, <3>1, ThreadJoins
  <2>7. CleanIsSaved' BY <2>1 DEF CleanIsSaved
  <2> QED BY <1>7, <2>5, <2>6, <2>7
<1> QED BY <1>3, <1>13, <1>14, <1>15

-----------------------------------------------------------------------------
(* The two promises, where the files and what is right for them are given. *)
LEMMA SinceNext ==
    ASSUME \A f \in Files : since'[f] # {} =>
      \E good : good = since'[f] /\ SinceFit(f, good)'
    PROVE  SinceFits'
<1> SUFFICES ASSUME NEW f \in Files, since'[f] # {} PROVE SinceFit(f, since[f])'
  BY DEF SinceFits
<1>1. PICK good : good = since'[f] /\ SinceFit(f, good)' OBVIOUS
<1> QED BY <1>1

(* The same for what a file goes by in the end. *)
LEMMA CatchNext ==
    ASSUME \A f \in Files \ shadowed' : \E good : good = {disk'[f]} /\ CatchFit(f, good)'
    PROVE  WillCatchUp'
<1> SUFFICES ASSUME NEW f \in Files \ shadowed' PROVE CatchFit(f, {disk[f]})'
  BY DEF WillCatchUp
<1>1. PICK good : good = {disk'[f]} /\ CatchFit(f, good)' OBVIOUS
<1> QED BY <1>1

(* The same for the notices of the operating system. *)
LEMMA OsNext ==
    ASSUME \A f \in Files : Ends(TRUE, os', f, {disk'[f]})
    PROVE  OsFits'
BY DEF OsFits

(* More is right, and nothing else changes. *)
LEMMA SinceMore ==
    ASSUME GraphTypes, NEW f, NEW good, NEW more, good \subseteq more, SinceFit(f, good)
    PROVE  /\ Clean(os, f, more) /\ Clean(pend, f, more)
           /\ QueueEnds(Worked(f, more), queue, f, more, {"fence"})
           /\ Base(f, good) => Base(f, more)
           /\ Clean(Todo, f, good) /\ Todo \in Seq(Events) => Clean(Todo, f, more)
           /\ QueueClean(queue, f, good) => QueueClean(queue, f, more)
<1>1. os \in Seq(Events) /\ pend \in Seq(Events) /\ queue \in Seq(Orders)
        /\ events \in Seq(Events)
  BY DEF GraphTypes
<1>2. Clean(os, f, more) /\ Clean(pend, f, more) BY <1>1, MoreIsRight DEF SinceFit
<1>3. Base(f, good) => Base(f, more) BY DEF Base
<1>4. \A e : (Fixes(e, f, good) => Fixes(e, f, more))
        /\ (Spoils(e, f, more) => Spoils(e, f, good))
  BY DEF Fixes, Spoils
<1>5. \A s : /\ Fixing(s, f, good) => Fixing(s, f, more)
             /\ Clean(s, f, good) => Clean(s, f, more)
  BY <1>4 DEF Fixing, Clean
<1>6. Worked(f, good) => Worked(f, more) BY <1>3, <1>5 DEF Worked, Ends
<1>7. QueueEnds(Worked(f, more), queue, f, more, {"fence"})
  <2> DEFINE b == Worked(f, good)
             c == Worked(f, more)
  <2>1. b \in BOOLEAN /\ c \in BOOLEAN BY YesOrNo
  <2>2. QueueEnds(b, queue, f, good, {"fence"}) BY DEF SinceFit
  <2>3. b => c BY <1>6
  <2> HIDE DEF b, c
  <2>4. QueueEnds(c, queue, f, more, {"fence"})
    BY <1>1, <2>1, <2>2, <2>3, MoreIsRightQueued
  <2> QED BY <2>4 DEF c
<1> QED BY <1>1, <1>2, <1>3, <1>5, <1>7, MoreIsRightQueued DEF QueueClean

(* A change goes to the end of the notifications. *)
LEMMA ChangePromises ==
    ASSUME Shape, OsFits, SinceFits, WillCatchUp,
           NEW new, NEW e, Changing(new, e), Change(new, e), Undisturbed,
           UNCHANGED <<pend, queue, shadowed>>, thread' = "reading" => thread = "reading"
    PROVE  OsFits' /\ SinceFits' /\ WillCatchUp'
<1> USE DEF Shape
<1>1. disk' = new /\ os' = Append(os, e) /\ e \in Events BY DEF Change, Changing
<1>2. since' = [f \in Files |-> IF since[f] = {} THEN {} ELSE since[f] \cup {new[f]}]
  BY DEF Change
<1>3. os \in Seq(Events) BY DEF GraphTypes
<1>4. ASSUME NEW f \in Files, NEW good, good = {new[f]}, NEW b \in BOOLEAN,
        new[f] = disk[f] => Ends(b, os, f, good)
      PROVE  Ends(b, os', f, good)
  <2>1. Fixes(e, f, good) \/ (new[f] = disk[f] /\ ~Spoils(e, f, good))
    BY <1>4 DEF Changing, Fixes, Spoils, Events
  <2>2. Ends(b, Append(os, e), f, good) <=>
          Fixes(e, f, good) \/ (Ends(b, os, f, good) /\ ~Spoils(e, f, good))
    BY <1>1, <1>3, AppendApplies
  <2> QED BY <1>1, <1>4, <2>1, <2>2
<1>5. OsFits'
  <2> SUFFICES ASSUME NEW f \in Files PROVE Ends(TRUE, os', f, {new[f]}) BY <1>1, OsNext
  <2>1. Ends(TRUE, os, f, {disk[f]}) BY DEF OsFits
  <2> QED BY <1>4, <2>1
<1>6. SinceFits'
  <2> SUFFICES ASSUME NEW f \in Files, since'[f] # {}
               PROVE  \E good : good = since'[f] /\ SinceFit(f, good)'
    BY SinceNext
  <2>1. PICK more : more = since[f] \cup {new[f]} OBVIOUS
  <2>2. since[f] # {} /\ since'[f] = more BY <1>2, <2>1
  <2>3. PICK good : good = since[f] OBVIOUS
  <2>4. good \subseteq more /\ SinceFit(f, good) BY <2>1, <2>2, <2>3 DEF SinceFits
  <2>5. /\ Clean(os, f, more) /\ Clean(pend, f, more)
        /\ QueueEnds(Worked(f, more), queue, f, more, {"fence"})
        /\ Base(f, good) => Base(f, more)
        /\ Clean(Todo, f, good) => Clean(Todo, f, more)
        /\ QueueClean(queue, f, good) => QueueClean(queue, f, more)
    BY <2>4, SinceMore, WorkTyped
  <2>6. disk'[f] \in more BY <1>1, <2>1
  <2>7. Clean(os', f, more)
    <3>1. ~Spoils(e, f, more) BY <2>1, <2>3, <2>4 DEF Changing, Spoils, SinceFit, Events
    <3> QED BY <1>1, <1>3, <2>5, <3>1, AppendApplies
  <2>8. /\ Worked(f, more)' <=> Worked(f, more)
        /\ Base(f, more)' <=> Base(f, more)
        /\ Todo' = Todo
    BY OutsideIsKept
  <2>9. QueueEnds(Worked(f, more)', queue', f, more, {"fence"})
    BY <2>5, <2>8 DEF QueueEnds
  <2>10. thread' = "reading" =>
           /\ worker'.cmd \in {"none", "events"} /\ manager'[f].text \in more
           /\ Base(f, more)' /\ Clean(Todo', f, more) /\ QueueClean(queue', f, more)
    BY <2>4, <2>5, <2>8 DEF SinceFit, Undisturbed
  <2>11. SinceFit(f, more)' BY <2>5, <2>6, <2>7, <2>9, <2>10 DEF SinceFit
  <2> QED BY <2>2, <2>11
<1>7. WillCatchUp'
  <2> SUFFICES ASSUME NEW f \in Files \ shadowed PROVE \E good :
        good = {disk'[f]} /\ CatchFit(f, good)'
    BY CatchNext
  <2>1. PICK good : good = {new[f]} OBVIOUS
  <2> DEFINE b == Ends(QueueEnds(Worked(f, good), queue, f, good, {}), pend, f, good)
  <2>2. b \in BOOLEAN BY DEF Ends
  <2>3. new[f] = disk[f] => Ends(b, os, f, good) BY <2>1 DEF WillCatchUp, CatchFit
  <2>4. Ends(b, os', f, good)
    <3> HIDE DEF b
    <3> QED BY <1>4, <2>1, <2>2, <2>3
  <2>5. Worked(f, good)' <=> Worked(f, good) BY OutsideIsKept
  <2>6. Ends(QueueEnds(Worked(f, good)', queue', f, good, {}), pend', f, good) <=> b
    BY <2>5 DEF Ends, QueueEnds
  <2>7. CatchFit(f, good)' BY <2>4, <2>6 DEF CatchFit, Ends
  <2> QED BY <1>1, <2>1, <2>7
<1> QED BY <1>5, <1>6, <1>7

(* A command joins the queue that spoils nothing. *)
LEMMA JoinKeepsSince ==
    ASSUME Shape, Undisturbed, NEW c \in Orders, queue' = Append(queue, c),
      UNCHANGED <<disk, os>>,
           pend' \in {pend, <<>>}, thread' = "reading" => thread = "reading",
           NEW f \in Files, NEW good, Clean(c.events, f, good), SinceFit(f, good)
    PROVE  SinceFit(f, good)'
<1> USE DEF Shape
<1>1. queue \in Seq(Orders) BY DEF GraphTypes
<1> DEFINE b == Worked(f, good)
<1>2. b \in BOOLEAN BY YesOrNo
<1>3. QueueEnds(b, queue, f, good, {"fence"}) BY DEF SinceFit
<1>4. /\ Worked(f, good)' <=> b
      /\ Base(f, good)' <=> Base(f, good)
      /\ Todo' = Todo
  BY OutsideIsKept
<1> HIDE DEF b
<1>5. QueueEnds(b, Append(queue, c), f, good, {"fence"}) BY <1>1, <1>2, <1>3, QueueJoined
<1>6. QueueEnds(Worked(f, good)', queue', f, good, {"fence"}) BY <1>4, <1>5 DEF QueueEnds
<1>7. QueueClean(queue, f, good) => QueueClean(queue', f, good) BY <1>1, QueueJoined
<1>8. Clean(pend', f, good) BY EmptyApplies DEF SinceFit
<1>9. thread' = "reading" =>
           /\ worker'.cmd \in {"none", "events"} /\ manager'[f].text \in good
           /\ Base(f, good)' /\ Clean(Todo', f, good) /\ QueueClean(queue', f, good)
  BY <1>4, <1>7 DEF SinceFit, Undisturbed
<1> QED BY <1>6, <1>8, <1>9 DEF SinceFit

(* A command joins the queue, with what was pending or nothing that        *)
(* spoils.                                                                 *)
LEMMA JoinKeepsCatch ==
    ASSUME Shape, Undisturbed, NEW c \in Orders, queue' = Append(queue, c),
      UNCHANGED <<disk, os>>,
           NEW f \in Files, NEW good, CatchFit(f, good),
           \/ Clean(c.events, f, good) /\ UNCHANGED pend
           \/ c.events = pend /\ pend' = <<>>
    PROVE  CatchFit(f, good)'
<1> USE DEF Shape
<1>1. queue \in Seq(Orders) /\ pend \in Seq(Events) BY DEF GraphTypes
<1> DEFINE b == Worked(f, good)
           q == QueueEnds(b, queue, f, good, {})
           r == QueueEnds(b, Append(queue, c), f, good, {})
<1>2. b \in BOOLEAN BY YesOrNo
<1>3. Ends(Ends(q, pend, f, good), os, f, good) BY DEF CatchFit
<1>4. Worked(f, good)' <=> b BY OutsideIsKept
<1>5. QueueEnds(Worked(f, good)', queue', f, good, {}) <=> r BY <1>4 DEF QueueEnds
<1>6. q \in BOOLEAN /\ r \in BOOLEAN BY YesOrNo
<1> HIDE DEF b
<1>7. /\ q /\ Clean(c.events, f, good) => r
      /\ Fixing(c.events, f, good) => r
  BY <1>1, <1>2, QueueJoined
<1>8. Ends(q, pend, f, good) => Ends(r, pend', f, good)
  <2> HIDE DEF q, r
  <2>1. CASE Clean(c.events, f, good) /\ UNCHANGED pend
    <3>1. q => r BY <1>7, <2>1
    <3> QED BY <2>1, <3>1 DEF Ends
  <2>2. CASE c.events = pend /\ pend' = <<>>
    <3>1. Ends(q, pend, f, good) => r BY <1>7, <2>2 DEF Ends
    <3>2. Ends(r, pend', f, good) <=> r BY <1>6, <2>2, EmptyApplies
    <3> QED BY <3>1, <3>2
  <2> QED BY <2>1, <2>2
<1>9. Ends(Ends(r, pend', f, good), os', f, good) BY <1>3, <1>8 DEF Ends
<1> QED BY <1>5, <1>9 DEF CatchFit, Ends

(* The timer sends what is pending: it is then in the queue. *)
LEMMA FirePromises ==
    ASSUME Shape, OsFits, SinceFits, WillCatchUp, Fire
    PROVE  OsFits' /\ SinceFits' /\ WillCatchUp'
<1> USE DEF Shape
<1> DEFINE c == [cmd |-> "events", events |-> pend]
<1>1. c \in Orders /\ c.events = pend BY OrdersAre DEF GraphTypes
<1>2. /\ queue' = Append(queue, c) /\ pend' = <<>>
      /\ Undisturbed /\ UNCHANGED <<disk, changes, os, thread, since, shadowed>>
  BY DEF Fire, Enqueue, Undisturbed
<1> HIDE DEF c
<1>3. OsFits' BY <1>2 DEF OsFits
<1>4. SinceFits'
  <2> SUFFICES ASSUME NEW f \in Files, since'[f] # {}
               PROVE  \E good : good = since'[f] /\ SinceFit(f, good)'
    BY SinceNext
  <2>1. PICK good : good = since[f] OBVIOUS
  <2>2. SinceFit(f, good) BY <1>2, <2>1 DEF SinceFits
  <2>3. Clean(c.events, f, good) BY <1>1, <2>2 DEF SinceFit
  <2>4. pend' \in {pend, <<>>} BY <1>2
  <2>5. SinceFit(f, good)' BY <1>1, <1>2, <2>2, <2>3, <2>4, JoinKeepsSince
  <2> QED BY <1>2, <2>1, <2>5
<1>5. WillCatchUp'
  <2> SUFFICES ASSUME NEW f \in Files \ shadowed PROVE \E good :
        good = {disk'[f]} /\ CatchFit(f, good)'
    BY <1>2, CatchNext
  <2>1. PICK good : good = {disk[f]} OBVIOUS
  <2>2. CatchFit(f, good) BY <2>1 DEF WillCatchUp
  <2>3. CatchFit(f, good)' BY <1>1, <1>2, <2>2, JoinKeepsCatch
  <2> QED BY <1>2, <2>1, <2>3
<1> QED BY <1>3, <1>4, <1>5

(* A query, a rebuild, or the fence of a reader. *)
LEMMA AskPromises ==
    ASSUME Shape, OsFits, SinceFits, WillCatchUp,
           (\E cmd \in {"ensure", "rebuild", "request"} : Ask(cmd)) \/ ReadFence
    PROVE  OsFits' /\ SinceFits' /\ WillCatchUp'
<1> USE DEF Shape
<1>1. PICK cmd \in Blocking \cup {"request"} :
           /\ queue' = Append(queue, [cmd |-> cmd, events |-> <<>>])
           /\ thread' # "reading"
           /\ Undisturbed /\ UNCHANGED <<disk, changes, os, pend, since, shadowed>>
  <2>1. ASSUME NEW cmd \in {"ensure", "rebuild", "request"}, Ask(cmd)
        PROVE  /\ cmd \in Blocking \cup {"request"}
               /\ queue' = Append(queue, [cmd |-> cmd, events |-> <<>>])
               /\ thread' # "reading"
               /\ Undisturbed /\ UNCHANGED <<disk, changes, os, pend, since, shadowed>>
    BY <2>1 DEF Ask, Enqueue, Undisturbed, Blocking
  <2>2. CASE ReadFence
    <3>1. /\ queue' = Append(queue, [cmd |-> "fence", events |-> <<>>])
          /\ thread' # "reading"
          /\ Undisturbed /\ UNCHANGED <<disk, changes, os, pend, since, shadowed>>
      BY <2>2 DEF ReadFence, Enqueue, Undisturbed
    <3>2. "fence" \in Blocking BY DEF Blocking
    <3> QED BY <3>1, <3>2
  <2> QED BY <2>1, <2>2
<1> DEFINE c == [cmd |-> cmd, events |-> <<>>]
<1>2. c \in Orders /\ c.events = <<>> /\ queue' = Append(queue, c) BY <1>1, OrdersAre
<1> HIDE DEF c
<1>3. OsFits' BY <1>1 DEF OsFits
<1>4. SinceFits'
  <2> SUFFICES ASSUME NEW f \in Files, since'[f] # {}
               PROVE  \E good : good = since'[f] /\ SinceFit(f, good)'
    BY SinceNext
  <2>1. PICK good : good = since[f] OBVIOUS
  <2>2. SinceFit(f, good) BY <1>1, <2>1 DEF SinceFits
  <2>3. Clean(c.events, f, good) BY <1>2, EmptyApplies
  <2>4. pend' \in {pend, <<>>} BY <1>1
  <2>5. SinceFit(f, good)' BY <1>1, <1>2, <2>2, <2>3, <2>4, JoinKeepsSince
  <2> QED BY <1>1, <2>1, <2>5
<1>5. WillCatchUp'
  <2> SUFFICES ASSUME NEW f \in Files \ shadowed PROVE \E good :
        good = {disk'[f]} /\ CatchFit(f, good)'
    BY <1>1, CatchNext
  <2>1. PICK good : good = {disk[f]} OBVIOUS
  <2>2. CatchFit(f, good) BY <2>1 DEF WillCatchUp
  <2>3. Clean(c.events, f, good) BY <1>2, EmptyApplies
  <2>4. CatchFit(f, good)' BY <1>1, <1>2, <2>2, <2>3, JoinKeepsCatch
  <2> QED BY <1>1, <2>1, <2>4
<1> QED BY <1>3, <1>4, <1>5

(* The tool reports its file itself. *)
LEMMA MarkPromises ==
    ASSUME Shape, OsFits, SinceFits, WillCatchUp, MarkDirty
    PROVE  OsFits' /\ SinceFits' /\ WillCatchUp'
<1> USE DEF Shape
<1> DEFINE e == Touch(thread)
           c == [cmd |-> "events", events |-> <<e>>]
           hidden == \E x \in ToSet(os \o pend) : x.kind # "touch" /\ x.file = thread
<1>1. /\ thread \in Files /\ queue' = Append(queue, c) /\ thread' = "idle"
      /\ Undisturbed /\ UNCHANGED <<disk, os, pend, shadowed>>
      /\ since' = [since EXCEPT ![thread] = IF hidden THEN {} ELSE {disk[thread]}]
  BY DEF MarkDirty, Enqueue, Undisturbed
<1>2. e \in Events /\ e.kind = "touch" /\ e.file = thread BY <1>1 DEF Touch, Events
<1>3. c \in Orders /\ c.events = <<e>> /\ c.cmd = "events"
  <2>1. <<e>> \in Seq(Events) BY <1>2
  <2> QED BY <2>1, OrdersAre
<1>4. \A f, good : /\ Clean(<<e>>, f, good)
                   /\ f = thread => Fixing(<<e>>, f, good)
  <2>1. DOMAIN <<e>> = {1} /\ <<e>>[1] = e OBVIOUS
  <2>2. \A f, good : ~Spoils(e, f, good) /\ (f = thread => Fixes(e, f, good))
    BY <1>2, EventsApply
  <2> HIDE DEF e
  <2> QED BY <2>1, <2>2 DEF Clean, Fixing
<1>5. /\ os \in Seq(Events) /\ pend \in Seq(Events) /\ queue \in Seq(Orders)
      /\ since \in [Files -> SUBSET Nat]
  BY DEF GraphTypes
<1> HIDE DEF e, c
<1>6. OsFits' BY <1>1 DEF OsFits
<1>7. SinceFits'
  <2> SUFFICES ASSUME NEW f \in Files, since'[f] # {}
               PROVE  \E good : good = since'[f] /\ SinceFit(f, good)'
    BY SinceNext
  <2>1. CASE f # thread
    <3>1. since'[f] = since[f] BY <1>1, <1>5, <2>1
    <3>2. PICK good : good = since[f] OBVIOUS
    <3>3. SinceFit(f, good) BY <3>1, <3>2 DEF SinceFits
    <3>4. Clean(c.events, f, good) BY <1>3, <1>4
    <3>5. pend' \in {pend, <<>>} BY <1>1
    <3>6. SinceFit(f, good)' BY <1>1, <1>3, <3>3, <3>4, <3>5, JoinKeepsSince
    <3> QED BY <3>1, <3>2, <3>6
  <2>2. CASE f = thread
    <3>1. PICK good : good = {disk[f]} OBVIOUS
    <3>2. since'[f] = good /\ ~hidden BY <1>1, <1>5, <2>2, <3>1
    <3>3. Clean(os, f, good) /\ Clean(pend, f, good)
      <4>1. (\A i \in DOMAIN os : os[i] \in ToSet(os \o pend))
              /\ (\A i \in DOMAIN pend : pend[i] \in ToSet(os \o pend))
        <5> DEFINE r == os \o pend
        <5>1. /\ Len(os) \in Nat /\ Len(pend) \in Nat /\ DOMAIN os = 1 .. Len(os)
              /\ DOMAIN pend = 1 .. Len(pend)
              /\ DOMAIN r = 1 .. Len(os) + Len(pend)
              /\ \A i \in 1 .. Len(os) : r[i] = os[i]
              /\ \A i \in 1 .. Len(pend) : r[Len(os) + i] = pend[i]
          BY <1>5
        <5> HIDE DEF r
        <5>2. \A i \in DOMAIN r : r[i] \in ToSet(r) BY DEF ToSet
        <5>3. \A i \in 1 .. Len(os) : i \in DOMAIN r BY <5>1
        <5>4. \A i \in 1 .. Len(pend) : Len(os) + i \in DOMAIN r BY <5>1
        <5>5. \A i \in DOMAIN os : os[i] \in ToSet(r) BY <5>1, <5>2, <5>3
        <5>6. \A i \in DOMAIN pend : pend[i] \in ToSet(r) BY <5>1, <5>2, <5>4
        <5> QED BY <5>5, <5>6 DEF r
      <4>2. \A x \in ToSet(os \o pend) : ~Spoils(x, f, good) BY <2>2, <3>2 DEF Spoils
      <4> QED BY <4>1, <4>2 DEF Clean
    <3>4. QueueEnds(Worked(f, good)', queue', f, good, {"fence"})
      <4> DEFINE b == Worked(f, good)'
      <4>1. b \in BOOLEAN BY DEF Worked, Ends
      <4>2. \A k \in DOMAIN queue : queue[k].cmd \notin {"fence"}
        <5>1. thread # "fence" BY <1>1, FilesApart DEF Blocking
        <5> QED BY <5>1 DEF ThreadFits, Blocking
      <4>3. c.cmd \notin {"fence"} /\ Fixing(c.events, f, good) BY <1>3, <1>4, <2>2
      <4> HIDE DEF b
      <4>4. QueueEnds(b, Append(queue, c), f, good, {"fence"})
        BY <1>3, <1>5, <4>1, <4>2, <4>3, QueueJoined
      <4> QED BY <1>1, <4>4 DEF b
    <3>5. SinceFit(f, good)' BY <1>1, <3>1, <3>3, <3>4 DEF SinceFit
    <3> QED BY <3>2, <3>5
  <2> QED BY <2>1, <2>2
<1>8. WillCatchUp'
  <2> SUFFICES ASSUME NEW f \in Files \ shadowed PROVE \E good :
        good = {disk'[f]} /\ CatchFit(f, good)'
    BY <1>1, CatchNext
  <2>1. PICK good : good = {disk[f]} OBVIOUS
  <2>2. CatchFit(f, good) BY <2>1 DEF WillCatchUp
  <2>3. Clean(c.events, f, good) BY <1>3, <1>4
  <2>4. CatchFit(f, good)' BY <1>1, <1>3, <2>2, <2>3, JoinKeepsCatch
  <2> QED BY <1>1, <2>1, <2>4
<1> QED BY <1>6, <1>7, <1>8

(* A query has read: it waits no more. *)
LEMMA ReadPromises ==
    ASSUME Shape, OsFits, SinceFits, WillCatchUp, Read
    PROVE  OsFits' /\ SinceFits' /\ WillCatchUp'
<1> USE DEF Shape
<1>1. thread' = "idle" /\ Undisturbed
        /\ UNCHANGED <<disk, os, pend, queue, since, shadowed>>
  BY DEF Read, Undisturbed
<1>2. OsFits' BY <1>1 DEF OsFits
<1>3. SinceFits'
  <2> SUFFICES ASSUME NEW f \in Files, since'[f] # {}
               PROVE  \E good : good = since'[f] /\ SinceFit(f, good)'
    BY SinceNext
  <2>1. PICK good : good = since[f] OBVIOUS
  <2>2. SinceFit(f, good) BY <1>1, <2>1 DEF SinceFits
  <2>3. Worked(f, good)' <=> Worked(f, good) BY <1>1, OutsideIsKept
  <2>4. SinceFit(f, good)' BY <1>1, <2>2, <2>3 DEF SinceFit, QueueEnds
  <2> QED BY <1>1, <2>1, <2>4
<1>4. WillCatchUp'
  <2> SUFFICES ASSUME NEW f \in Files \ shadowed PROVE \E good :
        good = {disk'[f]} /\ CatchFit(f, good)'
    BY <1>1, CatchNext
  <2>1. PICK good : good = {disk[f]} OBVIOUS
  <2>2. CatchFit(f, good) BY <2>1 DEF WillCatchUp
  <2>3. Worked(f, good)' <=> Worked(f, good) BY <1>1, OutsideIsKept
  <2>4. CatchFit(f, good)' BY <1>1, <2>2, <2>3 DEF CatchFit, Ends, QueueEnds
  <2> QED BY <1>1, <2>1, <2>4
<1> QED BY <1>2, <1>3, <1>4

(* The debouncer merges a notification with what it has of its key. *)
LEMMA PushPromises ==
    ASSUME Shape, OsFits, SinceFits, WillCatchUp, Push
    PROVE  OsFits' /\ SinceFits' /\ WillCatchUp'
<1> USE DEF Shape
<1> DEFINE e == Head(os)
           same == {i \in DOMAIN pend : Key(pend[i]) = Key(e)}
           hidden == \E i \in same : \E j \in DOMAIN pend :
                         j > i /\ pend[j].kind # "touch" /\ pend[j].file = e.to
           merged == [i \in DOMAIN pend |-> IF i \in same THEN e ELSE pend[i]]
<1>1. /\ os # <<>> /\ os' = Tail(os)
      /\ pend' = IF same = {} THEN Append(pend, e) ELSE merged
      /\ shadowed' = IF e.kind # "remove" /\ hidden THEN shadowed \cup {e.to}
                     ELSE shadowed \ {e.file, e.to}
      /\ Undisturbed /\ UNCHANGED <<disk, changes, queue, thread, since>>
  BY DEF Push, Undisturbed
<1>2. os \in Seq(Events) /\ pend \in Seq(Events) BY DEF GraphTypes
<1>3. e \in Events /\ Tail(os) \in Seq(Events) BY <1>1, <1>2, HeadTailProperties
<1>4. \A i \in DOMAIN pend : pend[i] \in Events BY <1>2
<1>5. \A i \in same :
        (pend[i].kind = "rename" <=> e.kind = "rename") /\ pend[i].file = e.file
          /\ pend[i].to = e.to
  <2> SUFFICES ASSUME NEW i \in DOMAIN pend, Key(pend[i]) = Key(e)
               PROVE  (pend[i].kind = "rename" <=> e.kind = "rename")
                        /\ pend[i].file = e.file /\ pend[i].to = e.to
    OBVIOUS
  <2>1. PICK x : x = pend[i] OBVIOUS
  <2>2. PICK y : y = e OBVIOUS
  <2>3. x \in Events /\ y \in Events /\ Key(x) = Key(y) BY <1>3, <1>4, <2>1, <2>2
  <2>4. /\ Len(<<x.file>>) = 1 /\ Len(<<x.file, x.to>>) = 2 /\ <<x.file>>[1] = x.file
        /\ <<x.file, x.to>>[1] = x.file /\ <<x.file, x.to>>[2] = x.to
        /\ Len(<<y.file>>) = 1 /\ Len(<<y.file, y.to>>) = 2 /\ <<y.file>>[1] = y.file
        /\ <<y.file, y.to>>[1] = y.file /\ <<y.file, y.to>>[2] = y.to
    OBVIOUS
  <2>5. x.kind = "rename" <=> y.kind = "rename"
    <3>1. Len(Key(x)) = IF x.kind = "rename" THEN 2 ELSE 1 BY <2>4 DEF Key
    <3>2. Len(Key(y)) = IF y.kind = "rename" THEN 2 ELSE 1 BY <2>4 DEF Key
    <3> QED BY <2>3, <3>1, <3>2
  <2>6. x.file = y.file /\ x.to = y.to
    <3>1. CASE x.kind = "rename"
      <4>1. Key(x) = <<x.file, x.to>> /\ Key(y) = <<y.file, y.to>> BY <2>5, <3>1 DEF Key
      <4> QED BY <2>3, <2>4, <4>1
    <3>2. CASE x.kind # "rename"
      <4>1. Key(x) = <<x.file>> /\ Key(y) = <<y.file>> BY <2>5, <3>2 DEF Key
      <4>2. x.file = y.file BY <2>3, <2>4, <4>1
      <4> QED BY <2>3, <2>5, <3>2, <4>2 DEF Events
    <3> QED BY <3>1, <3>2
  <2> QED BY <2>1, <2>2, <2>5, <2>6
<1>6. DOMAIN merged = DOMAIN pend
      /\ \A i \in DOMAIN pend : merged[i] = IF i \in same THEN e ELSE pend[i]
  OBVIOUS
<1> HIDE DEF e, same, merged
<1>7. OsFits'
  <2> SUFFICES ASSUME NEW f \in Files PROVE Ends(TRUE, os', f, {disk[f]}) BY <1>1, OsNext
  <2>1. Ends(TRUE, os, f, {disk[f]}) BY DEF OsFits
  <2>2. Ends(TRUE, os, f, {disk[f]})
          <=> Ends(Fixes(e, f, {disk[f]}) \/ (TRUE /\ ~Spoils(e, f, {disk[f]})),
            Tail(os), f, {disk[f]})
    BY <1>1, <1>2, HeadApplies DEF e
  <2> QED BY <1>1, <2>1, <2>2 DEF Ends
<1>8. SinceFits'
  <2> SUFFICES ASSUME NEW f \in Files, since'[f] # {}
               PROVE  \E good : good = since'[f] /\ SinceFit(f, good)'
    BY SinceNext
  <2>1. PICK good : good = since[f] OBVIOUS
  <2>2. SinceFit(f, good) BY <1>1, <2>1 DEF SinceFits
  <2>3. ~Spoils(e, f, good) /\ Clean(Tail(os), f, good)
    <3>1. Clean(os, f, good) <=> ~Spoils(Head(os), f, good) /\ Clean(Tail(os), f, good)
      BY <1>1, <1>2, HeadApplies
    <3> QED BY <2>2, <3>1 DEF SinceFit, e
  <2>4. Clean(pend', f, good)
    <3>1. CASE same = {}
      <4>1. pend' = Append(pend, e) BY <1>1, <3>1
      <4> QED BY <1>2, <1>3, <2>2, <2>3, <4>1, AppendApplies DEF SinceFit
    <3>2. CASE same # {}
      <4>1. pend' = merged BY <1>1, <3>2
      <4> QED BY <1>6, <2>2, <2>3, <4>1 DEF SinceFit, Clean
    <3> QED BY <3>1, <3>2
  <2>5. /\ Worked(f, good)' <=> Worked(f, good)
        /\ Base(f, good)' <=> Base(f, good)
        /\ Todo' = Todo
    BY <1>1, OutsideIsKept
  <2>6. QueueEnds(Worked(f, good)', queue', f, good, {"fence"})
    BY <1>1, <2>2, <2>5 DEF SinceFit, QueueEnds
  <2>7. thread' = "reading" =>
           /\ worker'.cmd \in {"none", "events"} /\ manager'[f].text \in good
           /\ Base(f, good)' /\ Clean(Todo', f, good) /\ QueueClean(queue', f, good)
    BY <1>1, <2>2, <2>5 DEF SinceFit, Undisturbed
  <2>8. SinceFit(f, good)' BY <1>1, <2>2, <2>3, <2>4, <2>6, <2>7 DEF SinceFit
  <2> QED BY <1>1, <2>1, <2>8
<1>9. WillCatchUp'
  <2> SUFFICES ASSUME NEW f \in Files \ shadowed' PROVE \E good :
        good = {disk'[f]} /\ CatchFit(f, good)'
    BY CatchNext
  <2>1. PICK good : good = {disk[f]} OBVIOUS
  <2> DEFINE q == QueueEnds(Worked(f, good), queue, f, good, {})
             x == Ends(q, pend, f, good)
             y == Ends(q, pend', f, good)
  <2>2. q \in BOOLEAN /\ x \in BOOLEAN /\ y \in BOOLEAN BY YesOrNo
  <2>3. Ends(TRUE, os, f, good) BY <2>1 DEF OsFits
  <2>4. \A b \in BOOLEAN : Ends(b, os, f, good)
            <=> Ends(Fixes(e, f, good) \/ (b /\ ~Spoils(e, f, good)), Tail(os), f, good)
    BY <1>1, <1>2, HeadApplies DEF e
  <2>5. Worked(f, good)' <=> Worked(f, good) BY <1>1, OutsideIsKept
  <2>6. Ends(QueueEnds(Worked(f, good)', queue', f, good, {}), pend', f, good) <=> y
    BY <1>1, <2>5 DEF Ends, QueueEnds
  <2>7. SUFFICES Ends(y, Tail(os), f, good) BY <1>1, <2>1, <2>6, <2>7 DEF CatchFit, Ends
  <2> HIDE DEF q
  <2>8. CASE Fixing(Tail(os), f, good) BY <2>8 DEF Ends
  <2>9. CASE ~Fixing(Tail(os), f, good)
    <3>1. Clean(Tail(os), f, good) /\ (Fixes(e, f, good) \/ ~Spoils(e, f, good))
      BY <2>3, <2>4, <2>9 DEF Ends
    <3>2. SUFFICES y BY <3>1 DEF Ends
    <3>3. CASE f \in {e.file, e.to}
      <4>1. Fixes(e, f, good) /\ ~Spoils(e, f, good)
        BY <1>3, <3>1, <3>3, EventsApply DEF Fixes, Spoils, Events
      <4>2. CASE same = {}
        <5>1. pend' = Append(pend, e) BY <1>1, <4>2
        <5>2. Ends(q, Append(pend, e), f, good) BY <1>2, <1>3, <2>2, <4>1, AppendApplies
        <5> QED BY <5>1, <5>2
      <4>3. CASE same # {}
        <5>1. pend' = merged BY <1>1, <4>3
        <5>2. PICK i \in same : TRUE BY <4>3
        <5>3. i \in DOMAIN pend /\ merged[i] = e BY <1>6, <5>2 DEF same
        <5>4. ASSUME NEW j \in DOMAIN pend, j > i PROVE ~Spoils(merged[j], f, good)
          <6>1. CASE j \in same BY <1>6, <4>1, <6>1
          <6>2. CASE j \notin same
            <7>1. merged[j] = pend[j] BY <1>6, <6>2
            <7> SUFFICES ASSUME pend[j].kind # "touch", pend[j].file = f,
                  0 \notin good PROVE FALSE
              BY <7>1 DEF Spoils
            <7>2. e.kind # "remove" /\ e.to = f BY <4>1 DEF Fixes
            <7>3. hidden BY <5>2, <5>4, <7>2
            <7>4. f \in shadowed'
              <8> HIDE DEF hidden
              <8> QED BY <1>1, <7>2, <7>3
            <7> QED BY <7>4
          <6> QED BY <6>1, <6>2
        <5>5. Fixing(merged, f, good) BY <1>6, <4>1, <5>3, <5>4 DEF Fixing
        <5> QED BY <5>1, <5>5 DEF Ends
      <4> QED BY <4>2, <4>3
    <3>4. CASE f \notin {e.file, e.to}
      <4>1. ~Fixes(e, f, good) /\ ~Spoils(e, f, good) BY <1>3, <3>4, EventsApply
      <4>2. f \notin shadowed
        <5> HIDE DEF hidden
        <5> QED BY <1>1, <3>4
      <4>3. x
        <5>1. CatchFit(f, good) BY <2>1, <4>2 DEF WillCatchUp
        <5>2. Ends(x, os, f, good) BY <5>1 DEF CatchFit, q
        <5>3. Ends(x, os, f, good)
                <=> Ends(Fixes(e, f, good) \/ (x /\ ~Spoils(e, f, good)), Tail(os), f,
                  good)
          <6> HIDE DEF x
          <6> QED BY <2>2, <2>4
        <5>4. Fixes(e, f, good) \/ (x /\ ~Spoils(e, f, good)) BY <2>9, <5>2, <5>3 DEF Ends
        <5> QED BY <4>1, <5>4
      <4>4. CASE same = {}
        <5>1. pend' = Append(pend, e) BY <1>1, <4>4
        <5>2. Ends(q, Append(pend, e), f, good) <=>
                Fixes(e, f, good) \/ (x /\ ~Spoils(e, f, good))
          BY <1>2, <1>3, <2>2, AppendApplies
        <5> QED BY <4>1, <4>3, <5>1, <5>2
      <4>5. CASE same # {}
        <5>1. pend' = merged BY <1>1, <4>5
        <5>2. ASSUME NEW i \in DOMAIN pend
              PROVE  /\ Fixes(merged[i], f, good) <=> Fixes(pend[i], f, good)
                     /\ Spoils(merged[i], f, good) <=> Spoils(pend[i], f, good)
          <6>1. CASE i \in same
            <7>1. pend[i].file # f /\ pend[i].to # f BY <1>5, <3>4, <6>1
            <7>2. ~Fixes(pend[i], f, good) /\ ~Spoils(pend[i], f, good)
              BY <1>4, <7>1, EventsApply
            <7> QED BY <1>6, <4>1, <6>1, <7>2
          <6>2. CASE i \notin same BY <1>6, <6>2
          <6> QED BY <6>1, <6>2
        <5>3. Fixing(merged, f, good) <=> Fixing(pend, f, good) BY <1>6, <5>2 DEF Fixing
        <5>4. Clean(merged, f, good) <=> Clean(pend, f, good) BY <1>6, <5>2 DEF Clean
        <5> QED BY <4>3, <5>1, <5>3, <5>4 DEF Ends
      <4> QED BY <4>4, <4>5
    <3> QED BY <3>3, <3>4
  <2> QED BY <2>8, <2>9
<1> QED BY <1>7, <1>8, <1>9

(* The process dies: every promise to a query is void, and the next index  *)
(* is built from the disk.                                                 *)
LEMMA DeathPromises ==
    ASSUME Shape, ProcessDies
    PROVE  OsFits' /\ SinceFits' /\ WillCatchUp'
<1> USE DEF Shape
<1> DEFINE wasTorn == {f \in Files : cache # None /\ cache[f].text # cache[f].meta}
<1>1. /\ os' = <<>> /\ pend' = <<>> /\ queue' = <<>> /\ worker' = Idle /\ manager' = None
      /\ events' = <<>> /\ thread' = "idle" /\ UNCHANGED <<disk, cache>>
      /\ shadowed' = wasTorn
      /\ since' = [f \in Files |-> IF f \in wasTorn THEN {} ELSE {disk[f]}]
  BY DEF ProcessDies
<1>2. worker'.cmd = "none" /\ worker'.read = <<>> /\ worker'.todo = <<>> BY <1>1 DEF Idle
<1>3. \A f \in Files : f \notin wasTorn =>
        ~(cache # None /\ cache[f].text # cache[f].meta) OBVIOUS
<1> HIDE DEF wasTorn
<1>4. ASSUME NEW f \in Files, f \notin wasTorn, NEW good
      PROVE  Base(f, good)' /\ (Worked(f, good)' <=> TRUE)
  <2>1. Base(f, good)' BY <1>1, <1>2, <1>3, <1>4 DEF Base, Torn
  <2>2. Todo' = <<>> BY <1>2 DEF Todo
  <2>3. Ends(TRUE, <<>>, f, good) BY EmptyApplies
  <2> QED BY <1>1, <2>1, <2>2, <2>3 DEF Worked, Ends
<1>5. ASSUME NEW f \in Files, f \notin wasTorn, NEW good, good = {disk[f]}
      PROVE  SinceFit(f, good)' /\ CatchFit(f, good)'
  <2>1. Worked(f, good)' <=> TRUE BY <1>4, <1>5
  <2>2. \A stops : QueueEnds(TRUE, <<>>, f, good, stops) BY EmptyQueueEnds
  <2>3. Ends(TRUE, <<>>, f, good) /\ Clean(<<>>, f, good) BY EmptyApplies
  <2>4. \A stops : QueueEnds(Worked(f, good)', queue', f, good, stops)
    BY <1>1, <2>1, <2>2 DEF QueueEnds
  <2>5. SinceFit(f, good)' BY <1>1, <1>5, <2>3, <2>4 DEF SinceFit
  <2>6. Ends(Ends(QueueEnds(Worked(f, good)', queue', f, good, {}), pend', f, good),
          os', f, good)
    BY <1>1, <2>3, <2>4 DEF Ends
  <2> QED BY <2>5, <2>6 DEF CatchFit
<1>6. OsFits'
  <2>1. \A f \in Files : Ends(TRUE, <<>>, f, {disk[f]}) BY EmptyApplies
  <2> QED BY <1>1, <2>1, OsNext
<1>7. SinceFits'
  <2> SUFFICES ASSUME NEW f \in Files, since'[f] # {}
               PROVE  \E good : good = since'[f] /\ SinceFit(f, good)'
    BY SinceNext
  <2>1. PICK good : good = {disk[f]} OBVIOUS
  <2>2. f \notin wasTorn /\ since'[f] = good BY <1>1, <2>1
  <2> QED BY <1>5, <2>1, <2>2
<1>8. WillCatchUp'
  <2> SUFFICES ASSUME NEW f \in Files \ wasTorn PROVE \E good :
        good = {disk'[f]} /\ CatchFit(f, good)'
    BY <1>1, CatchNext
  <2>1. PICK good : good = {disk[f]} OBVIOUS
  <2> QED BY <1>1, <1>5, <2>1
<1> QED BY <1>6, <1>7, <1>8

(* Nothing is promised at first. *)
LEMMA InitPromises == ASSUME GraphInit PROVE OsFits /\ SinceFits /\ WillCatchUp
<1>1. /\ os = <<>> /\ pend = <<>> /\ queue = <<>> /\ worker = Idle /\ manager = None
      /\ events = <<>> /\ thread = "idle" /\ cache = None
      /\ since = [f \in Files |-> {disk[f]}]
  BY DEF GraphInit
<1>2. worker.cmd = "none" /\ worker.read = <<>> /\ worker.todo = <<>> BY <1>1 DEF Idle
<1>3. ASSUME NEW f \in Files, NEW good, good = {disk[f]}
      PROVE  SinceFit(f, good) /\ CatchFit(f, good) /\ Ends(TRUE, os, f, good)
  <2>1. Base(f, good) BY <1>1, <1>2 DEF Base, Torn
  <2>2. Todo = <<>> BY <1>2 DEF Todo
  <2>3. Ends(TRUE, <<>>, f, good) /\ Clean(<<>>, f, good) BY EmptyApplies
  <2>4. Worked(f, good) BY <1>1, <2>1, <2>2, <2>3 DEF Worked, Ends
  <2>5. \A stops : QueueEnds(TRUE, <<>>, f, good, stops) BY EmptyQueueEnds
  <2>6. \A stops : QueueEnds(Worked(f, good), queue, f, good, stops)
    BY <1>1, <2>4, <2>5 DEF QueueEnds
  <2>7. SinceFit(f, good) BY <1>1, <1>3, <2>3, <2>6 DEF SinceFit
  <2>8. Ends(Ends(QueueEnds(Worked(f, good), queue, f, good, {}), pend, f, good), os, f,
          good)
    BY <1>1, <2>3, <2>6 DEF Ends
  <2> QED BY <1>1, <2>3, <2>7, <2>8 DEF CatchFit
<1>4. OsFits BY <1>3 DEF OsFits
<1>5. SinceFits BY <1>1, <1>3 DEF SinceFits
<1>6. WillCatchUp BY <1>3 DEF WillCatchUp
<1> QED BY <1>4, <1>5, <1>6

(* What a reader finds stays right while it reads, and is right when the   *)
(* fence lets it read.                                                     *)
LEMMA ReaderIsRight ==
    ASSUME Shape, WorkerStep, NEW f \in Files, NEW good, SinceFit(f, good),
      thread' = "reading"
    PROVE  /\ worker'.cmd \in {"none", "events"} /\ manager'[f].text \in good
           /\ Base(f, good)' /\ Clean(Todo', f, good) /\ QueueClean(queue', f, good)
<1> USE DEF Shape
<1> DEFINE Goal == /\ worker'.cmd \in {"none", "events"} /\ manager'[f].text \in good
                   /\ Base(f, good)' /\ Clean(Todo', f, good)
                   /\ QueueClean(queue', f, good)
<1>1. disk[f] \in good BY DEF SinceFit
<1>2. thread = "reading" => /\ worker.cmd \in {"none", "events"}
        /\ manager[f].text \in good
                            /\ Base(f, good) /\ Clean(Todo, f, good)
                            /\ QueueClean(queue, f, good)
  BY DEF SinceFit
<1>3. worker \in Works BY DEF GraphTypes, Works
<1>4. CASE Take
  <2> DEFINE c == Head(queue)
  <2>1. queue # <<>> /\ queue' = Tail(queue) /\ worker = Idle /\ UNCHANGED manager
    BY <1>4 DEF Take
  <2>2. queue \in Seq(Orders) BY DEF GraphTypes
  <2>3. /\ c \in Orders /\ c.events \in Seq(Events)
        /\ QueueClean(queue, f, good) => /\ Clean(c.events, f, good)
                                         /\ QueueClean(Tail(queue), f, good)
    BY <2>1, <2>2, QueueTaken
  <2>4. worker.cmd = "none" /\ Todo = <<>> BY <2>1, WorkTyped DEF Idle
  <2>5. 1 \in DOMAIN queue /\ queue[1] = c
    <3>1. Len(queue) \in Nat \ {0} /\ DOMAIN queue = 1 .. Len(queue)
      BY <2>1, <2>2, EmptySeq
    <3> QED BY <2>2, <3>1
  <2> HIDE DEF c
  <2>6. CASE thread = "reading"
    <3>1. c.cmd \notin Blocking BY <2>5, <2>6 DEF ThreadFits, Blocking
    <3>2. manager # None BY <2>6 DEF ThreadFits
    <3>3. \/ c.cmd = "events" /\ Work("events", c.events, manager, FALSE)
          \/ UNCHANGED <<worker, cache>>
      <4>1. c.cmd \in {"events", "request"} BY <2>3, <3>1 DEF Orders
      <4> QED BY <1>4, <3>2, <4>1 DEF Take, c
    <3>4. CASE c.cmd = "events" /\ Work("events", c.events, manager, FALSE)
      <4>1. /\ worker'.cmd = "events" /\ worker'.todo = c.events
            /\ worker'.index = manager
            /\ worker'.read = <<>>
        BY <3>4 DEF Work
      <4>2. Todo' = c.events BY <4>1 DEF Todo
      <4> QED BY <1>2, <2>1, <2>3, <2>6, <4>1, <4>2 DEF Base, Reads
    <3>5. CASE UNCHANGED <<worker, cache>>
      <4>1. Todo' = Todo BY <3>5 DEF Todo
      <4>2. Base(f, good)' <=> Base(f, good) BY <2>1, <3>5 DEF Base, Reads, Torn
      <4> QED BY <1>2, <2>1, <2>3, <2>6, <3>5, <4>1, <4>2
    <3> QED BY <3>3, <3>4, <3>5
  <2>7. CASE thread # "reading"
    <3>1. c.cmd = "fence" /\ UNCHANGED <<worker, events, dirty, rebuild, cache>>
      BY <1>4, <2>7 DEF Take, c
    <3>2. thread = "fence" BY <2>5, <3>1 DEF ThreadFits, Blocking
    <3>3. manager # None /\ events = <<>> BY <3>2 DEF ThreadFits, WorkFits
    <3> DEFINE b == Worked(f, good)
    <3>4. b \in BOOLEAN BY YesOrNo
    <3>5. QueueEnds(b, queue, f, good, {"fence"}) BY DEF SinceFit
    <3> HIDE DEF b
    <3>6. b /\ QueueClean(queue, f, good)
      BY <2>1, <2>2, <3>1, <3>4, <3>5, QueueTaken DEF c
    <3>7. Base(f, good)
      <4> DEFINE d == Base(f, good)
      <4>1. d \in BOOLEAN BY YesOrNo
      <4>2. Ends(Ends(d, <<>>, f, good), <<>>, f, good) BY <2>4, <3>3, <3>6 DEF b, Worked
      <4> HIDE DEF d
      <4>3. Ends(d, <<>>, f, good) \in BOOLEAN BY DEF Ends
      <4>4. d BY <4>1, <4>2, <4>3, EmptyApplies
      <4> QED BY <4>4 DEF d
    <3>8. manager[f].text \in good BY <2>4, <3>3, <3>7 DEF Base
    <3>9. Todo' = Todo BY <3>1 DEF Todo
    <3>10. Base(f, good)' BY <2>1, <3>1, <3>7 DEF Base, Reads, Torn
    <3>11. Clean(Todo', f, good) BY <2>4, <3>9, EmptyApplies
    <3> QED BY <2>1, <2>3, <2>4, <3>1, <3>6, <3>8, <3>10, <3>11
  <2> QED BY <2>6, <2>7
<1>5. CASE ApplyRemoval
  <2> DEFINE todo == worker.todo
             e == Head(todo)
             rest == Tail(todo)
             index == [worker.index EXCEPT ![e.file] = [text |-> 0, meta |-> 0]]
             next == IF e.kind = "rename" THEN <<Touch(e.to)>> \o rest ELSE rest
  <2>1. /\ todo # <<>> /\ e.kind # "touch" /\ UNCHANGED <<queue, thread>>
        /\ InPlace(index)
        /\ worker' = [worker EXCEPT !.index = index, !.todo = next, !.read = <<>>]
    BY <1>5 DEF ApplyRemoval, Step
  <2>2. todo \in Seq(Events) /\ e \in Events /\ rest \in Seq(Events)
          /\ worker.cmd = "events"
    BY <1>2, <2>1, WorkTyped
  <2>3. worker.read = <<>> BY <2>1 DEF WorkFits
  <2>4. worker.index \in [Files -> [text : Nat, meta : Nat]] BY <2>2 DEF WorkFits
  <2>5. index[f].text = IF f = e.file THEN 0 ELSE worker.index[f].text
    BY <2>2, <2>4 DEF Events
  <2>6. Clean(todo, f, good) /\ worker.index[f].text \in good
    BY <1>2, <2>1, <2>2, <2>3 DEF Todo, Base, Reads
  <2>7. ~Spoils(e, f, good) /\ Clean(rest, f, good)
    BY <2>1, <2>2, <2>6, HeadApplies
  <2>8. index[f].text \in good BY <2>1, <2>5, <2>6, <2>7 DEF Spoils
  <2>9. Clean(next, f, good)
    <3>1. CASE e.kind = "rename"
      <4>1. Touch(e.to) \in Events /\ Touch(e.to).kind = "touch" BY <2>2 DEF Events, Touch
      <4> DEFINE one == <<Touch(e.to)>>
      <4>2. one \in Seq(Events) BY <4>1
      <4>3. Clean(one, f, good)
        <5>1. ~Spoils(Touch(e.to), f, good) BY <4>1, EventsApply
        <5>2. DOMAIN one = {1} /\ one[1] = Touch(e.to) OBVIOUS
        <5> QED BY <5>1, <5>2 DEF Clean
      <4> HIDE DEF one, rest
      <4>4. Clean(one \o rest, f, good) BY <2>2, <2>7, <4>2, <4>3, CatApplies
      <4> QED BY <3>1, <4>4 DEF one
    <3>2. CASE e.kind # "rename" BY <2>7, <3>2
    <3> QED BY <3>1, <3>2
  <2> HIDE DEF index, next
  <2>10. worker'.cmd = "events" /\ worker'.index = index /\ worker'.todo = next
           /\ worker'.read = <<>>
    BY <1>3, <2>1, <2>2 DEF Works
  <2>11. manager' = index BY <2>1, <2>2 DEF InPlace
  <2>12. Todo' = next BY <2>10 DEF Todo
  <2>13. Base(f, good)' BY <2>8, <2>10 DEF Base, Reads
  <2> QED BY <1>2, <2>1, <2>8, <2>9, <2>10, <2>11, <2>12, <2>13
<1>6. CASE ReadFile
  <2> DEFINE todo == worker.todo
             e == Head(todo)
  <2>1. /\ todo # <<>> /\ e.kind = "touch" /\ worker.read = <<>>
        /\ UNCHANGED <<queue, thread>>
        /\ InPlace(worker.index)
        /\ worker' = [worker EXCEPT !.index = worker.index, !.todo = todo,
             !.read = <<disk[e.file]>>]
    BY <1>6 DEF ReadFile, Step
  <2>2. todo \in Seq(Events) /\ e \in Events /\ worker.cmd = "events"
    BY <1>2, <2>1, WorkTyped
  <2>3. worker'.cmd = "events" /\ worker'.index = worker.index /\ worker'.todo = todo
        /\ worker'.read = <<disk[e.file]>> /\ worker'.read # <<>>
        /\ Head(worker'.read) = disk[e.file]
    BY <1>3, <2>1, <2>2 DEF Works
  <2>4. manager' = worker.index BY <2>1, <2>2 DEF InPlace
  <2>5. Clean(todo, f, good) /\ worker.index[f].text \in good
    BY <1>2, <2>1, <2>2 DEF Todo, Base, Reads
  <2>6. Clean(Tail(todo), f, good) BY <2>1, <2>2, <2>5, HeadApplies
  <2>7. Todo' = Tail(todo) BY <2>3 DEF Todo
  <2>8. Base(f, good)' BY <1>1, <2>3, <2>5 DEF Base, Reads
  <2> QED BY <1>2, <2>1, <2>3, <2>4, <2>5, <2>6, <2>7, <2>8
<1>7. CASE StatFile
  <2> DEFINE todo == worker.todo
             e == Head(todo)
             text == Head(worker.read)
             entry == IF text = 0 THEN [text |-> 0, meta |-> 0] ELSE [text |-> text,
               meta |-> disk[e.file]]
             index == [worker.index EXCEPT ![e.file] = entry]
  <2>1. /\ worker.read # <<>> /\ UNCHANGED <<queue, thread>> /\ InPlace(index)
        /\ worker' = [worker EXCEPT !.index = index, !.todo = Tail(todo), !.read = <<>>]
    BY <1>7 DEF StatFile, Step
  <2>2. todo \in Seq(Events) /\ e \in Events /\ worker.cmd = "events"
    BY <1>2, <2>1, WorkTyped DEF WorkFits
  <2>3. worker.index \in [Files -> [text : Nat, meta : Nat]] BY <2>2 DEF WorkFits
  <2>4. entry.text = text OBVIOUS
  <2> HIDE DEF entry
  <2>5. index[f].text = IF f = e.file THEN text ELSE worker.index[f].text
    BY <2>2, <2>3, <2>4 DEF Events
  <2> HIDE DEF index
  <2>6. worker'.cmd = "events" /\ worker'.index = index /\ worker'.todo = Tail(todo)
        /\ worker'.read = <<>>
    BY <1>3, <2>1, <2>2 DEF Works
  <2>7. manager' = index BY <2>1, <2>2 DEF InPlace
  <2>8. index[f].text \in good BY <1>2, <2>1, <2>2, <2>5 DEF Base, Reads
  <2>9. Todo' = Tail(todo) /\ Todo = Tail(todo) BY <2>1, <2>6 DEF Todo
  <2>10. Base(f, good)' BY <2>6, <2>8 DEF Base, Reads
  <2> QED BY <1>2, <2>1, <2>6, <2>7, <2>8, <2>9, <2>10
<1>8. CASE Replay
  <2>1. worker.replay /\ UNCHANGED thread BY <1>8 DEF Replay
  <2>2. worker.cmd \notin {"none", "events"} BY <2>1, WorkTyped DEF WorkFits
  <2> QED BY <1>2, <2>1, <2>2
<1>9. CASE Finish
  <2>1. /\ worker # Idle /\ worker.todo = <<>> /\ worker' = Idle
        /\ manager' = worker.index
    BY <1>9 DEF Finish
  <2>2. worker.cmd # "none" /\ worker.read = <<>>
          /\ worker.cmd \in {"events", "load", "ensure", "rebuild"}
    BY <1>3, <2>1 DEF WorkFits, Works
  <2>3. worker.cmd = "events" /\ UNCHANGED <<thread, queue>> BY <1>9, <2>2 DEF Finish
  <2>4. worker'.cmd = "none" /\ worker'.read = <<>> /\ worker'.todo = <<>>
    BY <2>1 DEF Idle
  <2>5. worker.index[f].text \in good BY <1>2, <2>2, <2>3 DEF Base, Reads
  <2>6. Todo' = <<>> BY <2>4 DEF Todo
  <2>7. manager' = manager /\ manager # None BY <2>1, <2>3 DEF WorkFits
  <2>8. Base(f, good)' BY <2>1, <2>4, <2>5, <2>7 DEF Base
  <2>9. Clean(Todo', f, good) BY <2>6, EmptyApplies
  <2> QED BY <1>2, <2>1, <2>3, <2>4, <2>5, <2>8, <2>9
<1> QED BY <1>4, <1>5, <1>6, <1>7, <1>8, <1>9 DEF WorkerStep

(* The worker's steps keep all promises. *)
LEMMA WorkPromises ==
    ASSUME Shape, OsFits, SinceFits, WillCatchUp, WorkerStep
    PROVE  OsFits' /\ SinceFits' /\ WillCatchUp'
<1> USE DEF Shape
<1>1. UNCHANGED <<disk, os, pend, since, shadowed>>
  BY DEF WorkerStep, Take, ApplyRemoval, ReadFile, StatFile, Step, Replay, Finish
<1>2. OsFits' BY <1>1 DEF OsFits
<1>3. SinceFits'
  <2> SUFFICES ASSUME NEW f \in Files, since'[f] # {}
               PROVE  \E good : good = since'[f] /\ SinceFit(f, good)'
    BY SinceNext
  <2>1. PICK good : good = since[f] OBVIOUS
  <2>2. SinceFit(f, good) BY <1>1, <2>1 DEF SinceFits
  <2>3. disk[f] \in good /\ QueueEnds(Worked(f, good), queue, f, good, {"fence"})
    BY <2>2 DEF SinceFit
  <2>4. QueueEnds(Worked(f, good)', queue', f, good, {"fence"}) BY <2>3, WorkIsRight
  <2>5. thread' = "reading" =>
           /\ worker'.cmd \in {"none", "events"} /\ manager'[f].text \in good
           /\ Base(f, good)' /\ Clean(Todo', f, good) /\ QueueClean(queue', f, good)
    BY <2>2, ReaderIsRight
  <2>6. SinceFit(f, good)' BY <1>1, <2>2, <2>4, <2>5 DEF SinceFit
  <2> QED BY <1>1, <2>1, <2>6
<1>4. WillCatchUp'
  <2> SUFFICES ASSUME NEW f \in Files \ shadowed PROVE \E good :
        good = {disk'[f]} /\ CatchFit(f, good)'
    BY <1>1, CatchNext
  <2>1. PICK good : good = {disk[f]} OBVIOUS
  <2>2. CatchFit(f, good) /\ disk[f] \in good BY <2>1 DEF WillCatchUp
  <2> DEFINE q == QueueEnds(Worked(f, good), queue, f, good, {})
             r == QueueEnds(Worked(f, good)', queue', f, good, {})
  <2>3. q => r BY <2>2, WorkIsRight
  <2>4. Ends(Ends(q, pend, f, good), os, f, good) BY <2>2 DEF CatchFit
  <2>5. Ends(Ends(r, pend, f, good), os, f, good)
    <3> HIDE DEF q, r
    <3> QED BY <2>3, <2>4 DEF Ends
  <2>6. CatchFit(f, good)' BY <1>1, <2>5 DEF CatchFit
  <2> QED BY <1>1, <2>1, <2>6
<1> QED BY <1>2, <1>3, <1>4

-----------------------------------------------------------------------------
(* A file changes, by a tool or without it. *)
LEMMA DiskPromises ==
    ASSUME GraphInv, DiskChanges \/ \E f \in Files : ToolWrites(f)
    PROVE  GraphInv'
<1> USE DEF GraphInv
<1>1. PICK new, e : /\ Changing(new, e) /\ Change(new, e) /\ Undisturbed
        /\ UNCHANGED <<pend, queue, shadowed>>
                    /\ thread' \in Files \cup {thread}
                    /\ (thread' # thread => thread = "idle")
  <2>1. CASE DiskChanges
    <3>1. Undisturbed /\ UNCHANGED <<pend, queue, shadowed, thread>>
      BY <2>1 DEF DiskChanges, Undisturbed
    <3>2. PICK f \in Files :
            \/ Change([disk EXCEPT ![f] = changes + 1], Touch(f))
            \/ Change([disk EXCEPT ![f] = 0], Removed(f))
            \/ \E g \in Files \ {f} :
                 Change([disk EXCEPT ![f] = 0, ![g] = changes + 1], Rename(f, g))
      BY <2>1 DEF DiskChanges
    <3> QED BY <3>1, <3>2, ChangesAre
  <2>2. ASSUME NEW f \in Files, ToolWrites(f)
        PROVE  /\ Changing([disk EXCEPT ![f] = changes + 1], Touch(f))
               /\ Change([disk EXCEPT ![f] = changes + 1], Touch(f))
               /\ Undisturbed /\ UNCHANGED <<pend, queue, shadowed>>
               /\ thread' \in Files \cup {thread} /\ (thread' # thread => thread = "idle")
    BY <2>2, ChangesAre DEF ToolWrites, Undisturbed
  <2> QED BY <2>1, <2>2
<1>2. Shape' BY <1>1, ChangeShapes DEF Shape
<1>3. thread' = "reading" => thread = "reading" BY <1>1, FilesApart
<1>4. OsFits' /\ SinceFits' /\ WillCatchUp' BY <1>1, <1>3, ChangePromises DEF Shape
<1> QED BY <1>2, <1>4 DEF Shape

(* Every step keeps the invariant. *)
LEMMA IndexSteps == ASSUME GraphInv, [GraphNext]_graph PROVE GraphInv'
<1>0. GraphInv <=> Shape /\ OsFits /\ SinceFits /\ WillCatchUp BY DEF GraphInv, Shape
<1>1. CASE DiskChanges \/ \E f \in Files : ToolWrites(f) BY <1>1, DiskPromises
<1>2. CASE Push BY <1>0, <1>2, PushShapes, PushPromises DEF GraphInv, Shape
<1>3. CASE Fire BY <1>0, <1>3, FireShapes, FirePromises DEF GraphInv, Shape
<1>4. CASE MarkDirty BY <1>0, <1>4, MarkShapes, MarkPromises DEF GraphInv, Shape
<1>5. CASE \E cmd \in {"ensure", "rebuild", "request"} : Ask(cmd)
  <2>1. Shape' BY <1>0, <1>5, AskShapes
  <2> QED BY <1>0, <1>5, <2>1, AskPromises DEF GraphInv, Shape
<1>6. CASE ReadFence BY <1>0, <1>6, FenceShapes, AskPromises DEF GraphInv, Shape
<1>7. CASE Read BY <1>0, <1>7, ReadShapes, ReadPromises DEF GraphInv, Shape
<1>8. CASE WorkerStep
  <2>1. Shape'
    BY <1>0, <1>8, TakeShapes, RemovalShapes, ReadingShapes, StatShapes, ReplayShapes,
       FinishShapes
    DEF WorkerStep
  <2> QED BY <1>0, <1>8, <2>1, WorkPromises DEF GraphInv, Shape
<1>9. CASE ProcessDies BY <1>0, <1>9, DeathShapes, DeathPromises DEF GraphInv, Shape
<1>10. CASE UNCHANGED graph
  <2>1. Undisturbed
          /\ UNCHANGED <<disk, changes, os, pend, queue, thread, since, shadowed>>
    BY <1>10 DEF graph, Undisturbed
  <2>2. WorkFits' /\ CleanIsSaved' BY <1>0, <2>1, OutsideIsKept DEF Shape
  <2>3. GraphTypes' BY <1>0, <2>1 DEF Shape, GraphTypes, Undisturbed
  <2>4. ThreadFits' BY <1>0, <2>1, ThreadStays DEF Shape, ThreadFits, Undisturbed
  <2>5. OsFits' BY <1>0, <2>1 DEF OsFits
  <2>6. SinceFits'
    <3> SUFFICES ASSUME NEW f \in Files, since'[f] # {}
                 PROVE  \E good : good = since'[f] /\ SinceFit(f, good)'
      BY SinceNext
    <3>1. PICK good : good = since[f] OBVIOUS
    <3>2. SinceFit(f, good) BY <1>0, <2>1, <3>1 DEF SinceFits
    <3>3. /\ Worked(f, good)' <=> Worked(f, good)
          /\ Base(f, good)' <=> Base(f, good)
          /\ Todo' = Todo
      BY <1>0, <2>1, OutsideIsKept DEF Shape
    <3>4. SinceFit(f, good)' BY <2>1, <3>2, <3>3 DEF SinceFit, QueueEnds, Undisturbed
    <3> QED BY <2>1, <3>1, <3>4
  <2>7. WillCatchUp'
    <3> SUFFICES ASSUME NEW f \in Files \ shadowed PROVE \E good :
          good = {disk'[f]} /\ CatchFit(f, good)'
      BY <2>1, CatchNext
    <3>1. PICK good : good = {disk[f]} OBVIOUS
    <3>2. CatchFit(f, good) BY <1>0, <3>1 DEF WillCatchUp
    <3>3. Worked(f, good)' <=> Worked(f, good) BY <1>0, <2>1, OutsideIsKept DEF Shape
    <3>4. CatchFit(f, good)' BY <2>1, <3>2, <3>3 DEF CatchFit, Ends, QueueEnds
    <3> QED BY <2>1, <3>1, <3>4
  <2> QED BY <2>2, <2>3, <2>4, <2>5, <2>6, <2>7 DEF GraphInv
<1> QED BY <1>1, <1>2, <1>3, <1>4, <1>5, <1>6, <1>7, <1>8, <1>9, <1>10 DEF GraphNext

(* The invariant holds at first. *)
LEMMA IndexStarts == GraphInit => GraphInv
BY InitShapes, InitPromises DEF GraphInv, Shape

(* The invariant gives what the run checks. *)
LEMMA IndexPromises == GraphInv => IndexIsRight
<1> SUFFICES ASSUME GraphInv PROVE ReadsItsWrites /\ CatchesUp /\ CleanIsSaved
  BY DEF IndexIsRight
<1> USE DEF GraphInv
<1>1. ReadsItsWrites BY DEF ReadsItsWrites, SinceFits, SinceFit
<1>2. CatchesUp
  <2> SUFFICES ASSUME os \o pend \o queue \o events = <<>>, worker = Idle, manager # None,
                      NEW f \in Files \ shadowed
               PROVE  manager[f].text = disk[f]
    BY DEF CatchesUp
  <2>1. os = <<>> /\ pend = <<>> /\ queue = <<>> /\ events = <<>>
    <3>1. /\ os \in Seq(Events \cup Orders) /\ pend \in Seq(Events \cup Orders)
          /\ queue \in Seq(Events \cup Orders) /\ events \in Seq(Events \cup Orders)
      BY SeqMonotonic DEF GraphTypes
    <3> DEFINE S == Events \cup Orders
    <3> HIDE DEF S
    <3>2. os \in Seq(S) /\ pend \in Seq(S) /\ queue \in Seq(S) /\ events \in Seq(S)
      BY <3>1 DEF S
    <3>3. Len(os) + Len(pend) + Len(queue) + Len(events) = 0 BY <3>2
    <3>4. Len(os) = 0 /\ Len(pend) = 0 /\ Len(queue) = 0 /\ Len(events) = 0 BY <3>2, <3>3
    <3> QED BY <3>2, <3>4
  <2>2. PICK good : good = {disk[f]} OBVIOUS
  <2>3. CatchFit(f, good) BY <2>2 DEF WillCatchUp
  <2>4. worker.cmd = "none" /\ Todo = <<>> BY WorkTyped DEF Idle
  <2> DEFINE b == Base(f, good)
             w == Worked(f, good)
             q == QueueEnds(w, <<>>, f, good, {})
  <2>5. b \in BOOLEAN /\ w \in BOOLEAN /\ q \in BOOLEAN BY YesOrNo
  <2>6. Ends(Ends(q, <<>>, f, good), <<>>, f, good) BY <2>1, <2>3 DEF CatchFit
  <2>7. w = Ends(Ends(b, <<>>, f, good), <<>>, f, good) BY <2>1, <2>4 DEF Worked
  <2>8. \A x \in BOOLEAN : /\ Ends(x, <<>>, f, good) <=> x
                           /\ QueueEnds(x, <<>>, f, good, {}) <=> x
    BY EmptyApplies, EmptyQueueEnds
  <2>9. q => w BY <2>5, <2>8
  <2> HIDE DEF b, w, q
  <2>10. Ends(q, <<>>, f, good) \in BOOLEAN /\ Ends(b, <<>>, f, good) \in BOOLEAN
    BY DEF Ends
  <2>11. q BY <2>5, <2>6, <2>8, <2>10
  <2>12. b BY <2>5, <2>7, <2>8, <2>9, <2>10, <2>11
  <2> QED BY <2>2, <2>4, <2>12 DEF Base, b
<1> QED BY <1>1, <1>2

(* For any finite set of files: a query finds of every file a version that *)
(* was on the disk after the session's last write of it, and once          *)
(* everything on its way has arrived the index is the disk, renames,       *)
(* removals, a rebuild and a restart in between (graph/index_manager.py,   *)
(* runtime.py, watcher.py).                                                *)
THEOREM IndexIsSound == GraphSpec => []IndexIsRight
<1>1. GraphInv /\ [GraphNext]_graph => GraphInv' BY IndexSteps
<1> QED BY <1>1, IndexStarts, IndexPromises, PTL DEF GraphSpec

-----------------------------------------------------------------------------
(* The transcript (LiveHistory, ToolPairs). *)

(* Induction over the numbers up to n: what is true of 0 and goes on is    *)
(* true of all of them.                                                    *)
LEMMA Induct ==
    ASSUME NEW n \in Nat, NEW good, 0 \in good,
           \A i \in 0 .. n - 1 : i \in good => i + 1 \in good
    PROVE  0 .. n \subseteq good
<1> DEFINE bad == {i \in 0 .. n : i \notin good}
<1> SUFFICES ASSUME bad # {} PROVE FALSE OBVIOUS
<1>1. bad \in SUBSET Nat OBVIOUS
<1>2. \A i \in bad : i \in 0 .. n /\ i \notin good OBVIOUS
<1>3. \A i \in 0 .. n : i \notin good => i \in bad OBVIOUS
<1> HIDE DEF bad
<1>4. PICK m \in bad : \A k \in bad : ~(<<k, m>> \in OpToRel(<, Nat))
  BY <1>1, NatLessThanWellFounded, WFMin
<1>5. m \in 1 .. n /\ m - 1 \in 0 .. n - 1 /\ m - 1 \in 0 .. n /\ (m - 1) + 1 = m BY <1>2
<1>6. m - 1 \notin bad
  <2>1. m - 1 \in Nat /\ m \in Nat /\ m - 1 < m BY <1>5
  <2>2. <<m - 1, m>> \in OpToRel(<, Nat) BY <2>1 DEF OpToRel
  <2> QED BY <1>4, <2>2
<1> QED BY <1>2, <1>3, <1>5, <1>6

(* g is what n steps of G make of b, all of them in V.                     *)
Iterated(V, n, b, G, g) ==
    g \in [0 .. n -> V] /\ g[0] = b /\ \A i \in 1 .. n : g[i] = G[<<i, g[i - 1]>>]

(* What is defined step by step exists.                                    *)
LEMMA Iterates ==
    ASSUME NEW V, NEW n \in Nat, NEW b \in V, NEW G \in [(1 .. n) \X V -> V]
    PROVE  \E g : Iterated(V, n, b, G, g)
<1> DEFINE Runs(m, g) == g[0] = b /\ \A i \in 1 .. m : g[i] = G[<<i, g[i - 1]>>]
           good == {m \in 0 .. n : \E g \in [0 .. m -> V] : Runs(m, g)}
<1>1. 0 \in good
  <2>1. [i \in 0 .. 0 |-> b] \in [0 .. 0 -> V] OBVIOUS
  <2>2. Runs(0, [i \in 0 .. 0 |-> b]) OBVIOUS
  <2>3. \E g \in [0 .. 0 -> V] : Runs(0, g) BY <2>1, <2>2
  <2>4. 0 \in 0 .. n OBVIOUS
  <2> HIDE DEF Runs
  <2> QED BY <2>3, <2>4
<1>2. ASSUME NEW m \in 0 .. n - 1, m \in good PROVE m + 1 \in good
  <2>1. PICK g \in [0 .. m -> V] : Runs(m, g) BY <1>2
  <2> DEFINE h == [i \in 0 .. m + 1 |-> IF i = m + 1 THEN G[<<m + 1, g[m]>>] ELSE g[i]]
  <2>2. m + 1 \in 1 .. n /\ m \in 0 .. m OBVIOUS
  <2>3. G[<<m + 1, g[m]>>] \in V BY <2>2
  <2>4. h \in [0 .. m + 1 -> V]
    <3>1. ASSUME NEW i \in 0 .. m + 1 PROVE (IF i = m + 1 THEN G[<<m + 1, g[m]>>] ELSE g[i]) \in V
      <4>1. CASE i = m + 1 BY <2>3, <4>1
      <4>2. CASE i # m + 1
        <5>1. i \in 0 .. m BY <4>2
        <5> QED BY <4>2, <5>1
      <4> QED BY <4>1, <4>2
    <3> QED BY <3>1
  <2>5. \A i \in 0 .. m : h[i] = g[i]
    <3>1. \A i \in 0 .. m : i \in 0 .. m + 1 /\ i # m + 1 OBVIOUS
    <3> QED BY <3>1
  <2>6. h[m + 1] = G[<<m + 1, h[m]>>]
    <3>1. m + 1 \in 0 .. m + 1 OBVIOUS
    <3> QED BY <2>2, <2>5, <3>1
  <2> HIDE DEF h
  <2>7. ASSUME NEW i \in 1 .. m + 1 PROVE h[i] = G[<<i, h[i - 1]>>]
    <3>1. CASE i = m + 1 BY <2>6, <3>1
    <3>2. CASE i # m + 1
      <4>1. i \in 1 .. m /\ i \in 0 .. m /\ i - 1 \in 0 .. m BY <3>2
      <4> QED BY <2>1, <2>5, <4>1
    <3> QED BY <3>1, <3>2
  <2>8. h[0] = b
    <3>1. 0 \in 0 .. m OBVIOUS
    <3> QED BY <2>1, <2>5, <3>1
  <2>9. Runs(m + 1, h) BY <2>7, <2>8
  <2>10. m + 1 \in 0 .. n OBVIOUS
  <2> QED BY <2>4, <2>9, <2>10
<1>3. \A m \in good : \E g \in [0 .. m -> V] : Runs(m, g) OBVIOUS
<1> HIDE DEF good
<1>4. n \in good BY <1>1, <1>2, Induct
<1>5. PICK g \in [0 .. n -> V] : Runs(n, g) BY <1>3, <1>4
<1> QED BY <1>5 DEF Iterated

(* The messages picked so far.                                             *)
LEMMA PicksAre ==
    ASSUME NEW T, NEW s \in Seq(T), NEW P
    PROVE  /\ Picks(s, P) \in [0 .. Len(s) -> Seq(T)] /\ Picks(s, P)[0] = <<>>
           /\ \A n \in 1 .. Len(s) :
                Picks(s, P)[n] = IF n \in P THEN Append(Picks(s, P)[n - 1], s[n])
                                            ELSE Picks(s, P)[n - 1]
<1> DEFINE Z == Len(s)
           F(f) == f = [n \in 0 .. Z |-> IF n = 0 THEN <<>>
                                         ELSE IF n \in P THEN Append(f[n - 1], s[n]) ELSE f[n - 1]]
           G == [p \in (1 .. Z) \X Seq(T) |-> IF p[1] \in P THEN Append(p[2], s[p[1]]) ELSE p[2]]
<1>1. Z \in Nat OBVIOUS
<1>2. G \in [(1 .. Z) \X Seq(T) -> Seq(T)]
  <2>1. ASSUME NEW p \in (1 .. Z) \X Seq(T)
        PROVE (IF p[1] \in P THEN Append(p[2], s[p[1]]) ELSE p[2]) \in Seq(T)
    <3>1. p[2] \in Seq(T) /\ s[p[1]] \in T OBVIOUS
    <3> QED BY <3>1, AppendProperties
  <2> QED BY <2>1
<1>3. <<>> \in Seq(T) OBVIOUS
<1>4. \A i \in 1 .. Z, q \in Seq(T) : G[<<i, q>>] = IF i \in P THEN Append(q, s[i]) ELSE q
  OBVIOUS
<1> HIDE DEF G
<1>5. PICK g \in [0 .. Z -> Seq(T)] : g[0] = <<>> /\ \A i \in 1 .. Z : g[i] = G[<<i, g[i - 1]>>]
  <2> HIDE DEF Z
  <2>1. \E g : Iterated(Seq(T), Z, <<>>, G, g) BY <1>1, <1>2, <1>3, Iterates
  <2> QED BY <2>1 DEF Iterated
<1>6. \A i \in 1 .. Z : g[i - 1] \in Seq(T)
      /\ g[i] = IF i \in P THEN Append(g[i - 1], s[i]) ELSE g[i - 1]
  <2>1. \A i \in 1 .. Z : i - 1 \in 0 .. Z BY <1>1
  <2> QED BY <1>4, <1>5, <2>1
<1>7. F(g)
  <2>1. \A i \in 0 .. Z : i = 0 \/ i \in 1 .. Z BY <1>1
  <2>2. \A i \in 0 .. Z : g[i] = IF i = 0 THEN <<>>
                                 ELSE IF i \in P THEN Append(g[i - 1], s[i]) ELSE g[i - 1]
    BY <1>5, <1>6, <2>1
  <2> QED BY <1>5, <2>2
<1>8. Picks(s, P) = CHOOSE f : F(f) BY DEF Picks
<1>9. F(Picks(s, P)) BY <1>7, <1>8
<1>10. ASSUME NEW f, F(f) PROVE f = g
  <2> DEFINE good == {n \in 0 .. Z : f[n] = g[n]}
  <2>1. f[0] = <<>> /\ \A n \in 1 .. Z : f[n] = IF n \in P THEN Append(f[n - 1], s[n]) ELSE f[n - 1]
    <3>1. 0 \in 0 .. Z /\ \A n \in 1 .. Z : n \in 0 .. Z /\ n # 0 BY <1>1
    <3> QED BY <1>10, <3>1
  <2>2. 0 \in good BY <1>1, <1>5, <2>1
  <2>3. ASSUME NEW n \in 0 .. Z - 1, n \in good PROVE n + 1 \in good
    <3>1. n + 1 \in 1 .. Z /\ (n + 1) - 1 = n /\ n + 1 \in 0 .. Z BY <1>1
    <3> QED BY <1>6, <2>1, <2>3, <3>1
  <2>4. \A n \in good : f[n] = g[n] OBVIOUS
  <2> HIDE DEF good, Z
  <2>5. 0 .. Z \subseteq good BY <1>1, <2>2, <2>3, Induct
  <2>6. f = [n \in 0 .. Z |-> f[n]] BY <1>10
  <2>7. g = [n \in 0 .. Z |-> g[n]] BY <1>5
  <2> QED BY <2>4, <2>5, <2>6, <2>7
<1>11. Picks(s, P) = g BY <1>9, <1>10
<1> QED BY <1>5, <1>6, <1>11

(* What was picked is at one of the positions.                             *)
LEMMA PickedFrom ==
    ASSUME NEW T, NEW s \in Seq(T), NEW P
    PROVE  Picked(s, P) \in Seq({s[j] : j \in P \cap (1 .. Len(s))})
<1> DEFINE U == {s[j] : j \in P \cap (1 .. Len(s))}
           f == Picks(s, P)
           good == {n \in 0 .. Len(s) : f[n] \in Seq(U)}
<1>1. Len(s) \in Nat OBVIOUS
<1>2. 0 \in good
  <2>1. <<>> \in Seq(U) OBVIOUS
  <2> QED BY <1>1, <2>1, PicksAre
<1>3. ASSUME NEW n \in 0 .. Len(s) - 1, n \in good PROVE n + 1 \in good
  <2>1. n + 1 \in 1 .. Len(s) /\ n + 1 \in 0 .. Len(s) /\ (n + 1) - 1 = n BY <1>1
  <2>2. f[n + 1] = IF n + 1 \in P THEN Append(f[n], s[n + 1]) ELSE f[n] BY <2>1, PicksAre
  <2>3. n + 1 \in P => s[n + 1] \in U BY <2>1
  <2>4. f[n] \in Seq(U) BY <1>3
  <2> HIDE DEF U, f
  <2>5. f[n + 1] \in Seq(U) BY <2>2, <2>3, <2>4, AppendProperties
  <2> QED BY <2>1, <2>5
<1>4. \A n \in good : f[n] \in Seq(U) OBVIOUS
<1> HIDE DEF good
<1>5. Len(s) \in good
  <2>1. 0 .. Len(s) \subseteq good BY <1>1, <1>2, <1>3, Induct
  <2> QED BY <1>1, <2>1
<1> QED BY <1>4, <1>5 DEF Picked

(* How many were picked, and that the last one picked stays.               *)
LEMMA PickCounts ==
    ASSUME NEW T, NEW s \in Seq(T), NEW P, NEW k \in 0 .. Len(s)
    PROVE  \A n \in k .. Len(s) :
              /\ Len(Picks(s, P)[k]) <= Len(Picks(s, P)[n])
              /\ \A i \in 1 .. Len(Picks(s, P)[k]) : Picks(s, P)[n][i] = Picks(s, P)[k][i]
<1> DEFINE f == Picks(s, P)
           Ok(n) == /\ Len(f[k]) <= Len(f[n])
                    /\ \A i \in 1 .. Len(f[k]) : f[n][i] = f[k][i]
           good == {d \in 0 .. Len(s) - k : Ok(k + d)}
<1>1. Len(s) \in Nat /\ k \in Nat /\ Len(s) - k \in Nat OBVIOUS
<1>2. \A n \in 0 .. Len(s) : f[n] \in Seq(T) BY PicksAre
<1>3. \A n \in 1 .. Len(s) : f[n] = IF n \in P THEN Append(f[n - 1], s[n]) ELSE f[n - 1] BY PicksAre
<1> HIDE DEF f
<1>4. 0 \in good
  <2>1. Len(f[k]) \in Nat BY <1>2
  <2>2. Ok(k) BY <2>1
  <2>3. k + 0 = k BY <1>1
  <2> QED BY <1>1, <2>2, <2>3
<1>5. ASSUME NEW d \in 0 .. (Len(s) - k) - 1, d \in good PROVE d + 1 \in good
  <2> DEFINE n == k + d
  <2>1. n \in 0 .. Len(s) /\ n + 1 \in 1 .. Len(s) /\ (n + 1) - 1 = n /\ d + 1 \in 0 .. Len(s) - k
        /\ k + (d + 1) = n + 1
    BY <1>1
  <2>2. Ok(n) BY <1>5
  <2> HIDE DEF n
  <2>3. f[n + 1] = IF n + 1 \in P THEN Append(f[n], s[n + 1]) ELSE f[n] BY <1>3, <2>1
  <2>4. f[n] \in Seq(T) /\ f[k] \in Seq(T) BY <1>2, <2>1
  <2>5. s[n + 1] \in T BY <2>1
  <2>6. Ok(n + 1)
    <3>1. CASE n + 1 \notin P BY <2>2, <2>3, <3>1
    <3>2. CASE n + 1 \in P
      <4>1. f[n + 1] = Append(f[n], s[n + 1]) BY <2>3, <3>2
      <4>2. Len(f[n + 1]) = Len(f[n]) + 1 /\ \A i \in 1 .. Len(f[n]) : f[n + 1][i] = f[n][i]
        BY <2>4, <2>5, <4>1, AppendProperties
      <4>3. Len(f[n]) \in Nat /\ Len(f[k]) \in Nat BY <2>4
      <4>4. 1 .. Len(f[k]) \subseteq 1 .. Len(f[n]) BY <2>2, <4>3
      <4> QED BY <2>2, <4>2, <4>3, <4>4
    <3> QED BY <3>1, <3>2
  <2> QED BY <2>1, <2>6
<1>6. \A d \in good : Ok(k + d) OBVIOUS
<1> HIDE DEF good
<1>7. 0 .. Len(s) - k \subseteq good BY <1>1, <1>4, <1>5, Induct
<1>8. ASSUME NEW n \in k .. Len(s) PROVE Ok(n)
  <2>1. n - k \in 0 .. Len(s) - k /\ k + (n - k) = n BY <1>1
  <2> QED BY <1>6, <1>7, <2>1
<1> QED BY <1>8 DEF f

(* All of a stretch is picked, or nothing of it.                           *)
LEMMA PickStretch ==
    ASSUME NEW T, NEW s \in Seq(T), NEW P, NEW k \in 0 .. Len(s)
    PROVE  /\ k + 1 .. Len(s) \subseteq P =>
                Picked(s, P) = Picks(s, P)[k] \o SubSeq(s, k + 1, Len(s))
           /\ (k + 1 .. Len(s)) \cap P = {} => Picked(s, P) = Picks(s, P)[k]
<1> DEFINE f == Picks(s, P)
           all == {d \in 0 .. Len(s) - k : f[k + d] = f[k] \o SubSeq(s, k + 1, k + d)}
           none == {d \in 0 .. Len(s) - k : f[k + d] = f[k]}
<1>1. Len(s) \in Nat /\ k \in Nat /\ Len(s) - k \in Nat /\ k + (Len(s) - k) = Len(s) /\ k + 0 = k
  OBVIOUS
<1>2. \A n \in 0 .. Len(s) : f[n] \in Seq(T) BY PicksAre
<1>3. \A n \in 1 .. Len(s) : f[n] = IF n \in P THEN Append(f[n - 1], s[n]) ELSE f[n - 1] BY PicksAre
<1>0. Picked(s, P) = f[Len(s)] BY DEF Picked
<1> HIDE DEF f
<1>4. ASSUME NEW d \in 0 .. (Len(s) - k) - 1
      PROVE /\ d + 1 \in 0 .. Len(s) - k /\ k + d \in 0 .. Len(s) /\ k + (d + 1) \in 1 .. Len(s)
            /\ (k + (d + 1)) - 1 = k + d /\ k + (d + 1) \in k + 1 .. Len(s)
            /\ k + d \in k .. Len(s) /\ k + 1 \in 1 .. Len(s) + 1 /\ k + (d + 1) = (k + d) + 1
  BY <1>1
<1>5. ASSUME k + 1 .. Len(s) \subseteq P
      PROVE  Picked(s, P) = f[k] \o SubSeq(s, k + 1, Len(s))
  <2>1. 0 \in all
    <3>1. SubSeq(s, k + 1, k) = <<>> BY <1>1, SubSeqEmpty
    <3>2. f[k] \o <<>> = f[k] BY <1>2, ConcatEmptySeq
    <3>3. f[k + 0] = f[k] \o SubSeq(s, k + 1, k + 0) BY <1>1, <3>1, <3>2
    <3>4. 0 \in 0 .. Len(s) - k BY <1>1
    <3> QED BY <3>3, <3>4
  <2>2. ASSUME NEW d \in 0 .. (Len(s) - k) - 1, d \in all PROVE d + 1 \in all
    <3> DEFINE m == k + (d + 1)
               u == SubSeq(s, k + 1, k + d)
    <3>1. f[m] = Append(f[k + d], s[m]) BY <1>3, <1>4, <1>5
    <3>2. f[k + d] = f[k] \o u BY <2>2
    <3>3. \A i \in k + 1 .. k + d : s[i] \in T BY <1>1, <1>4
    <3>4. u \in Seq(T) BY <1>1, <1>4, <3>3, SubSeqProperties
    <3>5. s[m] \in T /\ f[k] \in Seq(T) BY <1>2, <1>4
    <3>6. SubSeq(s, k + 1, m) = u \o <<s[m]>>
      <4>1. k + 1 \in 1 .. Len(s) /\ m \in k + 1 .. Len(s) /\ m - 1 = k + d BY <1>1, <1>4
      <4> QED BY <4>1, SubSeqRecursiveSecond
    <3> HIDE DEF u
    <3>7. <<s[m]>> \in Seq(T) BY <3>5
    <3>8. f[m] = (f[k] \o u) \o <<s[m]>>
      <4>1. f[k] \o u \in Seq(T) BY <3>4, <3>5, ConcatProperties
      <4> QED BY <3>1, <3>2, <3>5, <4>1, AppendIsConcat
    <3>9. (f[k] \o u) \o <<s[m]>> = f[k] \o (u \o <<s[m]>>)
      <4> DEFINE v == <<s[m]>>
                 w == f[k]
      <4>1. v \in Seq(T) /\ w \in Seq(T) BY <3>5, <3>7
      <4> HIDE DEF v, w
      <4>2. (w \o u) \o v = w \o (u \o v) BY <3>4, <4>1, ConcatAssociative, SMTT(30)
      <4> QED BY <4>2 DEF v, w
    <3>10. f[m] = f[k] \o SubSeq(s, k + 1, m) BY <3>6, <3>8, <3>9
    <3> QED BY <1>4, <3>10
  <2>3. \A d \in all : f[k + d] = f[k] \o SubSeq(s, k + 1, k + d) OBVIOUS
  <2> HIDE DEF all
  <2>4. Len(s) - k \in all
    <3>1. 0 .. Len(s) - k \subseteq all BY <1>1, <2>1, <2>2, Induct
    <3> QED BY <1>1, <3>1
  <2> QED BY <1>0, <1>1, <2>3, <2>4
<1>6. ASSUME (k + 1 .. Len(s)) \cap P = {} PROVE Picked(s, P) = f[k]
  <2>1. 0 \in none BY <1>1
  <2>2. ASSUME NEW d \in 0 .. (Len(s) - k) - 1, d \in none PROVE d + 1 \in none
    <3>1. f[k + (d + 1)] = f[k + d] BY <1>3, <1>4, <1>6
    <3> QED BY <1>4, <2>2, <3>1
  <2>3. \A d \in none : f[k + d] = f[k] OBVIOUS
  <2> HIDE DEF none
  <2>4. Len(s) - k \in none
    <3>1. 0 .. Len(s) - k \subseteq none BY <1>1, <2>1, <2>2, Induct
    <3> QED BY <1>1, <3>1
  <2> QED BY <1>0, <1>1, <2>3, <2>4
<1> QED BY <1>5, <1>6 DEF f

(* The fields of a message: its calls have ids, and a result makes no      *)
(* calls.                                                                  *)
LEMMA MessageIs ==
    ASSUME NEW m \in Message
    PROVE  /\ m.calls \in Seq(Ids) /\ Len(m.calls) \in Nat /\ DOMAIN m.calls = 1 .. Len(m.calls)
           /\ HasCalls(m) <=> Len(m.calls) # 0
           /\ IsResult(m) => Len(m.calls) = 0 /\ ~HasCalls(m)
           /\ \A j \in 1 .. Len(m.calls) : m.calls[j] \in Ids
<1>1. m.calls \in Seq(Ids) /\ (HasCalls(m) => m.role = "assistant") BY DEF Message
<1> QED BY <1>1, EmptySeq DEF HasCalls, IsResult

(* Where a transcript may be cut: not in front of a result.                *)
SafeCut(ms, k) == k \in 0 .. Len(ms) /\ (k = Len(ms) \/ ~IsResult(ms[k + 1]))

(* A transcript is legal when calls have their results and results a call. *)
CallsFit(ms, i) ==
    \A j \in 1 .. Len(ms[i].calls) :
        i + j \in 1 .. Len(ms) /\ IsResult(ms[i + j]) /\ ms[i + j].id = ms[i].calls[j]
ResultFits(ms, i) ==
    IsResult(ms[i]) => \E a \in 1 .. i - 1 : /\ ~IsResult(ms[a]) /\ i - a <= Len(ms[a].calls)
                                           /\ \A k \in a + 1 .. i : IsResult(ms[k])

(* A transcript is legal if every message is: its calls are answered at    *)
(* once, and as a result it stands behind the message that asked for it.   *)
LEMMA LegalIs ==
    ASSUME NEW ms \in Seq(Message)
    PROVE  WellFormed(ms) <=> \A i \in 1 .. Len(ms) : CallsFit(ms, i) /\ ResultFits(ms, i)
<1>1. DOMAIN ms = 1 .. Len(ms) OBVIOUS
<1>2. ASSUME NEW i \in 1 .. Len(ms) PROVE (HasCalls(ms[i]) => Answered(ms, i)) <=> CallsFit(ms, i)
  <2>1. ms[i] \in Message OBVIOUS
  <2> DEFINE cs == ms[i].calls
  <2>2. DOMAIN cs = 1 .. Len(cs) /\ Len(cs) \in Nat /\ (HasCalls(ms[i]) <=> Len(cs) # 0)
    BY <2>1, MessageIs
  <2>3. Answered(ms, i) <=> CallsFit(ms, i) BY <1>1, <2>2 DEF Answered, CallsFit
  <2>4. Len(cs) = 0 => CallsFit(ms, i) BY DEF CallsFit
  <2> QED BY <2>2, <2>3, <2>4
<1> QED BY <1>1, <1>2 DEF WellFormed, ResultFits

(* A legal transcript: what follows a message are the results of its       *)
(* calls, and nothing in front of them.                                    *)
LEMMA BlockIs ==
    ASSUME NEW ms \in Seq(Message), WellFormed(ms), NEW i \in 1 .. Len(ms), ~IsResult(ms[i])
    PROVE  LET e == i + Len(ms[i].calls) IN
           /\ SafeCut(ms, e)
           /\ \A j \in 1 .. Len(ms[i].calls) :
                i + j \in 1 .. Len(ms) /\ IsResult(ms[i + j]) /\ ms[i + j].id = ms[i].calls[j]
<1> DEFINE d == Len(ms[i].calls)
           e == i + d
<1>1. ms[i] \in Message /\ Len(ms) \in Nat /\ DOMAIN ms = 1 .. Len(ms) OBVIOUS
<1>2. d \in Nat /\ DOMAIN ms[i].calls = 1 .. d /\ (HasCalls(ms[i]) <=> d # 0) BY <1>1, MessageIs
<1>3. \A j \in 1 .. d : i + j \in 1 .. Len(ms) /\ IsResult(ms[i + j])
                        /\ ms[i + j].id = ms[i].calls[j]
  BY LegalIs DEF CallsFit
<1>4. e \in 1 .. Len(ms)
  <2>1. CASE d = 0 BY <2>1
  <2>2. CASE d # 0
    <3>1. d \in 1 .. d BY <1>2, <2>2
    <3> QED BY <1>3, <3>1
  <2> QED BY <2>1, <2>2
<1>5. ASSUME e # Len(ms), IsResult(ms[e + 1]) PROVE FALSE
  <2> DEFINE x == e + 1
  <2>1. x \in 1 .. Len(ms) BY <1>2, <1>4, <1>5
  <2>2. PICK a \in 1 .. x - 1 : /\ ~IsResult(ms[a]) /\ x - a <= Len(ms[a].calls)
                                /\ \A k \in a + 1 .. x : IsResult(ms[k])
    BY <1>5, <2>1, LegalIs DEF ResultFits
  <2>3. a >= i
    <3> SUFFICES ASSUME a < i PROVE FALSE BY <2>1
    <3>1. i \in a + 1 .. x BY <1>2
    <3> QED BY <2>2, <3>1
  <2>4. a = i
    <3> SUFFICES ASSUME a # i PROVE FALSE OBVIOUS
    <3>1. a - i \in 1 .. d /\ i + (a - i) = a BY <1>2, <2>3
    <3> QED BY <1>3, <2>2, <3>1
  <2> QED BY <1>2, <2>2, <2>4
<1> QED BY <1>3, <1>4, <1>5 DEF SafeCut

(* A legal transcript begins with no result.                               *)
LEMMA FirstIs ==
    ASSUME NEW ms \in Seq(Message), WellFormed(ms)
    PROVE  SafeCut(ms, 0) /\ (ms # <<>> => 1 \in 1 .. Len(ms) /\ ~IsResult(ms[1]))
<1>1. Len(ms) \in Nat /\ DOMAIN ms = 1 .. Len(ms) OBVIOUS
<1>2. 1 \in 1 .. Len(ms) => ~IsResult(ms[1]) BY <1>1 DEF WellFormed
<1>3. ms # <<>> => Len(ms) # 0 BY EmptySeq
<1> QED BY <1>1, <1>2, <1>3 DEF SafeCut

(* The part of a sequence.                                                 *)
LEMMA PartIs ==
    ASSUME NEW T, NEW s \in Seq(T), NEW k \in 0 .. Len(s)
    PROVE  /\ SubSeq(s, 1, k) \in Seq(T) /\ Len(SubSeq(s, 1, k)) = k
           /\ \A i \in 1 .. k : SubSeq(s, 1, k)[i] = s[i]
           /\ SubSeq(s, k + 1, Len(s)) \in Seq(T) /\ Len(SubSeq(s, k + 1, Len(s))) = Len(s) - k
           /\ \A i \in 1 .. Len(s) - k : SubSeq(s, k + 1, Len(s))[i] = s[k + i]
           /\ SubSeq(s, 1, k) \o SubSeq(s, k + 1, Len(s)) = s
<1>1. Len(s) \in Nat /\ k \in Nat /\ k \in Int /\ Len(s) \in Int OBVIOUS
<1>2. \A i \in 1 .. k : s[i] \in T OBVIOUS
<1>3. \A i \in k + 1 .. Len(s) : s[i] \in T OBVIOUS
<1>4. /\ SubSeq(s, 1, k) \in Seq(T) /\ Len(SubSeq(s, 1, k)) = k
      /\ \A i \in 1 .. k : SubSeq(s, 1, k)[i] = s[i]
  <2>1. /\ SubSeq(s, 1, k) \in Seq(T)
        /\ Len(SubSeq(s, 1, k)) = IF 1 <= k THEN (k - 1) + 1 ELSE 0
        /\ \A i \in 1 .. (k - 1) + 1 : SubSeq(s, 1, k)[i] = s[(1 + i) - 1]
    BY <1>1, <1>2, SubSeqProperties
  <2> QED BY <1>1, <2>1
<1>5. /\ SubSeq(s, k + 1, Len(s)) \in Seq(T) /\ Len(SubSeq(s, k + 1, Len(s))) = Len(s) - k
      /\ \A i \in 1 .. Len(s) - k : SubSeq(s, k + 1, Len(s))[i] = s[k + i]
  <2>1. /\ SubSeq(s, k + 1, Len(s)) \in Seq(T)
        /\ Len(SubSeq(s, k + 1, Len(s))) = IF k + 1 <= Len(s) THEN (Len(s) - (k + 1)) + 1 ELSE 0
        /\ \A i \in 1 .. (Len(s) - (k + 1)) + 1 : SubSeq(s, k + 1, Len(s))[i] = s[((k + 1) + i) - 1]
    BY <1>1, <1>3, SubSeqProperties
  <2> QED BY <1>1, <2>1
<1>6. SubSeq(s, 1, k) \o SubSeq(s, k + 1, Len(s)) = s
  <2> DEFINE a == SubSeq(s, 1, k)
             b == SubSeq(s, k + 1, Len(s))
  <2>1. /\ a \in Seq(T) /\ Len(a) = k /\ \A i \in 1 .. k : a[i] = s[i]
        /\ b \in Seq(T) /\ Len(b) = Len(s) - k /\ \A i \in 1 .. Len(s) - k : b[i] = s[k + i]
    BY <1>4, <1>5
  <2> HIDE DEF a, b
  <2>2. /\ a \o b \in Seq(T) /\ Len(a \o b) = Len(a) + Len(b)
        /\ \A i \in 1 .. Len(a) + Len(b) : (a \o b)[i] = IF i <= Len(a) THEN a[i] ELSE b[i - Len(a)]
    BY <2>1, ConcatProperties
  <2>3. Len(a) + Len(b) = Len(s) BY <1>1, <2>1
  <2>4. ASSUME NEW i \in 1 .. Len(s) PROVE (a \o b)[i] = s[i]
    <3>1. CASE i <= k
      <4>1. i \in 1 .. k BY <3>1
      <4> QED BY <2>1, <2>2, <2>3, <4>1
    <3>2. CASE ~(i <= k)
      <4>1. i - k \in 1 .. Len(s) - k /\ k + (i - k) = i BY <1>1, <3>2
      <4> QED BY <2>1, <2>2, <2>3, <3>2, <4>1
    <3> QED BY <3>1, <3>2
  <2>5. a \o b = s BY <2>2, <2>3, <2>4, SeqEqual
  <2> QED BY <2>5 DEF a, b
<1> QED BY <1>4, <1>5, <1>6

(* Both parts of a legal transcript are legal.                             *)
LEMMA CutsAreLegal ==
    ASSUME NEW ms \in Seq(Message), WellFormed(ms), NEW k, SafeCut(ms, k)
    PROVE  WellFormed(SubSeq(ms, 1, k)) /\ WellFormed(SubSeq(ms, k + 1, Len(ms)))
<1> DEFINE a == SubSeq(ms, 1, k)
           b == SubSeq(ms, k + 1, Len(ms))
<1>1. Len(ms) \in Nat /\ DOMAIN ms = 1 .. Len(ms) /\ k \in 0 .. Len(ms) BY DEF SafeCut
<1>2. /\ a \in Seq(Message) /\ Len(a) = k /\ \A i \in 1 .. k : a[i] = ms[i]
      /\ b \in Seq(Message) /\ Len(b) = Len(ms) - k /\ \A i \in 1 .. Len(ms) - k : b[i] = ms[k + i]
  BY <1>1, PartIs
<1>4. k # Len(ms) => k + 1 \in 1 .. Len(ms) /\ ~IsResult(ms[k + 1])
  <2>1. k # Len(ms) => ~IsResult(ms[k + 1]) BY DEF SafeCut
  <2>2. k # Len(ms) => k + 1 \in 1 .. Len(ms)
    <3> DEFINE n == Len(ms)
    <3>1. n \in Nat /\ k \in 0 .. n BY <1>1
    <3> HIDE DEF n
    <3>2. k # n => k + 1 \in 1 .. n BY <3>1
    <3> QED BY <3>2 DEF n
  <2> QED BY <2>1, <2>2
<1>5. \A i \in 1 .. Len(ms) : IsResult(ms[i]) =>
        \E x \in 1 .. i - 1 : /\ ~IsResult(ms[x]) /\ i - x <= Len(ms[x].calls)
                              /\ \A y \in x + 1 .. i : IsResult(ms[y])
  BY LegalIs DEF ResultFits
<1>6. \A i \in 1 .. Len(ms) : \A j \in 1 .. Len(ms[i].calls) :
        i + j \in 1 .. Len(ms) /\ IsResult(ms[i + j]) /\ ms[i + j].id = ms[i].calls[j]
  BY LegalIs DEF CallsFit
<1>0. \A i \in 1 .. Len(ms) : Len(ms[i].calls) \in Nat
  BY MessageIs
<1> HIDE DEF a, b
<1>7. WellFormed(a)
  <2>1. ASSUME NEW i \in 1 .. k PROVE CallsFit(a, i)
    <3>1. i \in 1 .. Len(ms) /\ a[i] = ms[i] BY <1>1, <1>2
    <3>2. ASSUME NEW j \in 1 .. Len(ms[i].calls)
          PROVE i + j \in 1 .. k /\ IsResult(a[i + j]) /\ a[i + j].id = a[i].calls[j]
      <4>1. i + j \in 1 .. Len(ms) /\ IsResult(ms[i + j]) /\ ms[i + j].id = ms[i].calls[j]
        BY <1>6, <3>1
      <4>2. i + j <= k
        <5> SUFFICES ASSUME i + j > k PROVE FALSE BY <1>1, <4>1
        <5>4. i + j > k OBVIOUS
        <5> DEFINE x == (k + 1) - i
                   z == Len(ms[i].calls)
        <5>0. z \in Nat BY <1>0, <3>1
        <5>1. x \in 1 .. z /\ i + x = k + 1
          <6>1. j \in 1 .. z OBVIOUS
          <6> HIDE DEF z
          <6>2. k \in Nat /\ i \in 1 .. k BY <1>1
          <6> QED BY <5>4, <5>0, <6>1, <6>2
        <5>2. k # Len(ms)
          <6>1. Len(ms) \in Nat /\ j \in Nat BY <1>1, <5>0
          <6> QED BY <4>1, <5>4, <6>1
        <5> HIDE DEF x
        <5>3. IsResult(ms[i + x]) BY <1>6, <3>1, <5>1
        <5> QED BY <1>4, <5>1, <5>2, <5>3
      <4>3. i + j \in 1 .. k BY <1>1, <4>1, <4>2
      <4> QED BY <1>2, <3>1, <4>1, <4>3
    <3> QED BY <1>2, <3>1, <3>2 DEF CallsFit
  <2>2. ASSUME NEW i \in 1 .. k, IsResult(a[i])
        PROVE \E x \in 1 .. i - 1 : /\ ~IsResult(a[x]) /\ i - x <= Len(a[x].calls)
                                    /\ \A y \in x + 1 .. i : IsResult(a[y])
    <3>1. i \in 1 .. Len(ms) /\ \A y \in 1 .. i : y \in 1 .. k /\ a[y] = ms[y] BY <1>1, <1>2
    <3>2. i \in 1 .. i OBVIOUS
    <3>3. PICK x \in 1 .. i - 1 : /\ ~IsResult(ms[x]) /\ i - x <= Len(ms[x].calls)
                                  /\ \A y \in x + 1 .. i : IsResult(ms[y])
      BY <1>5, <2>2, <3>1, <3>2
    <3>4. x \in 1 .. i /\ x + 1 .. i \subseteq 1 .. i OBVIOUS
    <3> QED BY <3>1, <3>3, <3>4
  <2> QED BY <1>2, <2>1, <2>2, LegalIs DEF ResultFits
<1>8. WellFormed(b)
  <2>1. \A i \in 1 .. Len(ms) - k : k + i \in 1 .. Len(ms) /\ b[i] = ms[k + i] BY <1>1, <1>2
  <2>2. ASSUME NEW i \in 1 .. Len(ms) - k PROVE CallsFit(b, i)
    <3>1. ASSUME NEW j \in 1 .. Len(b[i].calls)
          PROVE i + j \in 1 .. Len(ms) - k /\ IsResult(b[i + j]) /\ b[i + j].id = b[i].calls[j]
      <4>1. /\ (k + i) + j \in 1 .. Len(ms) /\ IsResult(ms[(k + i) + j])
            /\ ms[(k + i) + j].id = ms[k + i].calls[j]
        BY <1>6, <2>1, <2>2, <3>1
      <4>2. Len(b[i].calls) \in Nat BY <1>0, <2>1
      <4>3. i + j \in 1 .. Len(ms) - k /\ (k + i) + j = k + (i + j) BY <1>1, <4>1, <4>2
      <4> QED BY <2>1, <4>1, <4>3
    <3> QED BY <1>2, <3>1 DEF CallsFit
  <2>3. ASSUME NEW i \in 1 .. Len(ms) - k, IsResult(b[i])
        PROVE \E x \in 1 .. i - 1 : /\ ~IsResult(b[x]) /\ i - x <= Len(b[x].calls)
                                    /\ \A y \in x + 1 .. i : IsResult(b[y])
    <3>1. PICK x \in 1 .. (k + i) - 1 : /\ ~IsResult(ms[x]) /\ (k + i) - x <= Len(ms[x].calls)
                                  /\ \A y \in x + 1 .. k + i : IsResult(ms[y])
      BY <1>5, <2>1, <2>3
    <3>2. x > k
      <4> SUFFICES ASSUME x <= k PROVE FALSE BY <1>1
      <4>1. k + 1 \in x + 1 .. k + i /\ k # Len(ms)
        <5>1. Len(ms) \in Nat /\ k \in 0 .. Len(ms) BY <1>1
        <5>2. i \in 1 .. Len(ms) - k /\ x \in Nat /\ x <= k BY <5>1
        <5> QED BY <5>1, <5>2
      <4> QED BY <1>4, <3>1, <4>1
    <3> DEFINE z == x - k
    <3>3. /\ z \in 1 .. i - 1 /\ k + z = x /\ i - z = (k + i) - x /\ z \in 1 .. Len(ms) - k
          /\ \A y \in z + 1 .. i : y \in 1 .. Len(ms) - k /\ k + y \in x + 1 .. k + i
      BY <1>1, <3>2
    <3> HIDE DEF z
    <3>4. ~IsResult(b[z]) /\ i - z <= Len(b[z].calls) BY <2>1, <3>1, <3>3
    <3>5. \A y \in z + 1 .. i : IsResult(b[y]) BY <2>1, <3>1, <3>3
    <3> QED BY <3>3, <3>4, <3>5
  <2> QED BY <1>2, <2>2, <2>3, LegalIs DEF ResultFits
<1> QED BY <1>7, <1>8 DEF a, b

(* Two legal transcripts, one after the other, are legal.                  *)
LEMMA JoinIsLegal ==
    ASSUME NEW a \in Seq(Message), NEW b \in Seq(Message), WellFormed(a), WellFormed(b)
    PROVE  WellFormed(a \o b)
<1> DEFINE c == a \o b
           n == Len(a)
<1>1. n \in Nat /\ Len(b) \in Nat /\ DOMAIN a = 1 .. n /\ DOMAIN b = 1 .. Len(b) OBVIOUS
<1>2. /\ c \in Seq(Message) /\ Len(c) = n + Len(b)
      /\ \A i \in 1 .. n + Len(b) : c[i] = IF i <= n THEN a[i] ELSE b[i - n]
  BY ConcatProperties
<1> HIDE DEF c
<1>4. (\A i \in 1 .. n : c[i] = a[i] /\ i \in 1 .. n + Len(b))
      /\ \A i \in 1 .. Len(b) : c[n + i] = b[i] /\ n + i \in 1 .. n + Len(b)
  <2>1. \A i \in 1 .. n : i \in 1 .. n + Len(b) /\ i <= n BY <1>1
  <2>2. \A i \in 1 .. Len(b) : n + i \in 1 .. n + Len(b) /\ ~(n + i <= n) /\ (n + i) - n = i BY <1>1
  <2> QED BY <1>2, <2>1, <2>2
<1> HIDE DEF n
<1>6. \A i \in 1 .. Len(b) : Len(b[i].calls) \in Nat BY MessageIs
<1>7. ASSUME NEW x \in 1 .. n
      PROVE CallsFit(c, x) /\ ResultFits(c, x)
  <2>1. CallsFit(c, x)
    <3>1. \A j \in 1 .. Len(a[x].calls) : /\ x + j \in 1 .. n /\ IsResult(a[x + j])
                                          /\ a[x + j].id = a[x].calls[j]
      BY LegalIs DEF CallsFit, n
    <3> QED BY <1>2, <1>4, <3>1 DEF CallsFit
  <2>2. ASSUME IsResult(a[x])
        PROVE \E w \in 1 .. x - 1 : /\ ~IsResult(c[w]) /\ x - w <= Len(c[w].calls)
                                    /\ \A y \in w + 1 .. x : IsResult(c[y])
    <3>1. PICK w \in 1 .. x - 1 : /\ ~IsResult(a[w]) /\ x - w <= Len(a[w].calls)
                                  /\ \A y \in w + 1 .. x : IsResult(a[y])
      BY <2>2, LegalIs DEF ResultFits, n
    <3>2. w \in 1 .. n /\ w + 1 .. x \subseteq 1 .. n BY <1>1
    <3> QED BY <1>4, <3>1, <3>2
  <2> QED BY <1>4, <2>1, <2>2 DEF ResultFits
<1>8. ASSUME NEW x \in 1 .. Len(b)
      PROVE CallsFit(c, n + x) /\ ResultFits(c, n + x)
  <2>1. CallsFit(c, n + x)
    <3>1. \A j \in 1 .. Len(b[x].calls) : /\ x + j \in 1 .. Len(b) /\ IsResult(b[x + j])
                                          /\ b[x + j].id = b[x].calls[j]
      BY LegalIs DEF CallsFit
    <3>2. c[n + x] = b[x] BY <1>4
    <3>3. \A j \in 1 .. Len(b[x].calls) : (n + x) + j = n + (x + j) BY <1>1, <1>6
    <3> QED BY <1>2, <1>4, <3>1, <3>2, <3>3 DEF CallsFit
  <2>2. ASSUME IsResult(b[x])
        PROVE \E w \in 1 .. (n + x) - 1 : /\ ~IsResult(c[w]) /\ (n + x) - w <= Len(c[w].calls)
                                          /\ \A y \in w + 1 .. n + x : IsResult(c[y])
    <3>1. PICK w \in 1 .. x - 1 : /\ ~IsResult(b[w]) /\ x - w <= Len(b[w].calls)
                                  /\ \A y \in w + 1 .. x : IsResult(b[y])
      BY <2>2, LegalIs DEF ResultFits
    <3>2. w \in 1 .. Len(b) /\ n + w \in 1 .. (n + x) - 1 /\ (n + x) - (n + w) = x - w BY <1>1
    <3>3. ASSUME NEW y \in (n + w) + 1 .. n + x PROVE IsResult(c[y])
      <4>1. y - n \in w + 1 .. x /\ n + (y - n) = y /\ y - n \in 1 .. Len(b) BY <1>1
      <4> QED BY <1>4, <3>1, <4>1
    <3>4. ~IsResult(c[n + w]) /\ (n + x) - (n + w) <= Len(c[n + w].calls) BY <1>4, <3>1, <3>2
    <3> QED BY <3>2, <3>3, <3>4
  <2> QED BY <1>4, <2>1, <2>2 DEF ResultFits
<1>9. \A i \in 1 .. n + Len(b) : i \in 1 .. n \/ (i - n \in 1 .. Len(b) /\ n + (i - n) = i) BY <1>1
<1>10. WellFormed(c)
  <2>1. ASSUME NEW i \in 1 .. n + Len(b)
        PROVE CallsFit(c, i) /\ ResultFits(c, i)
    <3>1. CASE i \in 1 .. n BY <1>7, <3>1
    <3>2. CASE i - n \in 1 .. Len(b) /\ n + (i - n) = i BY <1>8, <3>2
    <3> QED BY <1>9, <3>1, <3>2
  <2> QED BY <1>2, <2>1, LegalIs
<1> QED BY <1>10 DEF c

(* A message without calls that is no result stands by itself.             *)
LEMMA OneIsLegal ==
    ASSUME NEW m \in Message, ~HasCalls(m), ~IsResult(m)
    PROVE  <<m>> \in Seq(Message) /\ WellFormed(<<m>>)
<1>1. <<m>> \in Seq(Message) /\ DOMAIN <<m>> = {1} /\ <<m>>[1] = m OBVIOUS
<1> QED BY <1>1 DEF WellFormed

-----------------------------------------------------------------------------
(* Where a transcript is cut (ToolPairs). *)

(* A set of numbers has a least one, and below n a greatest one.           *)
LEMMA LeastIs ==
    ASSUME NEW S \in SUBSET Nat, S # {}
    PROVE  Min(S) \in S /\ \A y \in S : Min(S) <= y
<1>1. PICK m \in S : \A k \in S : ~(<<k, m>> \in OpToRel(<, Nat))
  BY NatLessThanWellFounded, WFMin
<1>2. \A k \in S : m <= k
  <2>1. ASSUME NEW k \in S PROVE ~(k < m) BY <1>1 DEF OpToRel
  <2> QED BY <2>1
<1> QED BY <1>2 DEF Min

(* ... and a greatest one.                                                 *)
LEMMA GreatestIs ==
    ASSUME NEW n \in Nat, NEW S \in SUBSET (0 .. n), S # {}
    PROVE  Max(S) \in S /\ \A y \in S : Max(S) >= y
<1> DEFINE R == {n - x : x \in S}
<1>0. \A x \in S : x \in 0 .. n /\ n - x \in Nat OBVIOUS
<1>1. R \in SUBSET Nat /\ R # {}
  <2>1. \A y \in R : y \in Nat BY <1>0
  <2> QED BY <2>1
<1>2. PICK m \in R : \A y \in R : m <= y
  <2> HIDE DEF R
  <2> QED BY <1>1, LeastIs
<1>3. PICK x \in S : m = n - x BY <1>2
<1>4. \A y \in S : n - y \in R OBVIOUS
<1>5. \A y \in S : x >= y BY <1>2, <1>3, <1>4
<1> QED BY <1>5 DEF Max

(* The lesser of two numbers.                                              *)
LEMMA LesserIs == ASSUME NEW a \in Nat, NEW b \in Nat
                  PROVE  Min({a, b}) = IF a <= b THEN a ELSE b
<1>1. {a, b} \in SUBSET Nat /\ {a, b} # {} OBVIOUS
<1> DEFINE S == {a, b}
<1>2. \A y : y \in S <=> y = a \/ y = b OBVIOUS
<1> HIDE DEF S
<1>3. S \in SUBSET Nat /\ S # {} BY <1>2
<1>4. Min(S) \in S /\ \A y \in S : Min(S) <= y BY <1>3, LeastIs
<1>5. Min(S) = IF a <= b THEN a ELSE b BY <1>2, <1>4
<1> QED BY <1>5 DEF S

(* A cut is moved past results, to where it is safe.                       *)
LEMMA PastIs ==
    ASSUME NEW ms \in Seq(Message), NEW i \in 0 .. Len(ms)
    PROVE  /\ PastResults(ms, i) \in i .. Len(ms) /\ SafeCut(ms, PastResults(ms, i))
           /\ \A l \in i + 1 .. PastResults(ms, i) : IsResult(ms[l])
<1> DEFINE K == {k \in i .. Len(ms) : k = Len(ms) \/ ~IsResult(ms[k + 1])}
           p == PastResults(ms, i)
<1>1. Len(ms) \in Nat /\ i \in Nat OBVIOUS
<1>2. Len(ms) \in K /\ K \in SUBSET Nat BY <1>1
<1>3. p = Min(K) BY DEF PastResults
<1>4. \A k : k \in K <=> k \in i .. Len(ms) /\ (k = Len(ms) \/ ~IsResult(ms[k + 1])) OBVIOUS
<1> HIDE DEF K, p
<1>5. p \in K /\ \A y \in K : p <= y BY <1>2, <1>3, LeastIs
<1>6. p \in i .. Len(ms) /\ p \in 0 .. Len(ms) /\ p \in Nat BY <1>1, <1>4, <1>5
<1>7. SafeCut(ms, p) BY <1>4, <1>5, <1>6 DEF SafeCut
<1>8. ASSUME NEW l \in i + 1 .. p PROVE IsResult(ms[l])
  <2>1. l - 1 \in i .. Len(ms) /\ ~(p <= l - 1) /\ (l - 1) + 1 = l /\ l - 1 # Len(ms) BY <1>1, <1>6
  <2>2. l - 1 \notin K BY <1>5, <2>1
  <2> QED BY <1>4, <2>1, <2>2
<1> QED BY <1>6, <1>7, <1>8 DEF p

(* snap_to_safe_boundary moves a cut forward over results, to where it is  *)
(* safe.                                                                   *)
LEMMA SnapIs ==
    ASSUME NEW ms \in Seq(Message), WellFormed(ms), NEW i \in 0 .. Len(ms)
    PROVE  LET k == SnapToSafeBoundary(ms, i) IN
           /\ k \in i .. Len(ms) /\ SafeCut(ms, k)
           /\ \A l \in i + 1 .. k : IsResult(ms[l])
<1> DEFINE snap == SnapToSafeBoundary(ms, i)
           I == {x \in 1 .. i : ~IsResult(ms[x])}
           a == IF I # {} THEN Max(I) ELSE 0
           Ok(k) == /\ k \in i .. Len(ms) /\ SafeCut(ms, k)
                    /\ \A l \in i + 1 .. k : IsResult(ms[l])
<1>1. Len(ms) \in Nat /\ i \in Nat OBVIOUS
<1>2. snap = IF i = 0 THEN 0
             ELSE IF i >= Len(ms) THEN Len(ms)
             ELSE IF IsResult(ms[i + 1]) /\ a # 0 /\ HasCalls(ms[a]) THEN PastResults(ms, i)
             ELSE IF HasCalls(ms[i]) THEN PastResults(ms, i)
             ELSE i
  BY DEF SnapToSafeBoundary, SelectLastInSubSeq
<1>3. Ok(PastResults(ms, i)) BY PastIs
<1>4. CASE i = 0
  <2>1. snap = 0 BY <1>2, <1>4
  <2>2. SafeCut(ms, 0) BY FirstIs
  <2>3. 0 \in i .. Len(ms) /\ i + 1 .. 0 = {} BY <1>1, <1>4
  <2> QED BY <2>1, <2>2, <2>3
<1>5. CASE i # 0 /\ i >= Len(ms)
  <2>1. snap = i /\ i = Len(ms) BY <1>1, <1>2, <1>5
  <2>2. SafeCut(ms, i) BY <2>1 DEF SafeCut
  <2> QED BY <1>1, <2>1, <2>2
<1>6. CASE i # 0 /\ ~(i >= Len(ms))
  <2>1. i + 1 \in 1 .. Len(ms) /\ i \in 1 .. Len(ms) BY <1>1, <1>6
  <2>2. CASE IsResult(ms[i + 1])
    <3>1. PICK w \in 1 .. (i + 1) - 1 : /\ ~IsResult(ms[w]) /\ (i + 1) - w <= Len(ms[w].calls)
                                        /\ \A y \in w + 1 .. i + 1 : IsResult(ms[y])
      BY <2>1, <2>2, LegalIs DEF ResultFits
    <3>2. w \in 1 .. i /\ w \in I /\ w \in 1 .. Len(ms) BY <1>1, <2>1, <3>1
    <3>3. HasCalls(ms[w])
      <4>1. ms[w] \in Message BY <3>2
      <4>2. Len(ms[w].calls) \in Nat /\ Len(ms[w].calls) # 0 BY <3>1, <3>2, <4>1, MessageIs
      <4> QED BY <4>1, <4>2, MessageIs
    <3>4. I \in SUBSET (0 .. i) /\ I # {} BY <1>1, <3>2
    <3>5. \A x \in I : x \in 1 .. i /\ ~IsResult(ms[x]) OBVIOUS
    <3> HIDE DEF I
    <3>6. Max(I) \in I /\ Max(I) >= w BY <1>1, <3>2, <3>4, GreatestIs
    <3>7. Max(I) = w
      <4> DEFINE x == Max(I)
      <4>1. x \in 1 .. i /\ ~IsResult(ms[x]) /\ x >= w BY <3>5, <3>6
      <4> HIDE DEF x
      <4>2. SUFFICES ASSUME x # w PROVE FALSE BY DEF x
      <4>3. x \in w + 1 .. i + 1 BY <3>2, <4>1, <4>2
      <4> QED BY <3>1, <4>1, <4>3
    <3>8. a = w /\ w # 0 BY <3>2, <3>4, <3>7
    <3>9. snap = PastResults(ms, i) BY <1>2, <1>6, <2>2, <3>3, <3>8
    <3> QED BY <1>3, <3>9
  <2>3. CASE ~IsResult(ms[i + 1])
    <3>1. snap = PastResults(ms, i) \/ snap = i BY <1>2, <1>6, <2>3
    <3>2. Ok(i)
      <4>1. SafeCut(ms, i) BY <2>3 DEF SafeCut
      <4>2. i \in i .. Len(ms) /\ i + 1 .. i = {} BY <1>1
      <4> QED BY <4>1, <4>2
    <3> QED BY <1>3, <3>1, <3>2
  <2> QED BY <2>2, <2>3
<1> QED BY <1>4, <1>5, <1>6

(* plan_fold_regions cuts between exchanges, and finds nothing to fold     *)
(* exactly when little is left or the messages to keep lie in one batch.   *)
LEMMA RegionsAre ==
    ASSUME NEW T \in SUBSET Message, NEW ms \in Seq(T), WellFormed(ms),
           NEW protect \in Nat, NEW keep \in Nat, keep >= 2
    PROVE  LET plan == PlanFoldRegions(ms, protect, keep)
               body == plan.middle \o plan.tail
           IN /\ \A part \in {plan.head, plan.middle, plan.tail} : part \in Seq(T)
                 /\ WellFormed(part)
              /\ plan.head \o body = ms
              /\ plan.middle = <<>> <=> \/ Len(body) <= keep + 1
                                        \/ \A k \in 1 .. keep : IsResult(body[Len(body) - k + 1])
<1> DEFINE n == Len(ms)
           start == SnapToSafeBoundary(ms, Min({protect, n}))
           head == SubSeq(ms, 1, start)
           body == SubSeq(ms, start + 1, n)
           b == Len(body)
           cut == SnapToSafeBoundary(body, b - keep)
           plan == PlanFoldRegions(ms, protect, keep)
           short == b <= keep + 1 \/ cut = 0 \/ cut >= b
           batch == \A k \in 1 .. keep : IsResult(body[b - k + 1])
<1>1. n \in Nat /\ ms \in Seq(Message) /\ Min({protect, n}) \in 0 .. n
  <2>1. ms \in Seq(Message) BY SeqMonotonic
  <2>2. n \in Nat OBVIOUS
  <2> HIDE DEF n
  <2> QED BY <2>1, <2>2, LesserIs
<1>2. start \in 0 .. n /\ SafeCut(ms, start) BY <1>1, SnapIs DEF SafeCut
<1>3. /\ head \in Seq(T) /\ body \in Seq(T) /\ head \o body = ms
      /\ head \in Seq(Message) /\ body \in Seq(Message)
  BY <1>1, <1>2, PartIs
<1>4. WellFormed(head) /\ WellFormed(body) BY <1>1, <1>2, CutsAreLegal
<1>5. plan = IF short THEN [head |-> head, middle |-> <<>>, tail |-> body]
             ELSE [head |-> head, middle |-> SubSeq(body, 1, cut), tail |-> SubSeq(body, cut + 1,
             b)]
  BY DEF PlanFoldRegions
<1> HIDE DEF head, body, start, plan, cut
<1>6. b \in Nat BY <1>3
<1>7. ASSUME b > keep + 1
      PROVE  /\ cut \in 1 .. b /\ SafeCut(body, cut) /\ (cut = b <=> batch)
  <2>1. b - keep \in 0 .. b /\ b - keep \in 1 .. b BY <1>6, <1>7
  <2>2. /\ cut \in b - keep .. b /\ SafeCut(body, cut)
        /\ \A l \in (b - keep) + 1 .. cut : IsResult(body[l])
    BY <1>3, <1>4, <2>1, SnapIs DEF cut
  <2> HIDE DEF b
  <2>3. ASSUME cut = b PROVE batch
    <3>1. \A k \in 1 .. keep : b - k + 1 \in (b - keep) + 1 .. cut BY <1>6, <2>1, <2>3
    <3> QED BY <2>2, <3>1 DEF b
  <2>4. ASSUME batch PROVE cut = b
    <3> SUFFICES ASSUME cut # b PROVE FALSE OBVIOUS
    <3>1. ~IsResult(body[cut + 1]) BY <2>2 DEF SafeCut, b
    <3> DEFINE k == b - cut
    <3>2. k \in 1 .. keep /\ b - k + 1 = cut + 1 BY <1>6, <2>1, <2>2
    <3> QED BY <2>4, <3>1, <3>2 DEF b
  <2>5. cut \in 1 .. b BY <1>6, <2>1, <2>2
  <2> QED BY <2>2, <2>3, <2>4, <2>5
<1>8. CASE short
  <2>1. plan.head = head /\ plan.middle = <<>> /\ plan.tail = body BY <1>5, <1>8
  <2>2. plan.middle \o plan.tail = body
    <3> DEFINE u == plan.middle
    <3>1. <<>> \o body = body BY <1>3, ConcatEmptySeq
    <3> QED BY <2>1, <3>1
  <2>3. b <= keep + 1 \/ batch
    <3>1. CASE b > keep + 1
      <4>1. cut = b BY <1>6, <1>7, <1>8, <3>1
      <4> QED BY <1>7, <3>1, <4>1
    <3>2. CASE ~(b > keep + 1) BY <1>6, <3>2
    <3> QED BY <3>1, <3>2
  <2>4. <<>> \in Seq(T) /\ WellFormed(<<>>)
    <3>1. <<>> \in Seq(T) /\ DOMAIN <<>> = {} OBVIOUS
    <3> QED BY <3>1 DEF WellFormed
  <2> QED BY <1>3, <1>4, <2>1, <2>2, <2>3, <2>4 DEF plan
<1>9. CASE ~short
  <2>1. /\ plan.head = head /\ plan.middle = SubSeq(body, 1, cut)
        /\ plan.tail = SubSeq(body, cut + 1, b)
    BY <1>5, <1>9
  <2>2. b > keep + 1 /\ cut \in 0 .. b /\ SafeCut(body, cut) /\ cut # b /\ cut # 0 /\ ~batch
    BY <1>6, <1>7, <1>9
  <2>3. /\ plan.middle \in Seq(T) /\ Len(plan.middle) = cut /\ plan.tail \in Seq(T)
        /\ plan.middle \o plan.tail = body
    <3>1. cut \in 0 .. Len(body) /\ body \in Seq(T) BY <1>3, <2>2
    <3>2. /\ SubSeq(body, 1, cut) \in Seq(T) /\ Len(SubSeq(body, 1, cut)) = cut
          /\ SubSeq(body, cut + 1, Len(body)) \in Seq(T)
          /\ SubSeq(body, 1, cut) \o SubSeq(body, cut + 1, Len(body)) = body
      BY <3>1, PartIs
    <3> QED BY <2>1, <3>2
  <2>4. WellFormed(plan.middle) /\ WellFormed(plan.tail) BY <1>3, <1>4, <2>1, <2>2, CutsAreLegal
  <2>5. plan.middle # <<>> BY <2>2, <2>3
  <2>6. ~(b <= keep + 1) BY <1>6, <2>2
  <2> QED BY <1>3, <1>4, <2>1, <2>2, <2>3, <2>4, <2>5, <2>6 DEF plan
<1> QED BY <1>8, <1>9

(* hard_trim_safe drops an exchange at a time.                             *)
LEMMA GroupIs ==
    ASSUME NEW ms \in Seq(Message), WellFormed(ms), ms # <<>>
    PROVE  \E c \in 1 .. Len(ms) : SafeCut(ms, c) /\ DropGroup(ms) = SubSeq(ms, c + 1, Len(ms))
<1> DEFINE rest == Tail(ms)
           r == Len(rest)
           own(m) == \/ m.id = NoId \/ m.id \in ToSet(ms[1].calls)
                     \/ \A i \in ToSet(ms[1].calls) : i = NoId
           claimed(m) == \E k \in DOMAIN rest : m.id \in ToSet(rest[k].calls)
           goes(m) == IF HasCalls(ms[1]) THEN ~own(m) ELSE claimed(m)
           K == {k \in 0 .. r : k = r \/ ~IsResult(rest[k + 1]) \/ goes(rest[k + 1])}
<1>1. /\ Len(ms) \in Nat /\ 1 \in 1 .. Len(ms) /\ ~IsResult(ms[1]) /\ ms[1] \in Message
      /\ r \in Nat /\ Len(ms) = r + 1 /\ \A i \in 1 .. r : rest[i] = ms[i + 1]
  BY FirstIs, HeadTailProperties
<1>0. rest \in Seq(Message) BY HeadTailProperties
<1>2. DropGroup(ms) = SubSeq(rest, Min(K) + 1, r) BY DEF DropGroup
<1>3. \A k : k \in K <=> /\ k \in 0 .. r
                         /\ k = r \/ ~IsResult(rest[k + 1]) \/ goes(rest[k + 1])
  OBVIOUS
<1>4. r \in K /\ K \in SUBSET Nat BY <1>1
<1> HIDE DEF K
<1> DEFINE k == Min(K)
<1>5. k \in K /\ \A y \in K : k <= y BY <1>4, LeastIs
<1> HIDE DEF k
<1>6. k \in 0 .. r /\ (k = r \/ ~IsResult(rest[k + 1]) \/ goes(rest[k + 1])) BY <1>3, <1>5
<1> HIDE DEF r
<1>7. \A y \in 2 .. k + 1 : IsResult(ms[y])
  <2>1. ASSUME NEW y \in 2 .. k + 1 PROVE IsResult(ms[y])
    <3>1. /\ y - 2 \in 0 .. r /\ ~(k <= y - 2) /\ y - 2 # r /\ y - 1 \in 1 .. r
          /\ (y - 2) + 1 = y - 1 /\ (y - 1) + 1 = y
      BY <1>1, <1>6
    <3>2. y - 2 \notin K BY <1>5, <3>1
    <3>3. IsResult(rest[y - 1]) BY <1>3, <3>1, <3>2
    <3> QED BY <1>1, <3>1, <3>3
  <2> QED BY <2>1
<1>8. ASSUME k # r, IsResult(ms[k + 2]) PROVE FALSE
  <2> DEFINE x == k + 2
             calls == ms[1].calls
  <2>1. x \in 1 .. Len(ms) /\ k + 1 \in 1 .. r /\ (k + 1) + 1 = x /\ k \in Nat BY <1>1, <1>6, <1>8
  <2>2. PICK a \in 1 .. x - 1 : /\ ~IsResult(ms[a]) /\ x - a <= Len(ms[a].calls)
                                /\ \A y \in a + 1 .. x : IsResult(ms[y])
    BY <1>8, <2>1, LegalIs DEF ResultFits
  <2>3. a = 1
    <3> SUFFICES ASSUME a # 1 PROVE FALSE OBVIOUS
    <3>1. a \in 2 .. k + 1 BY <2>1
    <3> QED BY <1>7, <2>2, <3>1
  <2>4. calls \in Seq(Ids) /\ Len(calls) \in Nat /\ DOMAIN calls = 1 .. Len(calls)
        /\ (HasCalls(ms[1]) <=> Len(calls) # 0) BY <1>1, MessageIs
  <2>5. k + 1 \in 1 .. Len(calls) /\ x = 1 + (k + 1) BY <2>1, <2>2, <2>3, <2>4
  <2>6. ms[x].id = calls[k + 1] BY <1>1, <2>5, LegalIs, SMTT(30) DEF CallsFit
  <2>7. ms[x].id \in ToSet(calls) BY <2>4, <2>5, <2>6 DEF ToSet
  <2>8. HasCalls(ms[1]) BY <2>4, <2>5
  <2>9. rest[k + 1] = ms[x] BY <1>1, <2>1
  <2>10. own(rest[k + 1]) BY <2>7, <2>9
  <2>11. ~goes(rest[k + 1]) BY <2>8, <2>10
  <2> QED BY <1>6, <1>8, <2>9, <2>11
<1>9. SafeCut(ms, k + 1) /\ k + 1 \in 1 .. Len(ms)
  <2>1. k + 1 \in 0 .. Len(ms) /\ k + 1 \in 1 .. Len(ms) /\ (k = r <=> k + 1 = Len(ms))
        /\ (k + 1) + 1 = k + 2
    BY <1>1, <1>6
  <2> QED BY <1>8, <2>1 DEF SafeCut
<1>10. SubSeq(rest, k + 1, r) = SubSeq(ms, (k + 1) + 1, Len(ms))
  <2>1. rest \in Seq(Message) /\ k \in 0 .. Len(rest) /\ k + 1 \in 0 .. Len(ms)
    BY <1>0, <1>6, <1>9 DEF r
  <2> DEFINE u == SubSeq(rest, k + 1, Len(rest))
             v == SubSeq(ms, (k + 1) + 1, Len(ms))
  <2>2. /\ u \in Seq(Message) /\ Len(u) = Len(rest) - k
           /\ \A i \in 1 .. Len(rest) - k : u[i] = rest[k + i]
        /\ v \in Seq(Message) /\ Len(v) = Len(ms) - (k + 1)
        /\ \A i \in 1 .. Len(ms) - (k + 1) : v[i] = ms[(k + 1) + i]
    BY <2>1, PartIs
  <2> HIDE DEF u, v
  <2>3. Len(rest) = r /\ Len(ms) - (k + 1) = r - k
    <3>1. Len(rest) = r BY DEF r
    <3>2. Len(ms) - (k + 1) = r - k BY <1>1, <1>6
    <3> QED BY <3>1, <3>2
  <2>4. ASSUME NEW i \in 1 .. r - k PROVE u[i] = v[i]
    <3>1. k + i \in 1 .. r /\ (k + i) + 1 = (k + 1) + i BY <1>1, <1>6
    <3> QED BY <1>1, <2>2, <2>3, <3>1
  <2>5. u = v BY <2>2, <2>3, <2>4, SeqEqual
  <2> QED BY <2>3, <2>5 DEF u, v
<1> QED BY <1>2, <1>9, <1>10 DEF k, r

(* The end of an end.                                                      *)
LEMMA EndOfEnd ==
    ASSUME NEW T, NEW s \in Seq(T), NEW d \in 0 .. Len(s), NEW c \in 0 .. Len(s) - d
    PROVE  SubSeq(SubSeq(s, d + 1, Len(s)), c + 1, Len(s) - d) = SubSeq(s, (d + c) + 1, Len(s))
<1> DEFINE u == SubSeq(s, d + 1, Len(s))
           v == SubSeq(u, c + 1, Len(u))
           w == SubSeq(s, (d + c) + 1, Len(s))
           n == Len(s)
<1>1. n \in Nat OBVIOUS
<1>2. u \in Seq(T) /\ Len(u) = n - d /\ \A i \in 1 .. n - d : u[i] = s[d + i] BY PartIs
<1> HIDE DEF u
<1>3. c \in 0 .. Len(u) BY <1>2
<1>4. v \in Seq(T) /\ Len(v) = Len(u) - c /\ \A i \in 1 .. Len(u) - c : v[i] = u[c + i]
  BY <1>2, <1>3, PartIs
<1>5. d + c \in 0 .. n BY <1>1
<1>6. w \in Seq(T) /\ Len(w) = n - (d + c) /\ \A i \in 1 .. n - (d + c) : w[i] = s[(d + c) + i]
  BY <1>5, PartIs
<1> HIDE DEF v, w
<1>7. Len(v) = Len(w)
  <2>1. (n - d) - c = n - (d + c) BY <1>1
  <2> QED BY <1>2, <1>4, <1>6, <2>1
<1>8. ASSUME NEW i \in 1 .. Len(v) PROVE v[i] = w[i]
  <2>1. i \in 1 .. n - (d + c) /\ i \in 1 .. (n - d) - c /\ c + i \in 1 .. n - d
        /\ d + (c + i) = (d + c) + i
    <3>1. i \in 1 .. n - (d + c) BY <1>6, <1>7
    <3> HIDE DEF n
    <3> QED BY <1>1, <3>1
  <2> QED BY <1>2, <1>4, <1>6, <2>1
<1>9. v = w BY <1>4, <1>6, <1>7, <1>8, SeqEqual
<1>10. v = SubSeq(u, c + 1, n - d) BY <1>2 DEF v
<1> QED BY <1>9, <1>10 DEF u, w

(* What hard_trim_safe keeps: the end after a safe cut, no more than fits. *)
FitsWindow(system, v, window) == Len(system) + Len(v) <= window \/ Len(v) <= 2
EndsOf(ms) == {SubSeq(ms, d + 1, Len(ms)) : d \in {k \in 0 .. Len(ms) : SafeCut(ms, k)}}

(* Such an end is a legal transcript of the same messages.                 *)
LEMMA EndIs ==
    ASSUME NEW T \in SUBSET Message, NEW ms \in Seq(T), WellFormed(ms), NEW v \in EndsOf(ms)
    PROVE  v \in Seq(T) /\ v \in Seq(Message) /\ Len(v) \in Nat /\ WellFormed(v)
<1>1. PICK d \in 0 .. Len(ms) : SafeCut(ms, d) /\ v = SubSeq(ms, d + 1, Len(ms)) BY DEF EndsOf
<1>2. v \in Seq(T) BY <1>1, PartIs
<1>3. ms \in Seq(Message) /\ v \in Seq(Message) BY <1>2, SeqMonotonic
<1> QED BY <1>1, <1>2, <1>3, CutsAreLegal

(* Dropping the group at the head of an end leaves a shorter end.          *)
LEMMA DropIs ==
    ASSUME NEW T \in SUBSET Message, NEW ms \in Seq(T), WellFormed(ms), NEW v \in EndsOf(ms),
           Len(v) > 2
    PROVE  DropGroup(v) \in EndsOf(ms) /\ Len(DropGroup(v)) < Len(v)
<1>1. PICK d \in 0 .. Len(ms) : SafeCut(ms, d) /\ v = SubSeq(ms, d + 1, Len(ms)) BY DEF EndsOf
<1>2. v \in Seq(Message) /\ Len(v) \in Nat /\ WellFormed(v) BY EndIs
<1>3. v # <<>>
  <2>1. Len(<<>>) = 0 OBVIOUS
  <2> QED BY <2>1
<1>4. PICK c \in 1 .. Len(v) : SafeCut(v, c) /\ DropGroup(v) = SubSeq(v, c + 1, Len(v))
  BY <1>2, <1>3, GroupIs
<1>5. Len(ms) \in Nat /\ Len(v) = Len(ms) - d /\ \A i \in 1 .. Len(ms) - d : v[i] = ms[d + i]
  BY <1>1, PartIs
<1> DEFINE n == Len(ms)
           e == d + c
<1>6. n \in Nat /\ Len(v) = n - d BY <1>5
<1>7. e \in 0 .. n /\ c \in 0 .. n - d /\ (e = n <=> c = n - d) /\ n - e < n - d /\ n - e \in Nat
  <2> HIDE DEF n
  <2> QED BY <1>6
<1>8. DropGroup(v) = SubSeq(ms, e + 1, n) BY <1>1, <1>4, <1>6, <1>7, EndOfEnd
<1>9. SafeCut(ms, e)
  <2>1. CASE e = n BY <1>7, <2>1 DEF SafeCut
  <2>2. CASE e # n
    <3>1. ~IsResult(v[c + 1]) BY <1>4, <1>6, <1>7, <2>2 DEF SafeCut
    <3>2. c + 1 \in 1 .. n - d /\ d + (c + 1) = e + 1
      <4> HIDE DEF n
      <4> QED BY <1>6, <1>7, <2>2
    <3>3. ~IsResult(ms[e + 1]) BY <1>5, <3>1, <3>2
    <3> QED BY <1>7, <3>3 DEF SafeCut
  <2> QED BY <2>1, <2>2
<1>10. Len(DropGroup(v)) = n - e BY <1>7, <1>8, PartIs
<1>11. DropGroup(v) \in EndsOf(ms) BY <1>7, <1>8, <1>9 DEF EndsOf
<1> QED BY <1>6, <1>7, <1>10, <1>11

(* hard_trim_safe's loop stops at an end that fits the window or is down   *)
(* to two messages.                                                        *)
LEMMA TrimIs ==
    ASSUME NEW T \in SUBSET Message, NEW ms \in Seq(T), WellFormed(ms),
           NEW system, Len(system) \in Nat, NEW window \in Nat
    PROVE  LET kept == Trims(system, ms, window)[Len(ms)]
           IN kept \in EndsOf(ms) /\ FitsWindow(system, kept, window)
<1> DEFINE Z == Len(ms)
           V == EndsOf(ms)
           Ok(v) == Len(system) + Len(v) <= window \/ Len(v) <= 2
           F(f) == f = [n \in 0 .. Z |-> IF n = 0 THEN ms
                                         ELSE IF Ok(f[n - 1])
                                         THEN f[n - 1] ELSE DropGroup(f[n - 1])]
           G == [p \in (1 .. Z) \X V |-> IF Ok(p[2]) THEN p[2] ELSE DropGroup(p[2])]
<1>1. Z \in Nat OBVIOUS
<1>2. ASSUME NEW v \in V, ~Ok(v) PROVE DropGroup(v) \in V /\ Len(DropGroup(v)) < Len(v)
  <2>1. Len(v) \in Nat BY EndIs
  <2>2. Len(v) > 2 BY <1>2, <2>1
  <2> HIDE DEF V
  <2> QED BY <2>2, DropIs DEF V
<1>3. \A v \in V : Len(v) \in Nat BY EndIs
<1>4. ms \in V
  <2>1. ms \in Seq(Message) BY SeqMonotonic
  <2>2. SafeCut(ms, 0) /\ 0 \in 0 .. Z BY <1>1, <2>1, FirstIs
  <2>3. SubSeq(ms, 0 + 1, Z) = ms BY SubSeqFull
  <2> QED BY <2>2, <2>3 DEF EndsOf
<1> HIDE DEF V, Ok
<1>5. G \in [(1 .. Z) \X V -> V]
  <2>1. ASSUME NEW p \in (1 .. Z) \X V PROVE (IF Ok(p[2]) THEN p[2] ELSE DropGroup(p[2])) \in V
    <3>1. p[2] \in V OBVIOUS
    <3> QED BY <1>2, <3>1
  <2> QED BY <2>1
<1>6. \A i \in 1 .. Z, v \in V : G[<<i, v>>] = IF Ok(v) THEN v ELSE DropGroup(v) OBVIOUS
<1> HIDE DEF G
<1>7. PICK g \in [0 .. Z -> V] : g[0] = ms /\ \A i \in 1 .. Z : g[i] = G[<<i, g[i - 1]>>]
  <2> HIDE DEF Z
  <2>1. \E g : Iterated(V, Z, ms, G, g) BY <1>1, <1>4, <1>5, Iterates
  <2> QED BY <2>1 DEF Iterated
<1>8. \A i \in 1 .. Z : i - 1 \in 0 .. Z /\ i \in 0 .. Z /\ i # 0 BY <1>1
<1>9. \A i \in 1 .. Z : g[i] = IF Ok(g[i - 1]) THEN g[i - 1] ELSE DropGroup(g[i - 1])
  BY <1>6, <1>7, <1>8
<1>10. F(g)
  <2>1. \A i \in 0 .. Z : i = 0 \/ i \in 1 .. Z BY <1>1
  <2>2. \A i \in 0 .. Z : g[i] = IF i = 0 THEN ms
                                 ELSE IF Ok(g[i - 1]) THEN g[i - 1] ELSE DropGroup(g[i - 1])
    BY <1>7, <1>9, <2>1
  <2> QED BY <1>7, <2>2
<1>11. Trims(system, ms, window) = CHOOSE f : F(f) BY DEF Trims, Ok
<1> DEFINE f == Trims(system, ms, window)
<1>12. F(f) BY <1>10, <1>11
<1> HIDE DEF f
<1>13. f[0] = ms /\ \A i \in 1 .. Z : f[i] = IF Ok(f[i - 1]) THEN f[i - 1] ELSE DropGroup(f[i - 1])
  <2>1. 0 \in 0 .. Z BY <1>1
  <2> QED BY <1>8, <1>12, <2>1
<1> DEFINE good == {n \in 0 .. Z : f[n] \in V /\ (Ok(f[n]) \/ Len(f[n]) <= Z - n)}
<1> HIDE DEF F
<1>14. 0 \in good
  <2>1. Len(ms) <= Z - 0 /\ 0 \in 0 .. Z BY <1>1
  <2> QED BY <1>4, <1>13, <2>1
<1>15. ASSUME NEW n \in 0 .. Z - 1, n \in good PROVE n + 1 \in good
  <2>1. n + 1 \in 1 .. Z /\ n + 1 \in 0 .. Z /\ (n + 1) - 1 = n BY <1>1
  <2>2. f[n] \in V /\ (Ok(f[n]) \/ Len(f[n]) <= Z - n) BY <1>15
  <2>3. f[n + 1] = IF Ok(f[n]) THEN f[n] ELSE DropGroup(f[n]) BY <1>13, <2>1
  <2>4. CASE Ok(f[n]) BY <2>1, <2>2, <2>3, <2>4
  <2>5. CASE ~Ok(f[n])
    <3>1. f[n + 1] \in V /\ Len(f[n + 1]) < Len(f[n]) /\ Len(f[n]) <= Z - n
      BY <1>2, <2>2, <2>3, <2>5
    <3>2. Len(f[n + 1]) \in Nat /\ Len(f[n]) \in Nat BY <1>3, <2>2, <3>1
    <3> DEFINE x == Len(f[n + 1])
               y == Len(f[n])
    <3>3. x \in Nat /\ y \in Nat /\ x < y /\ y <= Z - n BY <3>1, <3>2
    <3>4. x <= Z - (n + 1)
      <4> HIDE DEF x, y, Z
      <4> QED BY <1>1, <3>3
    <3> QED BY <2>1, <3>1, <3>4
  <2> QED BY <2>4, <2>5
<1>16. \A n \in good : f[n] \in V /\ (Ok(f[n]) \/ Len(f[n]) <= Z - n) OBVIOUS
<1> HIDE DEF good
<1>17. Z \in good
  <2>1. 0 .. Z \subseteq good
    <3> HIDE DEF Z
    <3> QED BY <1>1, <1>14, <1>15, Induct
  <2> QED BY <1>1, <2>1
<1>18. f[Z] \in V /\ Ok(f[Z])
  <2>1. f[Z] \in V /\ (Ok(f[Z]) \/ Len(f[Z]) <= Z - Z) BY <1>16, <1>17
  <2>2. Len(f[Z]) <= 0 => Ok(f[Z]) BY <1>3, <2>1 DEF Ok
  <2>3. Z - Z = 0 BY <1>1
  <2> QED BY <2>1, <2>2, <2>3
<1> QED BY <1>18 DEF f, V, Ok, FitsWindow

-----------------------------------------------------------------------------
(* sanitize_tool_pairs (ToolPairs). *)

(* Messages that are closed under what the pairing makes of them.          *)
Closed(T) == /\ T \in SUBSET Message /\ \A i \in Ids : Never(i) \in T
             /\ \A m \in T : ~IsResult(m) => Stripped(m) \in T

(* A message without its calls is otherwise the same.                      *)
LEMMA StripIs ==
    ASSUME NEW m \in Message
    PROVE  /\ Stripped(m) \in Message /\ Stripped(m).calls = <<>> /\ Stripped(m).role = m.role
           /\ Stripped(m).text = m.text /\ Stripped(m).id = m.id
<1>1. m \in [role : {"system", "user", "assistant", "tool"}, calls : Seq(Ids), id : Words,
      text : Words]
  BY DEF Message
<1>2. <<>> \in Seq(Ids) OBVIOUS
<1> QED BY <1>1, <1>2 DEF Stripped, Message, HasCalls

(* The result made up for a call that never ran.                           *)
LEMMA NeverIs ==
    ASSUME NEW i \in Ids
    PROVE  Never(i) \in Message /\ IsResult(Never(i)) /\ Never(i).id = i
           /\ Never(i).text = "never executed"
<1>1. /\ Never(i).role = "tool" /\ Never(i).calls = <<>> /\ Never(i).id = i
      /\ Never(i).text = "never executed"
      /\ Never(i) = [role |-> "tool", calls |-> <<>>, id |-> i, text |-> "never executed"]
  BY DEF Never, Tool
<1>2. <<>> \in Seq(Ids) OBVIOUS
<1>3. i \in Words BY DEF Ids, Words
<1>4. "never executed" \in Words /\ "tool" \in {"system", "user", "assistant", "tool"} BY DEF Words
<1> DEFINE m == Never(i)
<1>5. m \in [role : {"system", "user", "assistant", "tool"}, calls : Seq(Ids), id : Words,
      text : Words]
  BY <1>1, <1>2, <1>3, <1>4
<1> HIDE DEF m
<1>6. m \in Message BY <1>1, <1>5 DEF Message, HasCalls, m
<1> QED BY <1>1, <1>6 DEF IsResult, m
(* All messages are closed in this way, and so are all but the system's.   *)
LEMMA Closures == Closed(Message) /\ Closed(Plain)
<1>1. \A i \in Ids : Never(i) \in Message /\ Never(i).role # "system"
  BY NeverIs DEF Never, Tool
<1>2. \A m \in Message : Stripped(m) \in Message /\ Stripped(m).role = m.role BY StripIs
<1> QED BY <1>1, <1>2 DEF Closed, Plain

(* Every call has an id, so the calls are kept as they are.                *)
LEMMA CallsAre ==
    ASSUME NEW m \in Message
    PROVE  Picked(m.calls, {j \in DOMAIN m.calls : m.calls[j] # NoId}) = m.calls
<1> DEFINE cs == m.calls
           P == {j \in DOMAIN cs : cs[j] # NoId}
<1>1. cs \in Seq(Ids) /\ Len(cs) \in Nat /\ DOMAIN cs = 1 .. Len(cs)
      /\ \A j \in 1 .. Len(cs) : cs[j] \in Ids
  BY MessageIs
<1> HIDE DEF cs
<1>2. 0 + 1 .. Len(cs) \subseteq P /\ 0 \in 0 .. Len(cs) BY <1>1 DEF Ids
<1> HIDE DEF P
<1>3. Picked(cs, P) = Picks(cs, P)[0] \o SubSeq(cs, 0 + 1, Len(cs)) BY <1>1, <1>2, PickStretch
<1>4. Picks(cs, P)[0] = <<>> BY <1>1, PicksAre
<1>5. SubSeq(cs, 0 + 1, Len(cs)) = cs BY <1>1, SubSeqFull
<1>6. <<>> \o cs = cs BY <1>1, ConcatEmptySeq
<1>7. Picked(cs, P) = cs BY <1>3, <1>4, <1>5, <1>6
<1> QED BY <1>7 DEF cs, P

(* A queue holds results of its id.                                        *)
ResultsOf(T, i) == {m \in T : IsResult(m) /\ m.id = i}

(* The results waiting for a call are results of its id.                   *)
LEMMA QueueIs ==
    ASSUME NEW T, NEW ms \in Seq(T), NEW i, NEW taken, taken[i] \in Nat
    PROVE  /\ ResultsFor(ms, i) \in Seq(ResultsOf(T, i))
           /\ Queue(ms, taken, i) \in Seq(ResultsOf(T, i))
<1> DEFINE P == {k \in DOMAIN ms : IsResult(ms[k]) /\ ms[k].id = i}
           U == {ms[j] : j \in P \cap (1 .. Len(ms))}
           q == ResultsFor(ms, i)
           w == taken[i]
           R == ResultsOf(T, i)
<1>1. q = Picked(ms, P) BY DEF ResultsFor
<1>2. q \in Seq(U) BY <1>1, PickedFrom
<1>3. U \subseteq R
  <2>1. DOMAIN ms = 1 .. Len(ms) /\ \A k \in 1 .. Len(ms) : ms[k] \in T OBVIOUS
  <2> QED BY <2>1 DEF ResultsOf
<1> HIDE DEF q, U, R
<1>4. q \in Seq(R) BY <1>2, <1>3, SeqMonotonic
<1>5. SubSeq(q, w + 1, Len(q)) \in Seq(R)
  <2>1. Len(q) \in Int /\ w + 1 \in Int /\ \A k \in w + 1 .. Len(q) : q[k] \in R BY <1>4
  <2> HIDE DEF w
  <2> QED BY <2>1, SubSeqProperties
<1> QED BY <1>4, <1>5 DEF Queue, q, R

(* The answer to a call is a result of its id.                             *)
LEMMA AnswerIs ==
    ASSUME NEW T, Closed(T), NEW ms \in Seq(T), NEW cs \in Seq(Ids), NEW j \in 1 .. Len(cs),
           NEW taken, taken[cs[j]] \in Nat
    PROVE  AnswerTo(ms, taken, cs, j) \in ResultsOf(T, cs[j])
<1> DEFINE q == Queue(ms, taken, cs[j])
           R == ResultsOf(T, cs[j])
           u == Uses(cs, j)
<1>1. q \in Seq(R) BY QueueIs
<1>2. Never(cs[j]) \in R
  <2>1. cs[j] \in Ids OBVIOUS
  <2> QED BY <2>1, NeverIs DEF Closed, ResultsOf
<1>3. u \in Nat /\ u > 0
  <2>1. j \in Nat /\ j \in 1 .. j OBVIOUS
  <2> DEFINE S == {k \in 1 .. j : cs[k] = cs[j]}
  <2>2. IsFiniteSet(S)
    <3>1. IsFiniteSet(1 .. j) BY <2>1, FS_Interval
    <3> QED BY <3>1, FS_Subset
  <2>3. S # {} BY <2>1
  <2>4. Cardinality(S) \in Nat /\ Cardinality(S) # 0 BY <2>2, <2>3, FS_CardinalityType, FS_EmptySet
  <2> QED BY <2>4 DEF Uses
<1>4. AnswerTo(ms, taken, cs, j) = IF u <= Len(q) THEN q[u] ELSE Never(cs[j]) BY DEF AnswerTo
<1> HIDE DEF q, R, u
<1>5. u <= Len(q) => q[u] \in R BY <1>1, <1>3
<1> QED BY <1>2, <1>4, <1>5 DEF R

(* A message and the answers to its calls.                                 *)
LEMMA BlockIsLegal ==
    ASSUME NEW m \in Message, ~IsResult(m), NEW r \in Seq(Message), Len(r) = Len(m.calls),
           \A j \in 1 .. Len(r) : IsResult(r[j]) /\ r[j].id = m.calls[j]
    PROVE  <<m>> \o r \in Seq(Message) /\ WellFormed(<<m>> \o r)
<1> DEFINE a == <<m>>
           c == a \o r
           n == Len(r)
<1>1. a \in Seq(Message) /\ Len(a) = 1 /\ a[1] = m OBVIOUS
<1>2. n \in Nat OBVIOUS
<1> HIDE DEF a
<1>3. /\ c \in Seq(Message) /\ Len(c) = 1 + n
      /\ \A i \in 1 .. 1 + n : c[i] = IF i <= 1 THEN a[i] ELSE r[i - 1]
  <2>1. /\ c \in Seq(Message) /\ Len(c) = Len(a) + Len(r)
        /\ \A i \in 1 .. Len(a) + Len(r) : c[i] = IF i <= Len(a) THEN a[i] ELSE r[i - Len(a)]
    <3>1. a \in Seq(Message) BY <1>1
    <3> QED BY <3>1, ConcatProperties
  <2> HIDE DEF c
  <2> QED BY <1>1, <2>1
<1> HIDE DEF c
<1>4. c[1] = m /\ \A i \in 1 .. n : c[i + 1] = r[i] /\ i + 1 \in 1 .. 1 + n /\ c[1 + i] = r[i]
  <2>1. 1 \in 1 .. 1 + n /\ \A i \in 1 .. n : i + 1 \in 1 .. 1 + n /\ ~(i + 1 <= 1)
        /\ (i + 1) - 1 = i /\ 1 + i = i + 1
    BY <1>2
  <2> QED BY <1>1, <1>3, <2>1
<1>5. \A j \in 1 .. n : IsResult(r[j]) /\ r[j].id = m.calls[j] /\ Len(r[j].calls) = 0
  <2>1. \A j \in 1 .. n : r[j] \in Message OBVIOUS
  <2> QED BY <2>1, MessageIs
<1> HIDE DEF n
<1>6. ASSUME NEW i \in 1 .. 1 + n PROVE CallsFit(c, i) /\ ResultFits(c, i)
  <2>1. CASE i = 1
    <3>1. CallsFit(c, i)
      <4>1. Len(c[i].calls) = n BY <1>4, <2>1 DEF n
      <4>2. \A j \in 1 .. n : i + j \in 1 .. Len(c) /\ i + j = 1 + j BY <1>2, <1>3, <2>1
      <4> QED BY <1>4, <1>5, <2>1, <4>1, <4>2 DEF CallsFit
    <3> QED BY <1>4, <2>1, <3>1 DEF ResultFits
  <2>2. CASE i # 1
    <3>1. i - 1 \in 1 .. n /\ c[i] = r[i - 1]
      <4>1. i - 1 \in 1 .. n /\ (i - 1) + 1 = i BY <1>2, <2>2
      <4> QED BY <1>4, <4>1
    <3>2. CallsFit(c, i) BY <1>5, <3>1 DEF CallsFit
    <3>3. ResultFits(c, i)
      <4>1. 1 \in 1 .. i - 1 /\ i - 1 <= Len(m.calls) BY <1>2, <3>1 DEF n
      <4>2. \A k \in 1 + 1 .. i : k - 1 \in 1 .. n /\ (k - 1) + 1 = k BY <1>2, <3>1
      <4>3. \A k \in 1 + 1 .. i : IsResult(c[k]) BY <1>4, <1>5, <4>2
      <4> QED BY <1>4, <4>1, <4>3 DEF ResultFits
    <3> QED BY <3>2, <3>3
  <2> QED BY <2>1, <2>2
<1>7. WellFormed(c) BY <1>3, <1>6, LegalIs
<1> QED BY <1>3, <1>7 DEF c, a
(* Each message leaves a legal transcript.                                 *)
Paired(T, ms) == {a \in [out : Seq(T), taken : [IdsOf(ms) -> Nat]] : WellFormed(a.out)}

(* A message without calls extends a legal transcript.                     *)
LEMMA ExtendIs ==
    ASSUME NEW T \in SUBSET Message, NEW s \in Seq(T), WellFormed(s), NEW m \in T,
           ~HasCalls(m), ~IsResult(m)
    PROVE  Append(s, m) \in Seq(T) /\ WellFormed(Append(s, m))
<1> DEFINE w == <<m>>
<1>1. w \in Seq(T) /\ w \in Seq(Message) /\ WellFormed(w) BY OneIsLegal
<1>2. s \in Seq(Message) BY SeqMonotonic
<1> HIDE DEF w
<1>3. WellFormed(s \o w) BY <1>1, <1>2, JoinIsLegal
<1>4. s \o w = Append(s, m) BY AppendIsConcat DEF w
<1>5. Append(s, m) \in Seq(T) BY AppendProperties
<1> QED BY <1>3, <1>4, <1>5

(* Claiming results counts them.                                           *)
LEMMA ClaimIs ==
    ASSUME NEW S, NEW taken \in [S -> Nat], NEW cs \in Seq(Ids)
    PROVE  Claim(taken, cs) \in [S -> Nat]
<1>1. ASSUME NEW i \in S PROVE taken[i] + Cardinality({k \in DOMAIN cs : cs[k] = i}) \in Nat
  <2> DEFINE K == {k \in DOMAIN cs : cs[k] = i}
  <2>1. IsFiniteSet(1 .. Len(cs)) BY FS_Interval
  <2>2. K \in SUBSET (1 .. Len(cs)) OBVIOUS
  <2> HIDE DEF K
  <2>3. Cardinality(K) \in Nat BY <2>1, <2>2, FS_Subset, FS_CardinalityType
  <2>4. taken[i] + Cardinality(K) \in Nat BY <2>3
  <2> QED BY <2>4 DEF K
<1>2. DOMAIN taken = S OBVIOUS
<1> QED BY <1>1, <1>2 DEF Claim

(* One turn of the pairing's loop keeps its transcript legal, whatever the *)
(* message; and what it does, case by case.                                *)
LEMMA StepIs ==
    ASSUME NEW T, Closed(T), NEW ms \in Seq(T), NEW n \in 1 .. Len(ms), NEW a \in Paired(T, ms)
    PROVE  LET m == ms[n]
               present == \E j \in 1 .. Len(m.calls) : Queue(ms, a.taken, m.calls[j]) # <<>>
           IN /\ SanitizeOne(ms, a, m) \in Paired(T, ms)
              /\ SanitizeOne(ms, a, m) =
                   IF IsResult(m) THEN a
                   ELSE IF ~HasCalls(m) THEN [a EXCEPT !.out = Append(a.out, m)]
                   ELSE IF present
                        THEN [out |-> a.out \o (<<m>> \o [j \in 1 .. Len(m.calls) |->
                                                        AnswerTo(ms, a.taken, m.calls, j)]),
                              taken |-> Claim(a.taken, m.calls)]
                   ELSE IF m.text # Blank THEN [a EXCEPT !.out = Append(a.out, Stripped(m))]
                   ELSE a
<1> DEFINE m == ms[n]
           cs == m.calls
           one == SanitizeOne(ms, a, m)
           present == \E j \in 1 .. Len(cs) : Queue(ms, a.taken, cs[j]) # <<>>
           r == [j \in 1 .. Len(cs) |-> AnswerTo(ms, a.taken, cs, j)]
           w == <<m>>
           I == IdsOf(ms)
<1>1. m \in T /\ T \in SUBSET Message /\ m \in Message BY DEF Closed
<1>2. cs \in Seq(Ids) /\ Len(cs) \in Nat /\ DOMAIN cs = 1 .. Len(cs)
      /\ (HasCalls(m) <=> Len(cs) # 0)
      /\ (HasCalls(m) <=> cs # <<>>)
  BY <1>1, MessageIs DEF HasCalls
<1>3. Picked(m.calls, {j \in DOMAIN m.calls : m.calls[j] # NoId}) = cs BY <1>1, CallsAre
<1>4. /\ a.out \in Seq(T) /\ a.taken \in [I -> Nat] /\ WellFormed(a.out)
      /\ a \in [out : Seq(T), taken : [I -> Nat]]
  BY DEF Paired
<1>5. \A j \in 1 .. Len(cs) : cs[j] \in I
  <2>1. \A j \in 1 .. Len(cs) : cs[j] \in ToSet(cs) BY <1>2 DEF ToSet
  <2>2. n \in DOMAIN ms OBVIOUS
  <2> QED BY <2>1, <2>2 DEF IdsOf
<1> HIDE DEF I
<1>6. \A j \in 1 .. Len(cs) : AnswerTo(ms, a.taken, cs, j) \in ResultsOf(T, cs[j])
  <2>1. \A j \in 1 .. Len(cs) : a.taken[cs[j]] \in Nat BY <1>4, <1>5
  <2> HIDE DEF cs
  <2> QED BY <1>2, <2>1, AnswerIs
<1>7. r \in Seq(T) /\ Len(r) = Len(cs) /\ \A j \in 1 .. Len(r) : IsResult(r[j]) /\ r[j].id = cs[j]
  <2> HIDE DEF cs
  <2>1. r \in [1 .. Len(cs) -> T] BY <1>6 DEF ResultsOf
  <2>2. r \in Seq(T) /\ Len(r) = Len(cs) BY <1>2, <2>1
  <2>3. \A j \in 1 .. Len(r) : IsResult(r[j]) /\ r[j].id = cs[j] BY <1>6, <2>2 DEF ResultsOf
  <2> QED BY <2>2, <2>3
<1>8. w \in Seq(T) /\ w \in Seq(Message) BY <1>1
<1>9. one = IF IsResult(m) THEN a
            ELSE IF ~HasCalls(m) THEN [a EXCEPT !.out = Append(a.out, m)]
            ELSE IF present THEN [out |-> (a.out \o w) \o r, taken |-> Claim(a.taken, cs)]
            ELSE IF m.text # Blank THEN [a EXCEPT !.out = Append(a.out, Stripped(m))]
            ELSE a
  <2>1. (~IsResult(m) /\ HasCalls(m)) => cs # <<>> BY <1>2
  <2>2. one = IF IsResult(m) THEN a
            ELSE IF ~HasCalls(m) THEN [a EXCEPT !.out = Append(a.out, m)]
            ELSE IF cs = <<>> THEN [a EXCEPT !.out = Append(a.out, Stripped(m))]
            ELSE IF present THEN [out |-> (a.out \o w) \o r, taken |-> Claim(a.taken, cs)]
            ELSE IF m.text # Blank THEN [a EXCEPT !.out = Append(a.out, Stripped(m))]
            ELSE a
    BY <1>2, <1>3 DEF SanitizeOne
  <2> HIDE DEF one, r, w, cs, present, m
  <2> QED BY <2>1, <2>2
<1> HIDE DEF r, w
<1>10. (a.out \o w) \o r = a.out \o (w \o r) BY <1>4, <1>7, <1>8, ConcatAssociative, SMTT(30)
<1>11. Claim(a.taken, cs) \in [I -> Nat] BY <1>2, <1>4, ClaimIs
<1>12. one \in Paired(T, ms)
  <2>1. CASE IsResult(m) BY <1>9, <2>1
  <2>2. CASE ~IsResult(m) /\ ~HasCalls(m)
    <3>1. Append(a.out, m) \in Seq(T) /\ WellFormed(Append(a.out, m)) BY <1>1, <1>4, <2>2, ExtendIs
    <3> QED BY <1>4, <1>9, <2>2, <3>1 DEF Paired, I
  <2>3. CASE ~IsResult(m) /\ HasCalls(m) /\ present
    <3>1. r \in Seq(Message) BY <1>1, <1>7, SeqMonotonic
    <3>2. w \o r \in Seq(Message) /\ WellFormed(w \o r)
      BY <1>1, <1>7, <2>3, <3>1, BlockIsLegal DEF w
    <3>3. w \o r \in Seq(T) /\ a.out \o (w \o r) \in Seq(T)
      <4>1. w \o r \in Seq(T) BY <1>7, <1>8, ConcatProperties
      <4> QED BY <1>4, <4>1, ConcatProperties
    <3>4. a.out \in Seq(Message) BY <1>1, <1>4, SeqMonotonic
    <3>5. WellFormed(a.out \o (w \o r)) BY <1>4, <3>2, <3>4, JoinIsLegal
    <3>6. one = [out |-> a.out \o (w \o r), taken |-> Claim(a.taken, cs)] BY <1>9, <1>10, <2>3
    <3> DEFINE c == a.out \o (w \o r)
               k == Claim(a.taken, cs)
    <3>7. c \in Seq(T) /\ WellFormed(c) /\ k \in [I -> Nat] /\ one = [out |-> c, taken |-> k]
      BY <1>11, <3>3, <3>5, <3>6
    <3> HIDE DEF c, k, one
    <3>8. one \in [out : Seq(T), taken : [I -> Nat]] /\ one.out = c BY <3>7
    <3> QED BY <3>7, <3>8 DEF Paired, I
  <2>4. CASE ~IsResult(m) /\ HasCalls(m) /\ ~present /\ m.text # Blank
    <3>1. Stripped(m) \in T BY <1>1, <2>4 DEF Closed
    <3>2. ~HasCalls(Stripped(m)) /\ ~IsResult(Stripped(m))
      BY <1>1, <2>4, StripIs DEF HasCalls, IsResult
    <3>3. Append(a.out, Stripped(m)) \in Seq(T) /\ WellFormed(Append(a.out, Stripped(m)))
      BY <1>1, <1>4, <3>1, <3>2, ExtendIs
    <3> QED BY <1>4, <1>9, <2>4, <3>3 DEF Paired, I
  <2>5. CASE ~IsResult(m) /\ HasCalls(m) /\ ~present /\ m.text = Blank BY <1>9, <2>5
  <2> QED BY <2>1, <2>2, <2>3, <2>4, <2>5
<1> QED BY <1>9, <1>10, <1>12 DEF r, w

(* The pairing goes through the messages one by one.                       *)
LEMMA SanitizingIs ==
    ASSUME NEW T, Closed(T), NEW ms \in Seq(T)
    PROVE  /\ Sanitizing(ms) \in [0 .. Len(ms) -> Paired(T, ms)]
           /\ Sanitizing(ms)[0] = [out |-> <<>>, taken |-> [i \in IdsOf(ms) |-> 0]]
           /\ \A n \in 1 .. Len(ms) :
                Sanitizing(ms)[n] = SanitizeOne(ms, Sanitizing(ms)[n - 1], ms[n])
<1> DEFINE Z == Len(ms)
           V == Paired(T, ms)
           b == [out |-> <<>>, taken |-> [i \in IdsOf(ms) |-> 0]]
           F(f) == f = [n \in 0 .. Z |-> IF n = 0 THEN b ELSE SanitizeOne(ms, f[n - 1], ms[n])]
           G == [p \in (1 .. Z) \X V |-> SanitizeOne(ms, p[2], ms[p[1]])]
<1>1. Z \in Nat OBVIOUS
<1>2. b \in V
  <2>1. <<>> \in Seq(T) /\ [i \in IdsOf(ms) |-> 0] \in [IdsOf(ms) -> Nat] OBVIOUS
  <2>2. WellFormed(<<>>)
    <3>1. DOMAIN <<>> = {} OBVIOUS
    <3> QED BY <3>1 DEF WellFormed
  <2> QED BY <2>1, <2>2 DEF Paired
<1>3. \A n \in 1 .. Z, a \in V : SanitizeOne(ms, a, ms[n]) \in V BY StepIs
<1> HIDE DEF V, b
<1>4. G \in [(1 .. Z) \X V -> V]
  <2>1. ASSUME NEW p \in (1 .. Z) \X V PROVE SanitizeOne(ms, p[2], ms[p[1]]) \in V
    <3>1. p[1] \in 1 .. Z /\ p[2] \in V OBVIOUS
    <3> QED BY <1>3, <3>1
  <2> QED BY <2>1
<1>5. \A i \in 1 .. Z, a \in V : G[<<i, a>>] = SanitizeOne(ms, a, ms[i]) OBVIOUS
<1> HIDE DEF G
<1>6. PICK g \in [0 .. Z -> V] : g[0] = b /\ \A i \in 1 .. Z : g[i] = G[<<i, g[i - 1]>>]
  <2> HIDE DEF Z
  <2>1. \E g : Iterated(V, Z, b, G, g) BY <1>1, <1>2, <1>4, Iterates
  <2> QED BY <2>1 DEF Iterated
<1>7. \A i \in 1 .. Z : i - 1 \in 0 .. Z /\ i \in 0 .. Z /\ i # 0 BY <1>1
<1>8. \A i \in 1 .. Z : g[i] = SanitizeOne(ms, g[i - 1], ms[i]) BY <1>5, <1>6, <1>7
<1>9. F(g)
  <2>1. \A i \in 0 .. Z : i = 0 \/ i \in 1 .. Z BY <1>1
  <2>2. \A i \in 0 .. Z : g[i] = IF i = 0 THEN b ELSE SanitizeOne(ms, g[i - 1], ms[i])
    BY <1>6, <1>8, <2>1
  <2> QED BY <1>6, <2>2
<1> DEFINE f == Sanitizing(ms)
<1>10. f = CHOOSE h : F(h) BY DEF Sanitizing, b
<1>11. F(f) BY <1>9, <1>10
<1> HIDE DEF f
<1>12. f[0] = b /\ \A i \in 1 .. Z : f[i] = SanitizeOne(ms, f[i - 1], ms[i])
  <2>1. 0 \in 0 .. Z BY <1>1
  <2> QED BY <1>7, <1>11, <2>1
<1>13. f = [n \in 0 .. Z |-> f[n]] BY <1>11
<1> DEFINE good == {n \in 0 .. Z : f[n] \in V}
<1> HIDE DEF F
<1>14. 0 \in good
  <2>1. 0 \in 0 .. Z BY <1>1
  <2> QED BY <1>2, <1>12, <2>1
<1>15. ASSUME NEW n \in 0 .. Z - 1, n \in good PROVE n + 1 \in good
  <2>1. n + 1 \in 1 .. Z /\ n + 1 \in 0 .. Z /\ (n + 1) - 1 = n BY <1>1
  <2> QED BY <1>3, <1>12, <1>15, <2>1
<1>16. \A n \in good : f[n] \in V OBVIOUS
<1> HIDE DEF good
<1>17. 0 .. Z \subseteq good
  <2> HIDE DEF Z
  <2> QED BY <1>1, <1>14, <1>15, Induct
<1>18. f \in [0 .. Z -> V] BY <1>13, <1>16, <1>17
<1> QED BY <1>12, <1>18 DEF f, V, b

(* What the pairing returns is legal, and made of the same messages.       *)
LEMMA SanitizedIs ==
    ASSUME NEW T, Closed(T), NEW ms \in Seq(T)
    PROVE  SanitizeToolPairs(ms) \in Seq(T) /\ WellFormed(SanitizeToolPairs(ms))
<1>1. Len(ms) \in 0 .. Len(ms) OBVIOUS
<1>2. Sanitizing(ms)[Len(ms)] \in Paired(T, ms) BY <1>1, SanitizingIs
<1> QED BY <1>2 DEF SanitizeToolPairs, Paired
(* How many results of an id stand among the first n messages.             *)
Answers(ms, i) == {k \in DOMAIN ms : IsResult(ms[k]) /\ ms[k].id = i}
Count(ms, i, n) == Len(Picks(ms, Answers(ms, i))[n])

(* The count goes up by one with each result of the id.                    *)
LEMMA CountsAre ==
    ASSUME NEW ms \in Seq(Message), NEW i
    PROVE  /\ \A n \in 0 .. Len(ms) : Count(ms, i, n) \in Nat
           /\ Count(ms, i, 0) = 0
           /\ \A n \in 1 .. Len(ms) :
                Count(ms, i, n) = Count(ms, i, n - 1) + IF n \in Answers(ms, i) THEN 1 ELSE 0
<1> DEFINE f == Picks(ms, Answers(ms, i))
           P == Answers(ms, i)
<1>1. /\ f \in [0 .. Len(ms) -> Seq(Message)] /\ f[0] = <<>>
      /\ \A n \in 1 .. Len(ms) : f[n] = IF n \in P THEN Append(f[n - 1], ms[n]) ELSE f[n - 1]
  BY PicksAre
<1> HIDE DEF f, P
<1>2. ASSUME NEW n \in 1 .. Len(ms)
      PROVE Len(f[n]) = Len(f[n - 1]) + IF n \in P THEN 1 ELSE 0
  <2>1. n - 1 \in 0 .. Len(ms) /\ ms[n] \in Message OBVIOUS
  <2> DEFINE w == f[n - 1]
             m == ms[n]
  <2>2. w \in Seq(Message) /\ m \in Message /\ Len(w) \in Nat BY <1>1, <2>1
  <2>3. f[n] = IF n \in P THEN Append(w, m) ELSE w BY <1>1
  <2> HIDE DEF w, m
  <2>4. Len(Append(w, m)) = Len(w) + 1 BY <2>2, AppendProperties
  <2>5. Len(f[n]) = Len(w) + IF n \in P THEN 1 ELSE 0 BY <2>2, <2>3, <2>4
  <2> QED BY <2>5 DEF w
<1>3. \A n \in 0 .. Len(ms) : Len(f[n]) \in Nat BY <1>1
<1>4. Len(f[0]) = 0 BY <1>1
<1> QED BY <1>2, <1>3, <1>4 DEF Count, f, P

(* How often an id is asked for.                                           *)
UsesOf(cs, i, j) == Cardinality({k \in 1 .. j : cs[k] = i})

(* ... and so does the number of calls that use an id.                     *)
LEMMA UsesAre ==
    ASSUME NEW cs \in Seq(Ids), NEW i
    PROVE  /\ UsesOf(cs, i, 0) = 0 /\ \A j \in Nat : UsesOf(cs, i, j) \in Nat
           /\ \A j \in Nat : UsesOf(cs, i, j + 1) = UsesOf(cs, i,
              j) + IF cs[j + 1] = i THEN 1 ELSE 0
           /\ \A j \in Nat : j > 0 /\ cs[j] = i => UsesOf(cs, i, j) # 0
<1>1. ASSUME NEW j \in Nat
      PROVE  /\ UsesOf(cs, i, j) \in Nat /\ UsesOf(cs, i, 0) = 0
             /\ UsesOf(cs, i, j + 1) = UsesOf(cs, i, j) + IF cs[j + 1] = i THEN 1 ELSE 0
             /\ j > 0 /\ cs[j] = i => UsesOf(cs, i, j) # 0
  <2> DEFINE S == {k \in 1 .. j : cs[k] = i}
             S1 == {k \in 1 .. j + 1 : cs[k] = i}
  <2>1. IsFiniteSet(1 .. j) BY FS_Interval
  <2>2. IsFiniteSet(S)
    <3>1. S \in SUBSET (1 .. j) OBVIOUS
    <3> QED BY <2>1, <3>1, FS_Subset
  <2>3. Cardinality(S) \in Nat BY <2>2, FS_CardinalityType
  <2>4. {k \in 1 .. 0 : cs[k] = i} = {} OBVIOUS
  <2>5. Cardinality({}) = 0 BY FS_EmptySet
  <2>6. Cardinality(S1) = Cardinality(S) + IF cs[j + 1] = i THEN 1 ELSE 0
    <3>1. CASE cs[j + 1] = i
      <4>1. S1 = S \cup {j + 1} /\ j + 1 \notin S BY <3>1
      <4> HIDE DEF S, S1
      <4>2. Cardinality(S1) = Cardinality(S) + 1 BY <2>2, <4>1, FS_AddElement
      <4> QED BY <3>1, <4>2
    <3>2. CASE cs[j + 1] # i
      <4>1. S1 = S BY <3>2
      <4> HIDE DEF S, S1
      <4> QED BY <2>3, <3>2, <4>1
    <3> QED BY <3>1, <3>2
  <2>7. j > 0 /\ cs[j] = i => Cardinality(S) # 0
    <3>1. j > 0 /\ cs[j] = i => j \in S OBVIOUS
    <3> HIDE DEF S
    <3> QED BY <2>2, <3>1, FS_EmptySet
  <2> QED BY <2>3, <2>4, <2>5, <2>6, <2>7 DEF UsesOf
<1>2. 0 \in Nat OBVIOUS
<1> QED BY <1>1, <1>2

(* What the results that follow the message at x count for.                *)
Followed(ms, x) ==
    /\ x \in 1 .. Len(ms) /\ ~IsResult(ms[x])
    /\ \A j \in 1 .. Len(ms[x].calls) :
         x + j \in 1 .. Len(ms) /\ IsResult(ms[x + j]) /\ ms[x + j].id = ms[x].calls[j]

(* Within a block of calls and results, the results of an id are as many   *)
(* as the calls that used it.                                              *)
LEMMA BlockCounts ==
    ASSUME NEW ms \in Seq(Message), NEW x, Followed(ms, x), NEW i
    PROVE  \A j \in 0 .. Len(ms[x].calls) :
              Count(ms, i, x + j) = Count(ms, i, x - 1) + UsesOf(ms[x].calls, i, j)
<1> DEFINE cs == ms[x].calls
           d == Len(cs)
           c == Count(ms, i, x - 1)
           u(j) == UsesOf(cs, i, j)
           good == {j \in 0 .. d : Count(ms, i, x + j) = c + u(j)}
<1>1. x \in 1 .. Len(ms) /\ ~IsResult(ms[x]) /\ DOMAIN ms = 1 .. Len(ms) /\ ms[x] \in Message
      /\ \A j \in 1 .. d : x + j \in 1 .. Len(ms) /\ IsResult(ms[x + j]) /\ ms[x + j].id = cs[j]
  BY DEF Followed
<1>2. cs \in Seq(Ids) /\ d \in Nat BY <1>1, MessageIs
<1>3. c \in Nat
  <2>1. x - 1 \in 0 .. Len(ms) BY <1>1
  <2> QED BY <2>1, CountsAre
<1> HIDE DEF cs, d, c
<1>4. \A j \in Nat : u(j) \in Nat /\ u(0) = 0 /\ u(j + 1) = u(j) + IF cs[j + 1] = i THEN 1 ELSE 0
  <2>1. ASSUME NEW j \in Nat
        PROVE  /\ UsesOf(cs, i, j) \in Nat /\ UsesOf(cs, i, 0) = 0
               /\ UsesOf(cs, i, j + 1) = UsesOf(cs, i, j) + IF cs[j + 1] = i THEN 1 ELSE 0
    BY <1>2, UsesAre
  <2> QED BY <2>1
<1> HIDE DEF u
<1>5. 0 \in good
  <2>1. x \notin Answers(ms, i) BY <1>1 DEF Answers
  <2>2. Count(ms, i, x) = c BY <1>1, <1>3, <2>1, CountsAre DEF c
  <2>3. u(0) = 0 /\ x + 0 = x /\ 0 \in 0 .. d
    <3>1. 0 \in Nat OBVIOUS
    <3> QED BY <1>1, <1>2, <1>4, <3>1
  <2> QED BY <1>3, <2>2, <2>3
<1>6. ASSUME NEW j \in 0 .. d - 1, j \in good PROVE j + 1 \in good
  <2>1. j + 1 \in 1 .. d /\ j + 1 \in 0 .. d /\ j \in Nat /\ x + (j + 1) = (x + j) + 1
        /\ x + j \in Nat
    BY <1>1, <1>2
  <2>2. x + (j + 1) \in 1 .. Len(ms) /\ IsResult(ms[x + (j + 1)]) /\ ms[x + (j + 1)].id = cs[j + 1]
    BY <1>1, <2>1
  <2>3. x + (j + 1) \in Answers(ms, i) <=> cs[j + 1] = i BY <1>1, <2>2 DEF Answers
  <2>4. (x + (j + 1)) - 1 = x + j BY <2>1
  <2>5. Count(ms, i, x + (j + 1)) = Count(ms, i, x + j) + IF cs[j + 1] = i THEN 1 ELSE 0
    BY <2>2, <2>3, <2>4, CountsAre
  <2>6. Count(ms, i, x + j) = c + u(j) BY <1>6
  <2>7. u(j) \in Nat /\ u(j + 1) = u(j) + IF cs[j + 1] = i THEN 1 ELSE 0 BY <1>4, <2>1
  <2>8. Count(ms, i, x + (j + 1)) = c + u(j + 1) BY <1>3, <2>5, <2>6, <2>7
  <2> QED BY <2>1, <2>8
<1>7. \A j \in good : Count(ms, i, x + j) = c + u(j) OBVIOUS
<1> HIDE DEF good
<1>8. 0 .. d \subseteq good BY <1>2, <1>5, <1>6, Induct
<1>9. \A j \in 0 .. d : Count(ms, i, x + j) = c + u(j) BY <1>7, <1>8
<1> QED BY <1>9 DEF u, c, d, cs

(* The answer to a call whose earlier results are taken is the result that *)
(* follows it.                                                             *)
LEMMA OwnAnswer ==
    ASSUME NEW ms \in Seq(Message), NEW x, Followed(ms, x), NEW j \in 1 .. Len(ms[x].calls),
           NEW taken, taken[ms[x].calls[j]] = Count(ms, ms[x].calls[j], x - 1)
    PROVE  /\ AnswerTo(ms, taken, ms[x].calls, j) = ms[x + j]
           /\ Queue(ms, taken, ms[x].calls[j]) # <<>>
<1> DEFINE cs == ms[x].calls
           i == cs[j]
           P == Answers(ms, i)
           f == Picks(ms, P)
           q == f[Len(ms)]
           t == Count(ms, i, x - 1)
           u == Uses(cs, j)
           y == x + j
           s == Queue(ms, taken, i)
<1>1. /\ x \in 1 .. Len(ms) /\ y \in 1 .. Len(ms) /\ IsResult(ms[y]) /\ ms[y].id = i
      /\ ms[x] \in Message
  BY DEF Followed
<1>2. cs \in Seq(Ids) /\ Len(cs) \in Nat /\ j \in 1 .. Len(cs) BY <1>1, MessageIs
<1>3. x - 1 \in 0 .. Len(ms) /\ y - 1 \in 0 .. Len(ms) /\ Len(ms) \in 0 .. Len(ms)
      /\ y \in 0 .. Len(ms)
      /\ Len(ms) \in y .. Len(ms)
  BY <1>1, SMTT(30)
<1>4. t \in Nat BY <1>3, CountsAre
<1>5. ResultsFor(ms, i) = q BY DEF ResultsFor, Picked, Answers
<1>0. /\ f \in [0 .. Len(ms) -> Seq(Message)]
      /\ \A n \in 1 .. Len(ms) : f[n] = IF n \in P THEN Append(f[n - 1], ms[n]) ELSE f[n - 1]
  BY PicksAre
<1>6. q \in Seq(Message) /\ f[y] \in Seq(Message) /\ f[y - 1] \in Seq(Message)
      /\ f[y] = IF y \in P THEN Append(f[y - 1], ms[y]) ELSE f[y - 1]
  BY <1>0, <1>1, <1>3
<1>7. y \in P BY <1>1 DEF Answers
<1>8. Len(f[y]) = t + u /\ u \in Nat
  <2>1. j \in 0 .. Len(cs) /\ j \in Nat BY <1>2
  <2>2. Count(ms, i, x + j) = t + UsesOf(cs, i, j)
    <3> HIDE DEF i
    <3> QED BY <2>1, BlockCounts
  <2>3. u = UsesOf(cs, i, j) BY DEF Uses, UsesOf
  <2>4. u \in Nat
    <3> HIDE DEF cs, i, u
    <3> QED BY <1>2, <2>1, <2>3, UsesAre
  <2> QED BY <2>2, <2>3, <2>4 DEF Count
<1>9. Len(f[y]) <= Len(q) /\ \A z \in 1 .. Len(f[y]) : q[z] = f[y][z]
  <2> DEFINE k == y
  <2>1. k \in 0 .. Len(ms) /\ Len(ms) \in k .. Len(ms) BY <1>3
  <2> HIDE DEF k, i
  <2>2. \A n \in k .. Len(ms) :
           /\ Len(Picks(ms, P)[k]) <= Len(Picks(ms, P)[n])
           /\ \A z \in 1 .. Len(Picks(ms, P)[k]) : Picks(ms, P)[n][z] = Picks(ms, P)[k][z]
    BY <2>1, PickCounts
  <2> QED BY <2>1, <2>2 DEF k
<1> DEFINE g == f[y]
           h == f[y - 1]
           m == ms[y]
<1>10. g = Append(h, m) /\ h \in Seq(Message) /\ m \in Message /\ g \in Seq(Message)
  <2> HIDE DEF f, y, q
  <2>1. g = Append(h, m) BY <1>6, <1>7
  <2>2. g \in Seq(Message) /\ h \in Seq(Message) BY <1>6
  <2>3. m \in Message BY <1>1
  <2> QED BY <2>1, <2>2, <2>3
<1>11. Len(g) = t + u /\ Len(g) <= Len(q) /\ \A z \in 1 .. Len(g) : q[z] = g[z] BY <1>8, <1>9
<1>12. q \in Seq(Message) BY <1>6
<1>13. s = SubSeq(q, t + 1, Len(q)) BY <1>5 DEF Queue
<1>14. AnswerTo(ms, taken, cs, j) = IF u <= Len(s) THEN s[u] ELSE Never(i) BY DEF AnswerTo
<1> HIDE DEF g, h, m, q, s, t, u, f
<1>15. Len(g) = Len(h) + 1 /\ g[Len(h) + 1] = m /\ Len(h) \in Nat BY <1>10, AppendProperties
<1>16. u # 0
  <2>1. u = UsesOf(cs, i, j) BY DEF Uses, UsesOf, u
  <2>2. j \in Nat /\ j > 0 BY <1>2
  <2> HIDE DEF cs, u, i
  <2>3. cs[j] = i BY DEF i
  <2>4. UsesOf(cs, i, j) # 0 BY <1>2, <2>2, <2>3, UsesAre
  <2> QED BY <2>1, <2>4
<1>17. q[t + u] = m /\ t \in 0 .. Len(q) /\ u \in 1 .. Len(q) - t /\ u <= Len(q) - t
  <2>1. Len(q) \in Nat BY <1>12
  <2>2. t + u \in 1 .. Len(g) /\ Len(g) = Len(h) + 1 BY <1>4, <1>8, <1>11, <1>15, <1>16
  <2>3. q[t + u] = g[t + u] /\ t + u = Len(h) + 1 BY <1>11, <1>15, <2>2
  <2> QED BY <1>4, <1>8, <1>11, <1>15, <1>16, <2>1, <2>3
<1>18. s \in Seq(Message) /\ Len(s) = Len(q) - t /\ \A z \in 1 .. Len(q) - t : s[z] = q[t + z]
  BY <1>12, <1>13, <1>17, PartIs
<1>19. s[u] = m /\ u <= Len(s) /\ s # <<>>
  <2>1. s[u] = m /\ u <= Len(s) BY <1>17, <1>18
  <2>2. Len(s) # 0 BY <1>8, <1>16, <1>18, <1>17
  <2> QED BY <2>1, <2>2
<1> QED BY <1>14, <1>19 DEF m, s

(* The cut that results are passed to is the only safe one behind them.    *)
LEMMA PastOnly ==
    ASSUME NEW ms \in Seq(Message), NEW n \in 0 .. Len(ms), NEW e \in n .. Len(ms), SafeCut(ms, e),
           \A l \in n + 1 .. e : IsResult(ms[l])
    PROVE  PastResults(ms, n) = e
<1> DEFINE p == PastResults(ms, n)
<1>1. p \in n .. Len(ms) /\ SafeCut(ms, p) /\ \A l \in n + 1 .. p : IsResult(ms[l]) BY PastIs
<1>2. Len(ms) \in Nat OBVIOUS
<1> HIDE DEF p
<1>3. ASSUME p < e PROVE FALSE
  <2>1. p + 1 \in n + 1 .. e /\ p # Len(ms) BY <1>1, <1>2, <1>3
  <2> QED BY <1>1, <2>1 DEF SafeCut
<1>4. ASSUME e < p PROVE FALSE
  <2>1. e + 1 \in n + 1 .. p /\ e # Len(ms) BY <1>1, <1>2, <1>4
  <2> QED BY <1>1, <2>1 DEF SafeCut
<1>5. p = e BY <1>1, <1>2, <1>3, <1>4
<1> QED BY <1>5 DEF p

(* A transcript up to the next message, and up to the end of its block.    *)
LEMMA PartPlus ==
    ASSUME NEW T, NEW s \in Seq(T), NEW n \in 1 .. Len(s)
    PROVE  SubSeq(s, 1, n) = Append(SubSeq(s, 1, n - 1), s[n])
<1> DEFINE u == SubSeq(s, 1, n - 1)
           v == SubSeq(s, 1, n)
           m == s[n]
<1>1. n - 1 \in 0 .. Len(s) /\ n \in 0 .. Len(s) OBVIOUS
<1>2. /\ u \in Seq(T) /\ Len(u) = n - 1 /\ \A i \in 1 .. n - 1 : u[i] = s[i]
      /\ v \in Seq(T) /\ Len(v) = n /\ \A i \in 1 .. n : v[i] = s[i]
  BY <1>1, PartIs
<1>3. m \in T /\ n \in Nat OBVIOUS
<1> DEFINE w == Append(u, m)
<1> HIDE DEF u, v, m
<1>4. w \in Seq(T) /\ Len(w) = Len(u) + 1 /\ w[Len(u) + 1] = m /\ \A i \in 1 .. Len(u) : w[i] = u[i]
  BY <1>2, <1>3, AppendProperties
<1> HIDE DEF w
<1>5. ASSUME NEW i \in 1 .. n PROVE w[i] = v[i]
  <2>1. CASE i = n BY <1>2, <1>3, <1>4, <2>1 DEF m
  <2>2. CASE i # n
    <3>1. i \in 1 .. n - 1 BY <1>3, <2>2
    <3> QED BY <1>2, <1>4, <3>1
  <2> QED BY <2>1, <2>2
<1>6. Len(w) = n BY <1>2, <1>3, <1>4
<1>7. w = v BY <1>2, <1>4, <1>5, <1>6, SeqEqual
<1> QED BY <1>7 DEF w, u, v, m

(* ... and with a whole block.                                             *)
LEMMA BlockPut ==
    ASSUME NEW T, NEW s \in Seq(T), NEW x \in 1 .. Len(s), NEW r \in Seq(T), x + Len(r) <= Len(s),
           \A j \in 1 .. Len(r) : r[j] = s[x + j]
    PROVE  SubSeq(s, 1, x - 1) \o (<<s[x]>> \o r) = SubSeq(s, 1, x + Len(r))
<1> DEFINE u == SubSeq(s, 1, x - 1)
           d == Len(r)
           e == x + d
           v == SubSeq(s, 1, e)
           m == <<s[x]>>
<1>1. d \in Nat /\ x \in Nat /\ x - 1 \in 0 .. Len(s) /\ e \in 0 .. Len(s) OBVIOUS
<1>2. /\ u \in Seq(T) /\ Len(u) = x - 1 /\ \A i \in 1 .. x - 1 : u[i] = s[i]
      /\ v \in Seq(T) /\ Len(v) = e /\ \A i \in 1 .. e : v[i] = s[i]
  BY <1>1, PartIs
<1>3. m \in Seq(T) /\ Len(m) = 1 /\ m[1] = s[x] OBVIOUS
<1> HIDE DEF u, v, m
<1> DEFINE c == m \o r
           w == u \o c
<1>4. /\ c \in Seq(T) /\ Len(c) = 1 + d
      /\ \A i \in 1 .. 1 + d : c[i] = IF i <= 1 THEN m[i] ELSE r[i - 1]
  <2>1. m \in Seq(T) BY <1>3
  <2>2. /\ c \in Seq(T) /\ Len(c) = Len(m) + d
        /\ \A i \in 1 .. Len(m) + d : c[i] = IF i <= Len(m) THEN m[i] ELSE r[i - Len(m)]
    BY <2>1, ConcatProperties
  <2> HIDE DEF c, d
  <2> QED BY <1>3, <2>2
<1> HIDE DEF c
<1>5. /\ w \in Seq(T) /\ Len(w) = Len(u) + Len(c)
      /\ \A i \in 1 .. Len(u) + Len(c) : w[i] = IF i <= Len(u) THEN u[i] ELSE c[i - Len(u)]
  <2>1. u \in Seq(T) /\ c \in Seq(T) BY <1>2, <1>4
  <2> QED BY <2>1, ConcatProperties
<1> HIDE DEF w
<1>6. Len(w) = e BY <1>1, <1>2, <1>4, <1>5
<1>7. ASSUME NEW i \in 1 .. e PROVE w[i] = s[i]
  <2>1. i \in 1 .. Len(u) + Len(c) BY <1>5, <1>6
  <2>2. CASE i <= x - 1
    <3>1. i \in 1 .. x - 1 BY <2>2
    <3> QED BY <1>2, <1>5, <2>1, <2>2, <3>1
  <2>3. CASE i = x
    <3>1. w[i] = c[i - Len(u)] /\ i - Len(u) = 1 BY <1>1, <1>2, <1>5, <2>1, <2>3
    <3>2. c[1] = m[1]
      <4>1. 1 \in 1 .. 1 + d BY <1>1
      <4> QED BY <1>4, <4>1
    <3> QED BY <1>3, <2>3, <3>1, <3>2
  <2>4. CASE i > x
    <3> DEFINE j == i - x
    <3>1. j \in 1 .. d /\ x + j = i BY <1>1, <2>4
    <3>2. w[i] = c[i - Len(u)] /\ i - Len(u) = j + 1 BY <1>1, <1>2, <1>5, <2>1, <2>4
    <3>3. c[j + 1] = r[j]
      <4>1. j + 1 \in 1 .. 1 + d /\ ~(j + 1 <= 1) /\ (j + 1) - 1 = j BY <1>1, <3>1
      <4> QED BY <1>4, <4>1
    <3>4. r[j] = s[x + j] BY <3>1
    <3> QED BY <3>1, <3>2, <3>3, <3>4
  <2> QED BY <1>1, <2>2, <2>3, <2>4
<1>8. w = v BY <1>2, <1>5, <1>6, <1>7, SeqEqual
<1> QED BY <1>8 DEF w, c, u, v, m

(* The pairing keeps every message of a legal beginning.                   *)
Kept(ms, e) == [out |-> SubSeq(ms, 1, e), taken |-> [i \in IdsOf(ms) |-> Count(ms, i, e)]]

(* The pairing takes a block as it is: each call finds its own result at   *)
(* the head of what is left of its queue.                                  *)
LEMMA BlockIsKept ==
    ASSUME NEW ms \in Seq(Message), NEW x, Followed(ms, x), Kept(ms, x - 1) \in Paired(Message, ms)
    PROVE  SanitizeOne(ms, Kept(ms, x - 1), ms[x]) = Kept(ms, x + Len(ms[x].calls))
<1> DEFINE a == Kept(ms, x - 1)
           m == ms[x]
           cs == m.calls
           d == Len(cs)
           one == SanitizeOne(ms, a, m)
           present == \E j \in 1 .. d : Queue(ms, a.taken, cs[j]) # <<>>
           r == [j \in 1 .. d |-> AnswerTo(ms, a.taken, cs, j)]
           I == IdsOf(ms)
<1>1. /\ x \in 1 .. Len(ms) /\ ~IsResult(m) /\ m \in Message
      /\ \A j \in 1 .. d : x + j \in 1 .. Len(ms) /\ IsResult(ms[x + j]) /\ ms[x + j].id = cs[j]
  BY DEF Followed
<1>2. cs \in Seq(Ids) /\ d \in Nat /\ DOMAIN cs = 1 .. d /\ (HasCalls(m) <=> d # 0)
  BY <1>1, MessageIs
<1>3. /\ a.out = SubSeq(ms, 1, x - 1) /\ a.taken = [i \in I |-> Count(ms, i, x - 1)]
      /\ a = [out |-> SubSeq(ms, 1, x - 1), taken |-> [i \in I |-> Count(ms, i, x - 1)]]
  BY DEF Kept
<1>4. one = IF ~HasCalls(m) THEN [a EXCEPT !.out = Append(a.out, m)]
            ELSE IF present
            THEN [out |-> a.out \o (<<m>> \o r), taken |-> Claim(a.taken, cs)]
            ELSE IF m.text # Blank THEN [a EXCEPT !.out = Append(a.out, Stripped(m))]
            ELSE a
  <2>1. Closed(Message) /\ x \in 1 .. Len(ms) /\ a \in Paired(Message, ms) BY <1>1, Closures
  <2> HIDE DEF a
  <2>2. one = IF IsResult(m) THEN a
            ELSE IF ~HasCalls(m) THEN [a EXCEPT !.out = Append(a.out, m)]
            ELSE IF present
            THEN [out |-> a.out \o (<<m>> \o r), taken |-> Claim(a.taken, cs)]
            ELSE IF m.text # Blank THEN [a EXCEPT !.out = Append(a.out, Stripped(m))]
            ELSE a
    BY <2>1, StepIs, ZenonT(30)
  <2> HIDE DEF one, r, present, m, cs
  <2> QED BY <1>1, <2>2 DEF m
<1>5. CASE d = 0
  <2>1. one = [a EXCEPT !.out = Append(a.out, m)] BY <1>2, <1>4, <1>5
  <2>2. SubSeq(ms, 1, x) = Append(SubSeq(ms, 1, x - 1), m) BY <1>1, PartPlus
  <2>3. \A i : Count(ms, i, x) = Count(ms, i, x - 1)
    <3>1. \A i : x \notin Answers(ms, i) BY <1>1 DEF Answers
    <3>2. \A i : Count(ms, i, x - 1) \in Nat
      <4>1. x - 1 \in 0 .. Len(ms) BY <1>1
      <4> QED BY <4>1, CountsAre
    <3> QED BY <1>1, <3>1, <3>2, CountsAre
  <2>4. x + d = x BY <1>1, <1>5
  <2>5. one = [out |-> SubSeq(ms, 1, x), taken |-> [i \in I |-> Count(ms, i, x)]]
    <3> DEFINE out1 == SubSeq(ms, 1, x - 1)
               out2 == SubSeq(ms, 1, x)
               tk1 == [i \in I |-> Count(ms, i, x - 1)]
               tk2 == [i \in I |-> Count(ms, i, x)]
    <3>1. tk1 = tk2 BY <2>3
    <3>2. a = [out |-> out1, taken |-> tk1] /\ a.out = out1 /\ out2 = Append(out1, m) BY <1>3, <2>2
    <3> HIDE DEF out1, out2, tk1, tk2, a
    <3>3. one = [out |-> out2, taken |-> tk2] BY <2>1, <3>1, <3>2
    <3> QED BY <3>3 DEF out2, tk2
  <2> QED BY <2>4, <2>5 DEF Kept
<1>6. CASE d # 0
  <2>1. \A j \in 1 .. d : cs[j] \in I
    <3>1. \A j \in 1 .. d : cs[j] \in ToSet(cs) BY <1>2 DEF ToSet
    <3>2. x \in DOMAIN ms BY <1>1
    <3> QED BY <3>1, <3>2 DEF IdsOf
  <2>2. \A j \in 1 .. d : a.taken[cs[j]] = Count(ms, cs[j], x - 1) BY <1>3, <2>1
  <2>3. \A j \in 1 .. d : AnswerTo(ms, a.taken, cs, j) = ms[x + j]
        /\ Queue(ms, a.taken, cs[j]) # <<>>
    <3> HIDE DEF a
    <3> QED BY <2>2, OwnAnswer
  <2>4. present
    <3>1. 1 \in 1 .. d BY <1>2, <1>6
    <3> QED BY <2>3, <3>1
  <2>5. one = [out |-> a.out \o (<<m>> \o r), taken |-> Claim(a.taken, cs)]
    BY <1>2, <1>4, <1>6, <2>4
  <2>6. r \in Seq(Message) /\ Len(r) = d /\ \A j \in 1 .. d : r[j] = ms[x + j]
    <3>1. \A j \in 1 .. d : r[j] = ms[x + j] /\ ms[x + j] \in Message BY <1>1, <2>3
    <3>2. r \in [1 .. d -> Message] BY <1>1, <2>3
    <3> HIDE DEF r, d
    <3>3. r \in Seq(Message) /\ Len(r) = d BY <1>2, <3>2
    <3> QED BY <3>1, <3>3
  <2>7. x + d <= Len(ms)
    <3>1. d \in 1 .. d BY <1>2, <1>6
    <3> QED BY <1>1, <3>1
  <2> HIDE DEF r
  <2>8. SubSeq(ms, 1, x - 1) \o (<<m>> \o r) = SubSeq(ms, 1, x + d)
    <3>1. x + Len(r) <= Len(ms) /\ \A j \in 1 .. Len(r) : r[j] = ms[x + j] BY <2>6, <2>7
    <3>2. SubSeq(ms, 1, x - 1) \o (<<ms[x]>> \o r) = SubSeq(ms, 1, x + Len(r))
      BY <1>1, <2>6, <3>1, BlockPut
    <3> QED BY <2>6, <3>2
  <2>9. Claim(a.taken, cs) = [i \in I |-> Count(ms, i, x + d)]
    <3>1. \A i \in I : Count(ms, i, x + d) = Count(ms, i, x - 1) + UsesOf(cs, i, d)
      <4>1. d \in 0 .. d BY <1>2
      <4> QED BY <4>1, BlockCounts
    <3> DEFINE tk == [i \in I |-> Count(ms, i, x - 1)]
    <3>2. Claim(tk, cs) = [i \in I |-> Count(ms, i, x - 1) + UsesOf(cs, i, d)]
      <4>1. DOMAIN tk = I /\ \A i \in I : tk[i] = Count(ms, i, x - 1) OBVIOUS
      <4> HIDE DEF tk, I, d
      <4>2. Claim(tk, cs) = [i \in DOMAIN tk |-> tk[i] + UsesOf(cs, i, d)] BY <1>2 DEF Claim, UsesOf
      <4> QED BY <4>1, <4>2
    <3>3. a.taken = tk BY <1>3
    <3> QED BY <3>1, <3>2, <3>3
  <2> QED BY <1>3, <2>5, <2>8, <2>9 DEF Kept
<1> QED BY <1>5, <1>6

(* A beginning that is legal by itself is kept as it is.                   *)
LEMMA KeepsIs ==
    ASSUME NEW ms \in Seq(Message), NEW b \in 0 .. Len(ms), WellFormed(SubSeq(ms, 1, b))
    PROVE  Sanitizing(ms)[b] = Kept(ms, b)
<1> DEFINE p == SubSeq(ms, 1, b)
           f == Sanitizing(ms)
           e(n) == PastResults(p, n)
           good == {n \in 0 .. b : f[n] = Kept(ms, e(n))}
<1>1. b \in Nat /\ Len(ms) \in Nat /\ DOMAIN ms = 1 .. Len(ms) OBVIOUS
<1>2. p \in Seq(Message) /\ Len(p) = b /\ (\A i \in 1 .. b : p[i] = ms[i]) /\ WellFormed(p)
  BY PartIs
<1>3. /\ f \in [0 .. Len(ms) -> Paired(Message, ms)]
      /\ f[0] = [out |-> <<>>, taken |-> [i \in IdsOf(ms) |-> 0]]
      /\ \A n \in 1 .. Len(ms) : f[n] = SanitizeOne(ms, f[n - 1], ms[n])
  BY Closures, SanitizingIs
<1> HIDE DEF p, f
<1>4. ASSUME NEW n \in 0 .. b PROVE /\ e(n) \in n .. b /\ SafeCut(p, e(n))
                                    /\ \A l \in n + 1 .. e(n) : IsResult(p[l])
  BY <1>2, PastIs
<1>5. ASSUME NEW n \in 0 .. b, NEW k \in n .. b, SafeCut(p, k), \A l \in n + 1 .. k : IsResult(p[l])
      PROVE e(n) = k
  BY <1>2, <1>5, PastOnly
<1> HIDE DEF e
<1>6. 0 \in good
  <2>1. 0 \in 0 .. b /\ 0 + 1 .. 0 = {} BY <1>1
  <2>2. SafeCut(p, 0) BY <1>2, FirstIs
  <2>3. e(0) = 0 BY <1>5, <2>1, <2>2
  <2>4. SubSeq(ms, 1, 0) = <<>> BY SubSeqEmpty
  <2>5. \A i : Count(ms, i, 0) = 0 BY CountsAre
  <2>6. f[0] = Kept(ms, 0) BY <1>3, <2>4, <2>5 DEF Kept
  <2> QED BY <2>1, <2>3, <2>6
<1>7. ASSUME NEW n \in 0 .. b - 1, n \in good PROVE n + 1 \in good
  <2> DEFINE x == n + 1
             m == ms[x]
             d == Len(m.calls)
  <2>1. /\ x \in 1 .. b /\ x \in 0 .. b /\ x \in 1 .. Len(ms) /\ n \in 0 .. b /\ x - 1 = n
        /\ n \in 0 .. Len(ms) /\ p[x] = m /\ m \in Message
    <3>1. x \in 1 .. b /\ x \in 0 .. b /\ x \in 1 .. Len(ms) /\ n \in 0 .. b /\ x - 1 = n
          /\ n \in 0 .. Len(ms)
      BY <1>1
    <3> QED BY <1>2, <3>1
  <2>2. f[n] = Kept(ms, e(n)) /\ f[n] \in Paired(Message, ms) BY <1>3, <1>7, <2>1
  <2>3. f[x] = SanitizeOne(ms, f[n], m) BY <1>3, <2>1
  <2>4. CASE IsResult(m)
    <3>1. e(n) \in x .. b
      <4> SUFFICES ASSUME e(n) = n PROVE FALSE
        <5>1. e(n) \in n .. b BY <1>4, <2>1
        <5> QED BY <2>1, <5>1
      <4>1. SafeCut(p, n) /\ n # Len(p) BY <1>2, <1>4, <2>1
      <4> QED BY <2>1, <2>4, <4>1 DEF SafeCut
    <3>2. SafeCut(p, e(n)) /\ \A l \in x + 1 .. e(n) : IsResult(p[l])
      <4>1. SafeCut(p, e(n)) /\ \A l \in n + 1 .. e(n) : IsResult(p[l]) BY <1>4, <2>1
      <4>2. \A l \in x + 1 .. e(n) : l \in n + 1 .. e(n) BY <2>1, <3>1
      <4> QED BY <4>1, <4>2
    <3>3. e(x) = e(n) BY <1>5, <2>1, <3>1, <3>2
    <3>4. SanitizeOne(ms, f[n], m) = f[n]
      <4> DEFINE a == f[n]
      <4>1. Closed(Message) /\ a \in Paired(Message, ms) BY <2>2, Closures
      <4> HIDE DEF a
      <4>2. SanitizeOne(ms, a, ms[x]) = a BY <2>1, <2>4, <4>1, StepIs
      <4> QED BY <4>2 DEF a
    <3> QED BY <2>1, <2>2, <2>3, <3>3, <3>4
  <2>5. CASE ~IsResult(m)
    <3>1. SafeCut(p, n) BY <1>2, <2>1, <2>5 DEF SafeCut
    <3>2. e(n) = n
      <4>1. n \in n .. b /\ n + 1 .. n = {} BY <1>1, <2>1
      <4> QED BY <1>5, <2>1, <3>1, <4>1
    <3>3. x \in 1 .. Len(p) /\ ~IsResult(p[x]) /\ Len(p[x].calls) = d /\ d \in Nat
      BY <1>2, <2>1, <2>5, MessageIs
    <3>4. /\ SafeCut(p, x + d)
          /\ \A j \in 1 .. d : x + j \in 1 .. b /\ IsResult(p[x + j]) /\ p[x + j].id = m.calls[j]
      <4> HIDE DEF x
      <4>1. LET y == x + Len(p[x].calls) IN
            /\ SafeCut(p, y)
            /\ \A j \in 1 .. Len(p[x].calls) :
                 x + j \in 1 .. Len(p) /\ IsResult(p[x + j]) /\ p[x + j].id = p[x].calls[j]
        BY <1>2, <3>3, BlockIs
      <4> QED BY <1>2, <2>1, <3>3, <4>1
    <3>5. e(x) = x + d
      <4>1. x + d \in x .. b
        <5>1. x + d \in 0 .. b BY <1>2, <3>4 DEF SafeCut
        <5> QED BY <2>1, <3>3, <5>1
      <4>2. ASSUME NEW l \in x + 1 .. x + d PROVE IsResult(p[l])
        <5>1. l - x \in 1 .. d /\ x + (l - x) = l
          <6>1. x \in Nat /\ d \in Nat BY <2>1, <3>3
          <6>2. l \in x + 1 .. x + d OBVIOUS
          <6> HIDE DEF x, d
          <6> QED BY <6>1, <6>2
        <5> QED BY <3>4, <5>1
      <4> QED BY <1>5, <2>1, <3>4, <4>1, <4>2
    <3>6. Followed(ms, x)
      <4>1. \A j \in 1 .. d : /\ x + j \in 1 .. Len(ms) /\ IsResult(ms[x + j])
                              /\ ms[x + j].id = m.calls[j]
        <5>1. \A j \in 1 .. d : x + j \in 1 .. b BY <3>4
        <5>2. \A k \in 1 .. b : k \in 1 .. Len(ms) BY <1>1
        <5> QED BY <1>2, <3>4, <5>1, <5>2
      <4> QED BY <2>1, <2>5, <4>1 DEF Followed
    <3>7. f[n] = Kept(ms, x - 1) /\ Kept(ms, x - 1) \in Paired(Message, ms) BY <2>1, <2>2, <3>2
    <3>8. SanitizeOne(ms, Kept(ms, x - 1), ms[x]) = Kept(ms, x + Len(ms[x].calls))
      <4> HIDE DEF x
      <4> QED BY <3>6, <3>7, BlockIsKept
    <3> QED BY <2>1, <2>3, <3>5, <3>7, <3>8
  <2> QED BY <2>4, <2>5
<1>8. \A n \in good : f[n] = Kept(ms, e(n)) OBVIOUS
<1> HIDE DEF good
<1>9. b \in good
  <2>1. 0 .. b \subseteq good BY <1>1, <1>6, <1>7, Induct
  <2> QED BY <1>1, <2>1
<1>10. e(b) = b
  <2>1. e(b) \in b .. b BY <1>1, <1>4
  <2> QED BY <1>1, <2>1
<1> QED BY <1>8, <1>9, <1>10 DEF f

(* sanitize_tool_pairs leaves a legal transcript alone.                    *)
LEMMA LegalIsKept ==
    ASSUME NEW ms \in Seq(Message), WellFormed(ms)
    PROVE  SanitizeToolPairs(ms) = ms
<1> DEFINE n == Len(ms)
<1>1. n \in 0 .. Len(ms) OBVIOUS
<1>2. SubSeq(ms, 1, n) = ms BY SubSeqFull
<1>3. Sanitizing(ms)[n] = Kept(ms, n) BY <1>1, <1>2, KeepsIs
<1> QED BY <1>2, <1>3 DEF SanitizeToolPairs, Kept

(* Of a transcript that ends with calls nobody answers it keeps all but    *)
(* the calls, and their message if it says something.                      *)
LEMMA CutShortIsKept ==
    ASSUME NEW ms \in Seq(Message), Len(ms) > 0, ~IsResult(ms[Len(ms)]), HasCalls(ms[Len(ms)]),
           WellFormed(SubSeq(ms, 1, Len(ms) - 1))
    PROVE  \/ SanitizeToolPairs(ms) = SubSeq(ms, 1, Len(ms) - 1)
           \/ SanitizeToolPairs(ms) = Append(SubSeq(ms, 1, Len(ms) - 1), Stripped(ms[Len(ms)]))
<1> DEFINE n == Len(ms)
           m == ms[n]
           a == Kept(ms, n - 1)
           pre == SubSeq(ms, 1, n - 1)
           cs == m.calls
           present == \E j \in 1 .. Len(cs) : Queue(ms, a.taken, cs[j]) # <<>>
           one == SanitizeOne(ms, a, m)
           r == [j \in 1 .. Len(cs) |-> AnswerTo(ms, a.taken, cs, j)]
<1>1. n \in 1 .. Len(ms) /\ n - 1 \in 0 .. Len(ms) /\ m \in Message /\ DOMAIN ms = 1 .. Len(ms)
      /\ n \in 0 .. Len(ms) /\ n \in Nat
  OBVIOUS
<1>2. Sanitizing(ms)[n - 1] = a BY <1>1, KeepsIs
<1>3. a \in Paired(Message, ms) /\ Sanitizing(ms)[n] = one
  <2>1. /\ Sanitizing(ms) \in [0 .. Len(ms) -> Paired(Message, ms)]
        /\ \A x \in 1 .. Len(ms) : Sanitizing(ms)[x] = SanitizeOne(ms, Sanitizing(ms)[x - 1], ms[x])
    BY Closures, SanitizingIs
  <2> DEFINE f == Sanitizing(ms)
  <2> HIDE DEF f
  <2>2. f[n - 1] \in Paired(Message, ms) /\ f[n] = SanitizeOne(ms, f[n - 1], ms[n])
    BY <1>1, <2>1 DEF f
  <2> QED BY <1>2, <2>2 DEF f
<1>4. a.out = pre /\ a.taken = [i \in IdsOf(ms) |-> Count(ms, i, n - 1)] BY DEF Kept
<1>5. cs \in Seq(Ids) /\ Len(cs) \in Nat /\ DOMAIN cs = 1 .. Len(cs) BY <1>1, MessageIs
<1>6. ASSUME NEW j \in 1 .. Len(cs) PROVE Queue(ms, a.taken, cs[j]) = <<>>
  <2> DEFINE i == cs[j]
             q == ResultsFor(ms, i)
             t == a.taken[i]
  <2>1. i \in IdsOf(ms)
    <3>1. i \in ToSet(cs) BY <1>5 DEF ToSet
    <3> QED BY <1>1, <3>1 DEF IdsOf
  <2>2. t = Count(ms, i, n - 1) BY <1>4, <2>1
  <2>3. n \notin Answers(ms, i) BY DEF Answers
  <2>4. Count(ms, i, n - 1) \in Nat BY <1>1, CountsAre
  <2>5. Count(ms, i, n) = Count(ms, i, n - 1) BY <1>1, <2>3, <2>4, CountsAre
  <2>6. Len(q) = Count(ms, i, n) BY DEF ResultsFor, Picked, Count, Answers
  <2>7. q \in Seq(ResultsOf(Message, i))
    <3>1. a.taken[i] \in Nat BY <2>2, <2>4
    <3> QED BY <3>1, QueueIs
  <2>8. Queue(ms, a.taken, i) = SubSeq(q, t + 1, Len(q)) BY DEF Queue
  <2> HIDE DEF q, t, i
  <2>9. Len(q) = t /\ t \in Nat BY <2>2, <2>4, <2>5, <2>6
  <2>10. SubSeq(q, t + 1, Len(q)) = <<>>
    <3>1. t + 1 > Len(q) /\ t + 1 \in Int /\ Len(q) \in Int BY <2>9
    <3> QED BY <3>1, SubSeqEmpty
  <2> QED BY <2>8, <2>10 DEF i
<1>7. one = IF IsResult(m) THEN a
            ELSE IF ~HasCalls(m) THEN [a EXCEPT !.out = Append(a.out, m)]
            ELSE IF present
            THEN [out |-> a.out \o (<<m>> \o r), taken |-> Claim(a.taken, cs)]
            ELSE IF m.text # Blank THEN [a EXCEPT !.out = Append(a.out, Stripped(m))]
            ELSE a
  <2>1. Closed(Message) BY Closures
  <2> HIDE DEF a, n
  <2>2. one = IF IsResult(m) THEN a
            ELSE IF ~HasCalls(m) THEN [a EXCEPT !.out = Append(a.out, m)]
            ELSE IF present
            THEN [out |-> a.out \o (<<m>> \o r), taken |-> Claim(a.taken, cs)]
            ELSE IF m.text # Blank THEN [a EXCEPT !.out = Append(a.out, Stripped(m))]
            ELSE a
    <3>1. n \in 1 .. Len(ms) /\ a \in Paired(Message, ms) BY <1>1, <1>3
    <3> QED BY <2>1, <3>1, StepIs, ZenonT(30)
  <2> QED BY <2>2
<1>8. ~present BY <1>6
<1>9. one = a \/ one = [a EXCEPT !.out = Append(a.out, Stripped(m))]
  <2>1. ~IsResult(m) /\ HasCalls(m) OBVIOUS
  <2> HIDE DEF one, a, present, m, r, cs
  <2> QED BY <1>7, <1>8, <2>1
<1>10. one.out = pre \/ one.out = Append(pre, Stripped(m))
  <2> DEFINE z == Append(a.out, Stripped(m))
  <2>1. a \in [out : Seq(Message), taken : [IdsOf(ms) -> Nat]] BY <1>3 DEF Paired
  <2> HIDE DEF a, z, one
  <2>2. [a EXCEPT !.out = z].out = z BY <2>1
  <2>3. one = a \/ one = [a EXCEPT !.out = z] BY <1>9 DEF z
  <2> QED BY <1>4, <2>2, <2>3 DEF z
<1>11. SanitizeToolPairs(ms) = one.out BY <1>3 DEF SanitizeToolPairs
<1> QED BY <1>10, <1>11

-----------------------------------------------------------------------------
(* What the runtime makes of a transcript (LiveHistory). *)

(* Of two legal transcripts, one after the other, each is faithful by      *)
(* itself.                                                                 *)
LEMMA JoinIsFaithful ==
    ASSUME NEW a \in Seq(Message), NEW b \in Seq(Message), WellFormed(a), WellFormed(b)
    PROVE  Faithful(a \o b) <=> Faithful(a) /\ Faithful(b)
<1> DEFINE c == a \o b
           n == Len(a)
           l == Len(b)
           TextsOf(m) == {m.id, Cleared, "never executed"}
<1>1. n \in Nat /\ l \in Nat OBVIOUS
<1>2. /\ c \in Seq(Message) /\ Len(c) = n + l
      /\ \A i \in 1 .. n + l : c[i] = IF i <= n THEN a[i] ELSE b[i - n]
  BY ConcatProperties
<1> HIDE DEF c
<1>3. \A i \in 1 .. n : \A j \in 1 .. Len(a[i].calls) : i + j \in 1 .. n BY LegalIs DEF CallsFit
<1>4. \A i \in 1 .. l : \A j \in 1 .. Len(b[i].calls) : i + j \in 1 .. l BY LegalIs DEF CallsFit
<1>5. /\ \A i \in 1 .. n : c[i] = a[i] /\ i \in 1 .. n + l
      /\ \A i \in 1 .. l : c[n + i] = b[i] /\ n + i \in 1 .. n + l
  <2>1. \A i \in 1 .. n : i \in 1 .. n + l /\ i <= n BY <1>1
  <2>2. \A i \in 1 .. l : n + i \in 1 .. n + l /\ ~(n + i <= n) /\ (n + i) - n = i BY <1>1
  <2> QED BY <1>2, <2>1, <2>2
<1>6. \A i \in 1 .. l : Len(b[i].calls) \in Nat BY MessageIs
<1>7. \A i \in 1 .. n + l : i \in 1 .. n \/ (i - n \in 1 .. l /\ n + (i - n) = i) BY <1>1
<1>8. Faithful(a) <=> \A i \in 1 .. n : \A j \in 1 .. Len(a[i].calls) :
        a[i + j].text \in TextsOf(a[i])
  BY <1>3 DEF Faithful
<1>9. Faithful(b) <=> \A i \in 1 .. l : \A j \in 1 .. Len(b[i].calls) :
        b[i + j].text \in TextsOf(b[i])
  BY <1>4 DEF Faithful
<1>10. Faithful(c) <=> \A i \in 1 .. n + l : \A j \in 1 .. Len(c[i].calls) :
                          i + j \in 1 .. n + l => c[i + j].text \in TextsOf(c[i])
  BY <1>2 DEF Faithful
<1> HIDE DEF TextsOf, n, l
<1>11. ASSUME Faithful(c) PROVE Faithful(a) /\ Faithful(b)
  <2>1. Faithful(a) BY <1>3, <1>5, <1>8, <1>10, <1>11
  <2>2. ASSUME NEW i \in 1 .. l, NEW j \in 1 .. Len(b[i].calls)
        PROVE b[i + j].text \in TextsOf(b[i])
    <3>1. i + j \in 1 .. l BY <1>4
    <3>2. c[n + i] = b[i] /\ c[n + (i + j)] = b[i + j] /\ n + i \in 1 .. n + l
          /\ n + (i + j) \in 1 .. n + l
      BY <1>5, <3>1
    <3>3. (n + i) + j = n + (i + j) BY <1>1, <1>6
    <3> QED BY <1>10, <1>11, <3>2, <3>3
  <2> QED BY <1>9, <2>1, <2>2
<1>12. ASSUME Faithful(a), Faithful(b) PROVE Faithful(c)
  <2>1. ASSUME NEW i \in 1 .. n, NEW j \in 1 .. Len(c[i].calls)
        PROVE c[i + j].text \in TextsOf(c[i])
    <3>1. c[i] = a[i] BY <1>5
    <3>2. i + j \in 1 .. n BY <1>3, <3>1
    <3> QED BY <1>5, <1>8, <1>12, <3>1, <3>2
  <2>2. ASSUME NEW k \in 1 .. l, NEW j \in 1 .. Len(c[n + k].calls)
        PROVE c[(n + k) + j].text \in TextsOf(c[n + k])
    <3>1. c[n + k] = b[k] BY <1>5
    <3>2. k + j \in 1 .. l BY <1>4, <3>1
    <3>3. (n + k) + j = n + (k + j) BY <1>1, <1>6, <3>1
    <3>4. c[n + (k + j)] = b[k + j] BY <1>5, <3>2
    <3> QED BY <1>9, <1>12, <3>1, <3>3, <3>4
  <2>3. ASSUME NEW i \in 1 .. n + l, NEW j \in 1 .. Len(c[i].calls)
        PROVE c[i + j].text \in TextsOf(c[i])
    <3>1. CASE i \in 1 .. n BY <2>1, <3>1
    <3>2. CASE i - n \in 1 .. l /\ n + (i - n) = i BY <2>2, <3>2
    <3> QED BY <1>7, <3>1, <3>2
  <2> QED BY <1>10, <2>3
<1> QED BY <1>11, <1>12 DEF c

(* Whole transcripts can be joined ...                                     *)
LEMMA WholeJoin ==
    ASSUME NEW T \in SUBSET Message, NEW f \in BOOLEAN, NEW a \in Whole(T, f), NEW b \in Whole(T, f)
    PROVE  a \o b \in Whole(T, f)
<1>1. a \in Seq(T) /\ b \in Seq(T) /\ WellFormed(a) /\ WellFormed(b) /\ (f => Faithful(a)
      /\ Faithful(b))
  BY DEF Whole
<1>2. a \in Seq(Message) /\ b \in Seq(Message)
  <2> HIDE DEF Message
  <2> QED BY <1>1, SeqMonotonic
<1>3. a \o b \in Seq(T) BY <1>1, ConcatProperties
<1>4. WellFormed(a \o b) BY <1>1, <1>2, JoinIsLegal
<1>5. f => Faithful(a \o b) BY <1>1, <1>2, JoinIsFaithful
<1> QED BY <1>3, <1>4, <1>5 DEF Whole

(* ... and cut where it is safe, ...                                       *)
LEMMA WholeCut ==
    ASSUME NEW T \in SUBSET Message, NEW f \in BOOLEAN, NEW s \in Whole(T, f), NEW k, SafeCut(s, k)
    PROVE  SubSeq(s, 1, k) \in Whole(T, f) /\ SubSeq(s, k + 1, Len(s)) \in Whole(T, f)
<1> DEFINE a == SubSeq(s, 1, k)
           b == SubSeq(s, k + 1, Len(s))
<1>1. s \in Seq(T) /\ WellFormed(s) /\ (f => Faithful(s)) /\ k \in 0 .. Len(s) BY DEF Whole, SafeCut
<1>2. a \in Seq(T) /\ b \in Seq(T) /\ a \o b = s BY <1>1, PartIs
<1>3. s \in Seq(Message) BY <1>1, SeqMonotonic
<1>4. WellFormed(a) /\ WellFormed(b) BY <1>1, <1>3, CutsAreLegal
<1> HIDE DEF a, b
<1>5. a \in Seq(Message) /\ b \in Seq(Message) BY <1>2, SeqMonotonic
<1>6. f => Faithful(a) /\ Faithful(b) BY <1>1, <1>2, <1>4, <1>5, JoinIsFaithful
<1>7. a \in Whole(T, f) /\ b \in Whole(T, f) BY <1>2, <1>4, <1>6 DEF Whole
<1> QED BY <1>7 DEF a, b

(* ... and a message without calls is one, as is the empty transcript.     *)
LEMMA WholeOne ==
    ASSUME NEW T \in SUBSET Message, NEW f \in BOOLEAN, NEW m \in T, ~HasCalls(m), ~IsResult(m)
    PROVE  <<m>> \in Whole(T, f) /\ <<>> \in Whole(T, f)
<1> DEFINE w == <<m>>
<1>1. w \in Seq(T) /\ WellFormed(w) /\ Len(w) = 1 /\ w[1] = m BY OneIsLegal
<1>2. Len(m.calls) = 0
  <2>1. m \in Message OBVIOUS
  <2> QED BY <2>1, MessageIs
<1> HIDE DEF w
<1>3. Faithful(w)
  <2>1. \A i \in 1 .. Len(w) : Len(w[i].calls) = 0 BY <1>1, <1>2
  <2>2. 1 .. 0 = {} OBVIOUS
  <2> QED BY <2>1, <2>2 DEF Faithful
<1>4. w \in Whole(T, f) BY <1>1, <1>3 DEF Whole
<1>5. <<>> \in Seq(T) /\ Len(<<>>) = 0 /\ DOMAIN <<>> = {} OBVIOUS
<1>6. <<>> \in Whole(T, f)
  <2> DEFINE e == <<>>
  <2>1. e \in Seq(T) /\ Len(e) = 0 /\ DOMAIN e = {} BY <1>5
  <2> HIDE DEF e
  <2>2. WellFormed(e) BY <2>1 DEF WellFormed
  <2>5. \A i \in 1 .. Len(e) : FALSE BY <2>1
  <2>3. Faithful(e) BY <2>5 DEF Faithful
  <2>4. e \in Whole(T, f) BY <2>1, <2>2, <2>3 DEF Whole
  <2> QED BY <2>4 DEF e
<1> QED BY <1>4, <1>6 DEF w

(* A transcript that opens with the system message and has no other.       *)
SystemFirst(ms) == ms # <<>> /\ ms[1].role = "system"
/\ \A i \in 2 .. Len(ms) : ms[i].role # "system"

(* A transcript that opens with the system's message is whole, and         *)
(* NoSystem and SystemOnly take it apart again.                            *)
LEMMA OpenedIs ==
    ASSUME NEW f \in BOOLEAN, NEW y \in Systems, NEW s \in Whole(Plain, f)
    PROVE  /\ <<y>> \o s \in Whole(Message, f) /\ SystemFirst(<<y>> \o s)
           /\ Len(<<y>> \o s) = Len(s) + 1 /\ (<<y>> \o s)[1] = y
           /\ SystemOnly(<<y>> \o s) = <<y>> /\ NoSystem(<<y>> \o s) = s
<1> DEFINE w == <<y>>
           c == w \o s
           n == Len(s)
<1>1. y \in Message /\ y.role = "system" /\ ~HasCalls(y) /\ ~IsResult(y)
  BY DEF Systems, Message, IsResult
<1>2. w \in Whole(Message, f) /\ w \in Seq(Message) /\ Len(w) = 1 /\ w[1] = y BY <1>1, WholeOne
<1>3. Plain \in SUBSET Message /\ s \in Seq(Plain) /\ WellFormed(s) /\ (f => Faithful(s))
      /\ n \in Nat
  BY DEF Plain, Whole
<1>4. s \in Seq(Message) /\ s \in Whole(Message, f)
  <2>1. s \in Seq(Message) BY <1>3, SeqMonotonic
  <2> QED BY <1>3, <2>1 DEF Whole
<1> HIDE DEF w
<1>5. c \in Whole(Message, f) BY <1>2, <1>4, WholeJoin
<1>6. /\ c \in Seq(Message) /\ Len(c) = 1 + n
      /\ \A i \in 1 .. 1 + n : c[i] = IF i <= 1 THEN w[i] ELSE s[i - 1]
  <2>1. w \in Seq(Message) BY <1>2
  <2>2. /\ c \in Seq(Message) /\ Len(c) = Len(w) + n
        /\ \A i \in 1 .. Len(w) + n : c[i] = IF i <= Len(w) THEN w[i] ELSE s[i - Len(w)]
    BY <1>4, <2>1, ConcatProperties
  <2> HIDE DEF c, n
  <2> QED BY <1>2, <2>2
<1> HIDE DEF c
<1>7. c[1] = y /\ 1 \in 1 .. Len(c) /\ c # <<>>
  <2>1. 1 \in 1 .. 1 + n BY <1>3
  <2>2. c # <<>> BY <1>3, <1>6
  <2> QED BY <1>2, <1>6, <2>1, <2>2
<1>8. ASSUME NEW i \in 2 .. Len(c) PROVE c[i].role # "system" /\ i \in 1 .. Len(c)
  <2>1. i \in 1 .. 1 + n /\ ~(i <= 1) /\ i - 1 \in 1 .. n BY <1>3, <1>6
  <2>2. c[i] = s[i - 1] BY <1>6, <2>1
  <2>3. s[i - 1] \in Plain BY <1>3, <2>1
  <2> QED BY <1>6, <2>1, <2>2, <2>3 DEF Plain
<1>9. SystemFirst(c) BY <1>1, <1>7, <1>8 DEF SystemFirst
<1> DEFINE P == {k \in DOMAIN c : c[k].role = "system"}
           Q == {k \in DOMAIN c : c[k].role # "system"}
<1>10. DOMAIN c = 1 .. Len(c) BY <1>6
<1>11. 1 \in P /\ 1 \notin Q /\ (1 + 1 .. Len(c)) \cap P = {} /\ 1 + 1 .. Len(c) \subseteq Q
  BY <1>1, <1>7, <1>8, <1>10
<1>12. SystemOnly(c) = Picked(c, P) /\ NoSystem(c) = Picked(c, Q) BY DEF SystemOnly, NoSystem
<1> HIDE DEF P, Q
<1>13. 1 \in 0 .. Len(c) BY <1>7
<1>14. Picked(c, P) = Picks(c, P)[1] /\ Picked(c, Q) = Picks(c, Q)[1] \o SubSeq(c, 1 + 1, Len(c))
  <2> DEFINE k == 1
  <2>1. k \in 0 .. Len(c) /\ (k + 1 .. Len(c)) \cap P = {} /\ k + 1 .. Len(c) \subseteq Q
    BY <1>11, <1>13
  <2>2. c \in Seq(Message) BY <1>6
  <2> HIDE DEF k
  <2>3. Picked(c, P) = Picks(c, P)[k] BY <2>1, <2>2, PickStretch
  <2>4. Picked(c, Q) = Picks(c, Q)[k] \o SubSeq(c, k + 1, Len(c)) BY <2>1, <2>2, PickStretch
  <2> QED BY <2>3, <2>4 DEF k
<1>15. Picks(c, P)[1] = w /\ Picks(c, Q)[1] = <<>>
  <2>1. \A R : /\ Picks(c, R)[0] = <<>>
               /\ \A i \in 1 .. Len(c) : Picks(c, R)[i] = IF i \in R THEN Append(Picks(c,
                  R)[i - 1], c[i])
                                                        ELSE Picks(c, R)[i - 1]
    BY <1>6, PicksAre
  <2>2. 1 - 1 = 0 OBVIOUS
  <2>3. Picks(c, Q)[1] = <<>> BY <1>7, <1>11, <2>1, <2>2
  <2>4. Picks(c, P)[1] = Append(<<>>, y)
    <3>1. Picks(c, P)[1] = Append(Picks(c, P)[1 - 1], c[1]) BY <1>7, <1>11, <2>1
    <3>2. Picks(c, P)[0] = <<>> BY <2>1
    <3> DEFINE z == Picks(c, P)[0]
               m == c[1]
    <3>3. z = <<>> /\ m = y /\ Picks(c, P)[1] = Append(z, m) BY <1>7, <2>2, <3>1, <3>2
    <3> HIDE DEF z, m
    <3> QED BY <3>3
  <2>5. Append(<<>>, y) = w BY DEF w
  <2> QED BY <2>3, <2>4, <2>5
<1>16. SubSeq(c, 1 + 1, Len(c)) = s
  <2> DEFINE v == SubSeq(c, 1 + 1, Len(c))
  <2>1. v \in Seq(Message) /\ Len(v) = Len(c) - 1 /\ \A i \in 1 .. Len(c) - 1 : v[i] = c[1 + i]
    BY <1>6, <1>13, PartIs
  <2> HIDE DEF v
  <2>2. Len(v) = n BY <1>3, <1>6, <2>1
  <2>3. ASSUME NEW i \in 1 .. n PROVE v[i] = s[i]
    <3>1. i \in 1 .. Len(c) - 1 /\ 1 + i \in 1 .. 1 + n /\ ~(1 + i <= 1) /\ (1 + i) - 1 = i
      BY <1>3, <1>6
    <3> QED BY <1>6, <2>1, <3>1
  <2>4. v = s BY <1>4, <2>1, <2>2, <2>3, SeqEqual
  <2> QED BY <2>4 DEF v
<1>17. <<>> \o s = s BY <1>4, ConcatEmptySeq
<1>18. SystemOnly(c) = w /\ NoSystem(c) = s BY <1>12, <1>14, <1>15, <1>16, <1>17
<1>19. Len(c) = Len(s) + 1 BY <1>3, <1>6
<1> QED BY <1>5, <1>7, <1>9, <1>18, <1>19 DEF c, w

(* ... and the other way round.                                            *)
LEMMA OpensIs ==
    ASSUME NEW f \in BOOLEAN, NEW ms \in Whole(Message, f), SystemFirst(ms)
    PROVE  ms \in Opened(f)
<1> DEFINE y == ms[1]
           s == SubSeq(ms, 1 + 1, Len(ms))
           w == <<y>>
<1>1. ms \in Seq(Message) /\ WellFormed(ms) /\ Len(ms) \in Nat BY DEF Whole
<1>2. 1 \in 1 .. Len(ms) /\ 1 \in 0 .. Len(ms) BY <1>1, EmptySeq DEF SystemFirst
<1>3. y \in Systems BY <1>1, <1>2 DEF Systems, SystemFirst
<1>4. SafeCut(ms, 1)
  <2>1. ~IsResult(y) /\ Len(y.calls) = 0
    <3>1. ~IsResult(y) /\ ~HasCalls(y) /\ y \in Message BY <1>3 DEF Systems, Message, IsResult
    <3> QED BY <3>1, MessageIs
  <2>2. SafeCut(ms, 1 + Len(ms[1].calls)) BY <1>1, <1>2, <2>1, BlockIs
  <2> QED BY <2>1, <2>2
<1>5. s \in Whole(Message, f) BY <1>4, WholeCut
<1>6. /\ s \in Seq(Message) /\ Len(s) = Len(ms) - 1 /\ \A i \in 1 .. Len(ms) - 1 : s[i] = ms[1 + i]
      /\ SubSeq(ms, 1, 1) \o s = ms /\ SubSeq(ms, 1, 1) \in Seq(Message)
         /\ Len(SubSeq(ms, 1, 1)) = 1
      /\ SubSeq(ms, 1, 1)[1] = ms[1]
  <2> DEFINE k == 1
  <2>1. k \in 0 .. Len(ms) /\ 1 \in 1 .. k BY <1>2
  <2> HIDE DEF k
  <2>2. /\ SubSeq(ms, 1, k) \in Seq(Message) /\ Len(SubSeq(ms, 1, k)) = k
        /\ \A i \in 1 .. k : SubSeq(ms, 1, k)[i] = ms[i]
        /\ SubSeq(ms, k + 1, Len(ms)) \in Seq(Message)
           /\ Len(SubSeq(ms, k + 1, Len(ms))) = Len(ms) - k
        /\ \A i \in 1 .. Len(ms) - k : SubSeq(ms, k + 1, Len(ms))[i] = ms[k + i]
        /\ SubSeq(ms, 1, k) \o SubSeq(ms, k + 1, Len(ms)) = ms
    BY <1>1, <2>1, PartIs
  <2> QED BY <2>1, <2>2 DEF k
<1>7. SubSeq(ms, 1, 1) = w
  <2> DEFINE a == SubSeq(ms, 1, 1)
  <2>1. a \in Seq(Message) /\ Len(a) = 1 /\ a[1] = y BY <1>6
  <2>2. w \in Seq(Message) /\ Len(w) = 1 /\ w[1] = y BY <1>1, <1>2
  <2> HIDE DEF a, w, y
  <2>3. \A i \in 1 .. 1 : i = 1 OBVIOUS
  <2>4. a = w BY <2>1, <2>2, <2>3, SeqEqual
  <2> QED BY <2>4 DEF a
<1> HIDE DEF s, w
<1>8. s \in Whole(Plain, f)
  <2>1. \A i \in 1 .. Len(s) : s[i] \in Plain
    <3>1. ASSUME NEW i \in 1 .. Len(s) PROVE s[i] \in Plain
      <4>1. i \in 1 .. Len(ms) - 1 /\ 1 + i \in 2 .. Len(ms) /\ 1 + i \in 1 .. Len(ms) BY <1>1, <1>6
      <4>2. ms[1 + i].role # "system" /\ ms[1 + i] \in Message BY <1>1, <4>1 DEF SystemFirst
      <4> QED BY <1>6, <4>1, <4>2 DEF Plain
    <3> QED BY <3>1
  <2>2. s \in Seq(Plain)
    <3>1. s \in [1 .. Len(s) -> Plain] /\ Len(s) \in Nat BY <1>6, <2>1
    <3> QED BY <3>1
  <2> QED BY <1>5, <2>2 DEF Whole
<1>9. ms = w \o s BY <1>6, <1>7
<1> QED BY <1>3, <1>8, <1>9 DEF Opened, w

(* What the later proofs use of such a transcript; the pairing leaves it   *)
(* alone.                                                                  *)
LEMMA OpenedFacts ==
    ASSUME NEW f \in BOOLEAN, NEW ms \in Opened(f)
    PROVE  /\ ms \in Whole(Message, f) /\ ms \in Seq(Message) /\ WellFormed(ms)
              /\ (f => Faithful(ms))
           /\ SystemFirst(ms) /\ Len(ms) \in Nat /\ Len(ms) > 0 /\ NoSystem(ms) \in Whole(Plain, f)
           /\ \E y \in Systems : SystemOnly(ms) = <<y>>
           /\ SanitizeToolPairs(ms) = ms
<1>1. PICK y \in Systems, s \in Whole(Plain, f) : ms = <<y>> \o s BY SMTT(30) DEF Opened
<1>2. ms \in Whole(Message, f) /\ SystemFirst(ms) /\ NoSystem(ms) = s /\ SystemOnly(ms) = <<y>>
      /\ Len(ms) = Len(s) + 1
  BY <1>1, OpenedIs
<1>3. ms \in Seq(Message) /\ WellFormed(ms) /\ (f => Faithful(ms)) BY <1>2 DEF Whole
<1>4. Len(s) \in Nat BY DEF Whole
<1>5. Len(ms) \in Nat /\ Len(ms) > 0 BY <1>2, <1>4
<1> QED BY <1>2, <1>3, <1>5, LegalIsKept

(* Clearing old results leaves everything in its place.                    *)
LEMMA PrunedIs ==
    ASSUME NEW f \in BOOLEAN, NEW ms \in Opened(f), NEW retain
    PROVE  PruneRetained(ms, retain) \in Opened(f)
<1> DEFINE r == PruneRetained(ms, retain)
           n == Len(ms)
           later(k) == Cardinality({i \in DOMAIN ms : i > k /\ IsResult(ms[i])})
<1>1. ms \in Seq(Message) /\ WellFormed(ms) /\ (f => Faithful(ms)) /\ SystemFirst(ms) /\ n \in Nat
      /\ DOMAIN ms = 1 .. n /\ n > 0
  BY OpenedFacts
<1>2. r = [k \in 1 .. n |-> IF IsResult(ms[k])
      /\ later(k) >= retain THEN [ms[k] EXCEPT !.text = Cleared]
                            ELSE ms[k]]
  BY <1>1 DEF PruneRetained
<1> HIDE DEF later, r
<1>3. ASSUME NEW k \in 1 .. n
      PROVE  /\ r[k] \in Message /\ r[k].role = ms[k].role /\ r[k].calls = ms[k].calls
             /\ r[k].id = ms[k].id /\ r[k].text \in {ms[k].text, Cleared}
  <2> DEFINE m == ms[k]
             c == [m EXCEPT !.text = Cleared]
  <2>1. m \in [role : {"system", "user", "assistant", "tool"}, calls : Seq(Ids), id : Words,
        text : Words]
        /\ (HasCalls(m) => m.role = "assistant")
    BY <1>1 DEF Message
  <2>2. r[k] = IF IsResult(m) /\ later(k) >= retain THEN c ELSE m BY <1>2
  <2> HIDE DEF m
  <2>3. /\ c.role = m.role /\ c.calls = m.calls /\ c.id = m.id /\ c.text = Cleared
        /\ c \in [role : {"system", "user", "assistant", "tool"}, calls : Seq(Ids), id : Words,
           text : Words]
    BY <2>1 DEF Words
  <2> HIDE DEF c
  <2>4. c \in Message /\ m \in Message BY <2>1, <2>3 DEF Message, HasCalls
  <2>5. r[k] = c \/ r[k] = m BY <2>2
  <2> QED BY <2>3, <2>4, <2>5 DEF m
<1>4. r \in Seq(Message) /\ Len(r) = n
  <2>1. r \in [1 .. n -> Message] BY <1>2, <1>3
  <2> HIDE DEF n
  <2> QED BY <1>1, <2>1
<1> HIDE DEF n
<1>5. \A k \in 1 .. n : IsResult(r[k]) <=> IsResult(ms[k]) BY <1>3 DEF IsResult
<1>6. WellFormed(r)
  <2>1. ASSUME NEW i \in 1 .. n PROVE CallsFit(r, i) /\ ResultFits(r, i)
    <3>1. CallsFit(ms, i) /\ ResultFits(ms, i) BY <1>1, LegalIs DEF n
    <3>2. CallsFit(r, i)
      <4>1. r[i].calls = ms[i].calls BY <1>3
      <4>2. ASSUME NEW j \in 1 .. Len(ms[i].calls)
            PROVE i + j \in 1 .. n /\ IsResult(r[i + j]) /\ r[i + j].id = ms[i].calls[j]
        <5>1. i + j \in 1 .. n /\ IsResult(ms[i + j]) /\ ms[i + j].id = ms[i].calls[j]
          BY <3>1 DEF CallsFit, n
        <5> QED BY <1>3, <1>5, <5>1
      <4> QED BY <1>4, <4>1, <4>2 DEF CallsFit
    <3>3. ASSUME IsResult(r[i])
          PROVE \E a \in 1 .. i - 1 : /\ ~IsResult(r[a]) /\ i - a <= Len(r[a].calls)
                                      /\ \A k \in a + 1 .. i : IsResult(r[k])
      <4>1. PICK a \in 1 .. i - 1 : /\ ~IsResult(ms[a]) /\ i - a <= Len(ms[a].calls)
                                    /\ \A k \in a + 1 .. i : IsResult(ms[k])
        BY <1>5, <3>1, <3>3 DEF ResultFits
      <4>2. a \in 1 .. n /\ \A k \in a + 1 .. i : k \in 1 .. n BY <1>1
      <4> QED BY <1>3, <1>5, <4>1, <4>2
    <3> QED BY <3>2, <3>3 DEF ResultFits
  <2> QED BY <1>4, <2>1, LegalIs
<1>7. ASSUME f PROVE Faithful(r)
  <2>1. ASSUME NEW i \in 1 .. n, NEW j \in 1 .. Len(r[i].calls), i + j \in 1 .. n
        PROVE r[i + j].text \in {r[i].id, Cleared, "never executed"}
    <3>1. r[i].calls = ms[i].calls /\ r[i].id = ms[i].id BY <1>3
    <3>2. ms[i + j].text \in {ms[i].id, Cleared, "never executed"}
      BY <1>1, <1>7, <2>1, <3>1 DEF Faithful, n
    <3>3. r[i + j].text \in {ms[i + j].text, Cleared} BY <1>3, <2>1
    <3> QED BY <3>1, <3>2, <3>3
  <2> QED BY <1>4, <2>1 DEF Faithful
<1>8. SystemFirst(r)
  <2>1. 1 \in 1 .. n /\ \A i \in 2 .. n : i \in 1 .. n BY <1>1
  <2>2. r # <<>> BY <1>1, <1>4
  <2> QED BY <1>1, <1>3, <1>4, <2>1, <2>2 DEF SystemFirst, n
<1>9. r \in Whole(Message, f) BY <1>4, <1>6, <1>7 DEF Whole
<1> QED BY <1>8, <1>9, OpensIs DEF r

(* The summary is a plain message.                                         *)
LEMMA SummaryIs == Summary \in Plain /\ ~HasCalls(Summary) /\ ~IsResult(Summary)
<1>1. Summary = [role |-> "user", calls |-> <<>>, id |-> NoId, text |-> "summary"]
  BY DEF Summary, User
<1>2. <<>> \in Seq(Ids) OBVIOUS
<1>3. NoId \in Words /\ "summary" \in Words BY DEF Words
<1> DEFINE m == Summary
<1>4. /\ m \in [role : {"system", "user", "assistant", "tool"}, calls : Seq(Ids), id : Words,
         text : Words]
      /\ m.calls = <<>> /\ m.role = "user"
  BY <1>1, <1>2, <1>3
<1> HIDE DEF m
<1>5. m \in Plain /\ ~HasCalls(m) /\ ~IsResult(m) BY <1>4 DEF Plain, Message, HasCalls, IsResult
<1> QED BY <1>5 DEF m

(* Legal parts of a whole transcript are whole.                            *)
LEMMA PartsOfWhole ==
    ASSUME NEW f \in BOOLEAN, NEW s \in Whole(Plain, f), NEW a \in Seq(Plain), NEW b \in Seq(Plain),
           WellFormed(a), WellFormed(b), a \o b = s
    PROVE  a \in Whole(Plain, f) /\ b \in Whole(Plain, f)
<1>1. Plain \in SUBSET Message BY DEF Plain
<1>2. a \in Seq(Message) /\ b \in Seq(Message) BY <1>1, SeqMonotonic
<1>3. f => Faithful(s) BY DEF Whole
<1>4. f => Faithful(a) /\ Faithful(b) BY <1>2, <1>3, JoinIsFaithful
<1> QED BY <1>4 DEF Whole

(* Both ways of making room leave a transcript that opens with the system  *)
(* message and is whole.                                                   *)
LEMMA FoldIs ==
    ASSUME NEW f \in BOOLEAN, NEW ms \in Opened(f), NEW protect \in Nat, NEW keep \in Nat,
           keep >= 2,
           NEW window \in Nat
    PROVE  FoldMiddle(ms, protect, keep, window) \in Opened(f)
<1> DEFINE s == NoSystem(ms)
           plan == PlanFoldRegions(s, protect, keep)
           w == SystemOnly(ms)
           kept == Trims(w, s, window)[Len(s)]
           fold == FoldMiddle(ms, protect, keep, window)
           one == <<Summary>>
<1>1. PICK y \in Systems : w = <<y>> BY OpenedFacts
<1>2. s \in Whole(Plain, f) /\ s \in Seq(Plain) /\ WellFormed(s) BY OpenedFacts DEF Whole
<1>3. Plain \in SUBSET Message BY DEF Plain
<1>4. w \in Seq(Message) /\ Len(w) \in Nat
  <2>1. y \in Message BY DEF Systems
  <2> QED BY <1>1, <2>1
<1>5. fold = IF Len(s) <= keep + protect + 1 THEN SanitizeToolPairs(w \o kept)
             ELSE IF plan.middle = <<>> THEN SanitizeToolPairs((w \o plan.head) \o plan.tail)
             ELSE SanitizeToolPairs(((w \o plan.head) \o one) \o plan.tail)
  BY DEF FoldMiddle, HardTrimSafe
<1> HIDE DEF s
<1>6. kept \in Whole(Plain, f)
  <2>1. kept \in EndsOf(s)
    <3> HIDE DEF w
    <3> QED BY <1>2, <1>3, <1>4, TrimIs
  <2>2. PICK d \in {k \in 0 .. Len(s) : SafeCut(s, k)} : kept = SubSeq(s, d + 1, Len(s))
    BY <2>1 DEF EndsOf
  <2> QED BY <1>2, <1>3, <2>2, WholeCut
<1>7. /\ \A part \in {plan.head, plan.middle, plan.tail} : part \in Seq(Plain) /\ WellFormed(part)
      /\ plan.head \o (plan.middle \o plan.tail) = s
  BY <1>2, <1>3, RegionsAre
<1> DEFINE h == plan.head
           m == plan.middle
           t == plan.tail
<1> HIDE DEF plan, kept, w, fold
<1>8. /\ h \in Seq(Plain) /\ m \in Seq(Plain) /\ t \in Seq(Plain) /\ WellFormed(h) /\ WellFormed(m)
      /\ WellFormed(t) /\ h \o (m \o t) = s
  BY <1>7
<1> HIDE DEF h, m, t
<1>9. h \in Whole(Plain, f) /\ t \in Whole(Plain, f)
  <2>1. m \o t \in Seq(Plain) /\ WellFormed(m \o t)
    <3>1. m \in Seq(Message) /\ t \in Seq(Message) BY <1>3, <1>8, SeqMonotonic
    <3> QED BY <1>8, <3>1, ConcatProperties, JoinIsLegal
  <2>2. h \in Whole(Plain, f) /\ m \o t \in Whole(Plain, f) BY <1>2, <1>8, <2>1, PartsOfWhole
  <2> QED BY <1>8, <2>2, PartsOfWhole
<1>10. one \in Whole(Plain, f) /\ one \in Seq(Plain) /\ one \in Seq(Message)
  <2>1. one \in Seq(Plain) /\ one \in Seq(Message) BY <1>3, SummaryIs
  <2> QED BY <1>3, <2>1, SummaryIs, WholeOne
<1> HIDE DEF one
<1>11. ASSUME NEW v \in Whole(Plain, f) PROVE w \o v \in Opened(f)
              /\ SanitizeToolPairs(w \o v) = w \o v
  <2>1. w \o v \in Opened(f) BY <1>1 DEF Opened
  <2> QED BY <2>1, OpenedFacts
<1>12. h \in Seq(Message) /\ t \in Seq(Message) BY <1>3, <1>8, SeqMonotonic
<1>13. (w \o h) \o t = w \o (h \o t) BY <1>4, <1>12, ConcatAssociative
<1>14. ((w \o h) \o one) \o t = w \o ((h \o one) \o t)
  <2>1. (w \o h) \o one = w \o (h \o one) BY <1>4, <1>10, <1>12, ConcatAssociative
  <2> DEFINE x == h \o one
  <2>2. x \in Seq(Message) BY <1>10, <1>12, ConcatProperties
  <2> HIDE DEF x
  <2>3. (w \o x) \o t = w \o (x \o t) BY <1>4, <1>12, <2>2, ConcatAssociative
  <2> QED BY <2>1, <2>3 DEF x
<1>15. h \o t \in Whole(Plain, f) /\ (h \o one) \o t \in Whole(Plain, f)
  <2>1. h \o t \in Whole(Plain, f) /\ h \o one \in Whole(Plain, f) BY <1>3, <1>9, <1>10, WholeJoin
  <2> QED BY <1>3, <1>9, <2>1, WholeJoin
<1>16. \/ fold = SanitizeToolPairs(w \o kept) \/ fold = SanitizeToolPairs((w \o h) \o t)
       \/ fold = SanitizeToolPairs(((w \o h) \o one) \o t)
  BY <1>5 DEF h, t
<1> QED BY <1>6, <1>11, <1>13, <1>14, <1>15, <1>16 DEF fold

(* Whatever the compactor makes of an opened transcript is one.            *)
LEMMA EnsuredIs ==
    ASSUME compacted \in BOOLEAN, NEW f \in BOOLEAN, NEW ms \in Opened(f),
           NEW e \in Ensured(ms)
    PROVE  e.ms \in Opened(f) /\ e.fold \in BOOLEAN
<1> DEFINE p == Pruned(ms)
           q == FoldMiddle(p, ProtectNow, Keep, Window)
<1>1. p \in Opened(f) BY PrunedIs DEF Pruned
<1>2. ProtectNow \in Nat /\ Keep \in Nat /\ Keep >= 2 /\ Window \in Nat
  BY HistoryAssumption DEF ProtectNow
<1>3. q \in Opened(f)
  <2> HIDE DEF p
  <2> QED BY <1>1, <1>2, FoldIs
<1>4. SanitizeToolPairs(ms) = ms /\ SanitizeToolPairs(p) = p BY <1>1, OpenedFacts
<1>5. e \in {[ms |-> ms, fold |-> FALSE], [ms |-> SanitizeToolPairs(ms), fold |-> FALSE],
             [ms |-> SanitizeToolPairs(p), fold |-> FALSE], [ms |-> q, fold |-> TRUE]}
  BY DEF Ensured
<1> HIDE DEF p, q
<1>6. \A x \in Opened(f), b \in BOOLEAN :
         [ms |-> x, fold |-> b].ms \in Opened(f) /\ [ms |-> x, fold |-> b].fold \in BOOLEAN
  OBVIOUS
<1>7. \E x \in Opened(f), b \in BOOLEAN : e = [ms |-> x, fold |-> b] BY <1>1, <1>3, <1>4, <1>5
<1> QED BY <1>6, <1>7

-----------------------------------------------------------------------------
(* The life of the transcript (LiveHistory). *)

(* The empty transcript is whole.                                          *)
LEMMA EmptyIsWhole ==
    ASSUME NEW f \in BOOLEAN
    PROVE  <<>> \in Whole(Plain, f) /\ <<>> \in Seq(Message)
<1>1. Plain \in SUBSET Message BY DEF Plain
<1>2. <<>> \in Whole(Plain, f)
  <2> DEFINE m == Summary
  <2>1. m \in Plain /\ ~HasCalls(m) /\ ~IsResult(m) BY SummaryIs
  <2> HIDE DEF m
  <2> QED BY <1>1, <2>1, WholeOne
<1>3. <<>> \in Seq(Message) OBVIOUS
<1> QED BY <1>2, <1>3

(* The system's message opens a whole transcript ...                       *)
LEMMA OpenedMake ==
    ASSUME NEW f \in BOOLEAN, NEW y \in Systems, NEW s \in Whole(Plain, f)
    PROVE  <<y>> \o s \in Opened(f)
BY DEF Opened

(* ... and is the first of one that is opened.                             *)
LEMMA OpenedPick ==
    ASSUME NEW f \in BOOLEAN, NEW ms \in Opened(f)
    PROVE  \E y \in Systems, s \in Whole(Plain, f) : ms = <<y>> \o s
BY SMTT(30) DEF Opened

(* An opened transcript may be continued by a whole one ...                *)
LEMMA OpenedJoin ==
    ASSUME NEW f \in BOOLEAN, NEW ms \in Opened(f), NEW v \in Whole(Plain, f)
    PROVE  ms \o v \in Opened(f)
<1>1. PICK y \in Systems, s \in Whole(Plain, f) : ms = <<y>> \o s BY OpenedPick
<1> DEFINE w == <<y>>
<1>2. Plain \in SUBSET Message BY DEF Plain
<1>3. w \in Seq(Message)
  <2>1. y \in Message BY DEF Systems
  <2> QED BY <2>1
<1>4. s \in Seq(Message) /\ v \in Seq(Message)
  <2>1. s \in Seq(Plain) /\ v \in Seq(Plain) BY DEF Whole
  <2> QED BY <1>2, <2>1, SeqMonotonic
<1>5. s \o v \in Whole(Plain, f) BY <1>2, WholeJoin
<1> HIDE DEF w
<1>6. (w \o s) \o v = w \o (s \o v) BY <1>3, <1>4, ConcatAssociative
<1> DEFINE u == s \o v
<1>7. u \in Whole(Plain, f) BY <1>5
<1> HIDE DEF u
<1>8. <<y>> \o u \in Opened(f) BY <1>7, OpenedMake
<1> QED BY <1>1, <1>6, <1>8 DEF w, u

(* ... and by a message that is not a result and makes no calls.           *)
LEMMA OpenedPlus ==
    ASSUME NEW f \in BOOLEAN, NEW ms \in Opened(f), NEW m \in Plain, ~HasCalls(m), ~IsResult(m)
    PROVE  Append(ms, m) \in Opened(f)
<1> DEFINE w == <<m>>
<1>1. Plain \in SUBSET Message BY DEF Plain
<1>2. w \in Whole(Plain, f) BY <1>1, WholeOne
<1> HIDE DEF w
<1>3. ms \o w \in Opened(f) BY <1>2, OpenedJoin
<1>4. ms \in Seq(Message) /\ m \in Message BY <1>1, OpenedFacts
<1>5. ms \o w = Append(ms, m) BY <1>4, AppendIsConcat DEF w
<1> QED BY <1>3, <1>5

(* The messages the model makes.                                           *)
LEMMA NewMessage ==
    ASSUME NEW r \in {"system", "user", "assistant", "tool"}, NEW cs \in Seq(Ids),
           cs # <<>> => r = "assistant", NEW i \in Words, NEW t \in Words
    PROVE  LET m == [role |-> r, calls |-> cs, id |-> i, text |-> t]
           IN /\ m \in Message /\ m.role = r /\ m.calls = cs /\ m.id = i /\ m.text = t
              /\ (HasCalls(m) <=> cs # <<>>) /\ (IsResult(m) <=> r = "tool")
              /\ (m \in Plain <=> r # "system")
<1> DEFINE m == [role |-> r, calls |-> cs, id |-> i, text |-> t]
<1>1. /\ m.role = r /\ m.calls = cs /\ m.id = i /\ m.text = t
      /\ m \in [role : {"system", "user", "assistant", "tool"}, calls : Seq(Ids), id : Words,
         text : Words]
  OBVIOUS
<1> HIDE DEF m
<1>2. (HasCalls(m) <=> cs # <<>>) /\ (IsResult(m) <=> r = "tool") BY <1>1 DEF HasCalls, IsResult
<1>3. m \in Message BY <1>1, <1>2 DEF Message
<1>4. m \in Plain <=> r # "system" BY <1>1, <1>3 DEF Plain
<1>5. /\ m \in Message /\ m.role = r /\ m.calls = cs /\ m.id = i /\ m.text = t
      /\ (HasCalls(m) <=> cs # <<>>) /\ (IsResult(m) <=> r = "tool")
      /\ (m \in Plain <=> r # "system")
  BY <1>1, <1>2, <1>3, <1>4
<1> QED BY <1>5 DEF m

(* The system's message and the prompt.                                    *)
LEMMA Prompts ==
    /\ System("system") \in Systems
    /\ User("prompt") \in Plain /\ ~HasCalls(User("prompt")) /\ ~IsResult(User("prompt"))
<1>1. <<>> \in Seq(Ids) OBVIOUS
<1>2. NoId \in Words /\ "system" \in Words /\ "prompt" \in Words BY DEF Words
<1> DEFINE e == <<>>
<1> HIDE DEF e
<1>3. System("system") \in Systems
  <2> DEFINE m == [role |-> "system", calls |-> e, id |-> NoId, text |-> "system"]
  <2>1. m \in Message /\ m.role = "system" BY <1>1, <1>2, NewMessage DEF e
  <2>2. m = System("system") BY DEF System, e
  <2> HIDE DEF m
  <2> QED BY <2>1, <2>2 DEF Systems
<1>4. User("prompt") \in Plain /\ ~HasCalls(User("prompt")) /\ ~IsResult(User("prompt"))
  <2> DEFINE m == [role |-> "user", calls |-> e, id |-> NoId, text |-> "prompt"]
  <2>1. m \in Plain /\ ~HasCalls(m) /\ ~IsResult(m) BY <1>1, <1>2, NewMessage DEF e
  <2>2. m = User("prompt") BY DEF User, e
  <2> HIDE DEF m
  <2> QED BY <2>1, <2>2
<1> QED BY <1>3, <1>4

(* The message of a round: its calls are the batch's, its id is the        *)
(* round's name.                                                           *)
LEMMA RoundIs ==
    ASSUME NEW cs \in Batches, NEW t \in {Blank, "prose"}, NEW n \in 0 .. Len(Texts) - 1, n = rounds
    PROVE  /\ Round(cs, t) \in Plain /\ Round(cs, t).calls = cs /\ ~IsResult(Round(cs, t))
           /\ Round(cs, t).id = Texts[n + 1] /\ Texts[n + 1] \in STRING /\ cs \in Seq(Ids)
           /\ HasCalls(Round(cs, t)) <=> cs # <<>>
<1>1. cs \in Seq(STRING) /\ NoId \notin ToSet(cs) /\ Texts \in Seq(STRING) BY HistoryAssumption
<1>2. cs \in Seq(Ids)
  <2>1. \A k \in 1 .. Len(cs) : cs[k] \in STRING /\ cs[k] \in ToSet(cs) BY <1>1 DEF ToSet
  <2>2. \A k \in 1 .. Len(cs) : cs[k] \in Ids BY <1>1, <2>1 DEF Ids
  <2>3. cs \in [1 .. Len(cs) -> Ids] /\ Len(cs) \in Nat BY <1>1, <2>2
  <2> QED BY <2>3
<1>3. n + 1 \in 1 .. Len(Texts) BY <1>1
<1>4. Texts[n + 1] \in STRING BY <1>1, <1>3
<1> DEFINE i == Texts[n + 1]
           m == [role |-> "assistant", calls |-> cs, id |-> i, text |-> t]
<1>5. Round(cs, t) = m BY DEF Round, Assistant
<1> HIDE DEF i
<1>6. i \in Words /\ t \in Words /\ i \in STRING BY <1>4 DEF Words, i
<1>7. m \in Plain /\ m.calls = cs /\ ~IsResult(m) /\ m.id = i /\ (HasCalls(m) <=> cs # <<>>)
  BY <1>2, <1>6, NewMessage
<1> QED BY <1>2, <1>5, <1>6, <1>7 DEF i

(* The result of a call.                                                   *)
LEMMA ToolIs ==
    ASSUME NEW i \in Ids, NEW t \in STRING
    PROVE  /\ Tool(i, t) \in Message /\ Tool(i, t) \in Plain /\ IsResult(Tool(i, t))
           /\ Tool(i, t).id = i /\ Tool(i, t).text = t
<1>0. <<>> \in Seq(Ids) OBVIOUS
<1>1. i \in Words /\ t \in Words BY DEF Ids, Words
<1> DEFINE e == <<>>
           m == [role |-> "tool", calls |-> e, id |-> i, text |-> t]
<1>2. Tool(i, t) = m BY DEF Tool
<1> HIDE DEF e
<1>3. m \in Message /\ m \in Plain /\ IsResult(m) /\ m.id = i /\ m.text = t
  BY <1>0, <1>1, NewMessage DEF e
<1> QED BY <1>2, <1>3

(* The batch under way: how much of it has an answer.                      *)
LEMMA BatchFacts ==
    ASSUME NEW f \in BOOLEAN, NEW ms \in Seq(Message), NEW name \in STRING, NEW a, BatchAt(f, ms,
           name, a)
    PROVE  /\ a \in 2 .. Len(ms) /\ ms[a] \in Message /\ ms[a].role = "assistant"
           /\ ms[a].calls \in Seq(Ids) /\ Len(ms[a].calls) \in Nat /\ Len(ms[a].calls) > 0
           /\ Unanswered(ms) = SubSeq(ms[a].calls, (Len(ms) - a) + 1, Len(ms[a].calls))
           /\ (Unanswered(ms) = <<>> <=> Len(ms) - a = Len(ms[a].calls))
<1> DEFINE n == Len(ms)
           cs == ms[a].calls
           I == {i \in 1 .. n : ~IsResult(ms[i])}
           b == SelectLastInSeq(ms, LAMBDA m : ~IsResult(m))
<1>1. n \in Nat OBVIOUS
<1>2. /\ a \in 2 .. n /\ HasCalls(ms[a]) /\ n - a <= Len(cs)
      /\ \A j \in 1 .. n - a : IsResult(ms[a + j])
  BY DEF BatchAt
<1>3. ms[a] \in Message /\ a \in 1 .. n BY <1>1, <1>2
<1>4. cs \in Seq(Ids) /\ Len(cs) \in Nat /\ Len(cs) # 0 /\ ~IsResult(ms[a]) BY <1>2, <1>3, MessageIs
<1>5. ms[a].role = "assistant" BY <1>2, <1>3 DEF Message
<1>6. b = IF I # {} THEN Max(I) ELSE 0 BY DEF SelectLastInSeq
<1>7. a \in I /\ I \in SUBSET (0 .. n) /\ \A i \in I : i \in 1 .. n /\ ~IsResult(ms[i])
  BY <1>1, <1>3, <1>4
<1> HIDE DEF I, n, cs, b
<1>8. Max(I) \in I /\ \A y \in I : Max(I) >= y BY <1>1, <1>7, GreatestIs
<1>9. Max(I) = a
  <2> DEFINE x == Max(I)
  <2>1. x \in 1 .. n /\ ~IsResult(ms[x]) /\ x >= a BY <1>7, <1>8
  <2> HIDE DEF x
  <2>2. SUFFICES ASSUME x # a PROVE FALSE BY DEF x
  <2>3. x - a \in 1 .. n - a /\ a + (x - a) = x BY <1>1, <1>2, <2>1, <2>2
  <2> QED BY <1>2, <2>1, <2>3
<1>10. b = a BY <1>6, <1>7, <1>9
<1>11. Unanswered(ms) = SubSeq(cs, (n - a) + 1, Len(cs)) BY <1>10 DEF Unanswered, b, n, cs
<1>12. Unanswered(ms) = <<>> <=> n - a = Len(cs)
  <2> DEFINE k == n - a
  <2>1. k \in 0 .. Len(cs) BY <1>1, <1>2, <1>4 DEF n, cs
  <2> HIDE DEF k
  <2>2. SubSeq(cs, k + 1, Len(cs)) \in Seq(Ids) /\ Len(SubSeq(cs, k + 1, Len(cs))) = Len(cs) - k
    BY <1>4, <2>1, PartIs
  <2>3. SubSeq(cs, k + 1, Len(cs)) = <<>> <=> Len(cs) - k = 0 BY <2>2, EmptySeq
  <2> QED BY <1>4, <1>11, <2>1, <2>3 DEF k
<1>13. Len(cs) > 0 BY <1>4
<1>14. (Unanswered(ms) = <<>> <=> n - a = Len(cs)) BY <1>12
<1>15. /\ a \in 2 .. n /\ ms[a] \in Message /\ ms[a].role = "assistant"
       /\ cs \in Seq(Ids) /\ Len(cs) \in Nat /\ Len(cs) > 0
       /\ Unanswered(ms) = SubSeq(cs, (n - a) + 1, Len(cs))
       /\ (Unanswered(ms) = <<>> <=> n - a = Len(cs))
  BY <1>2, <1>3, <1>4, <1>5, <1>11, <1>13, <1>14
<1> QED BY <1>15 DEF n, cs

(* The next result belongs to the next call.                               *)
LEMMA NextAnswer ==
    ASSUME NEW f \in BOOLEAN, NEW ms \in Seq(Message), NEW name \in STRING, InBatch(f, ms, name),
           Unanswered(ms) # <<>>
    PROVE  LET m == Tool(Head(Unanswered(ms)), name)
           IN m \in Message /\ InBatch(f, Append(ms, m), name)
<1>1. PICK a \in 2 .. Len(ms) : BatchAt(f, ms, name, a) BY DEF InBatch
<1> DEFINE n == Len(ms)
           cs == ms[a].calls
           k == n - a
           un == Unanswered(ms)
           h == Head(un)
           m == Tool(h, name)
           w == Append(ms, m)
<1>2. /\ n \in Nat /\ a \in 2 .. n /\ SubSeq(ms, 1, a - 1) \in Opened(f) /\ HasCalls(ms[a])
      /\ ms[a].id = name /\ k <= Len(cs)
      /\ \A j \in 1 .. k : IsResult(ms[a + j]) /\ ms[a + j].id = cs[j] /\ ms[a + j].text = name
  <2>1. n \in Nat /\ a \in 2 .. n OBVIOUS
  <2>2. /\ SubSeq(ms, 1, a - 1) \in Opened(f) /\ HasCalls(ms[a]) /\ ms[a].id = name
        /\ k <= Len(cs)
        /\ \A j \in 1 .. k :
             IsResult(ms[a + j]) /\ ms[a + j].id = cs[j] /\ ms[a + j].text = name
    BY <1>1, Zenon DEF BatchAt
  <2> QED BY <2>1, <2>2, Zenon
<1>3. /\ cs \in Seq(Ids) /\ Len(cs) \in Nat /\ un = SubSeq(cs, k + 1, Len(cs)) /\ k # Len(cs)
      /\ ms[a] \in Message
  BY <1>1, BatchFacts
<1>4. k \in 0 .. Len(cs) /\ k < Len(cs) /\ k \in Nat
  <2> HIDE DEF cs, n
  <2> QED BY <1>2, <1>3
<1>5. h = cs[k + 1] /\ h \in Ids
  <2> HIDE DEF cs, k, n
  <2>1. un \in Seq(Ids) /\ Len(un) = Len(cs) - k /\ \A i \in 1 .. Len(cs) - k : un[i] = cs[k + i]
    BY <1>3, <1>4, PartIs
  <2> HIDE DEF un
  <2>2. 1 \in 1 .. Len(cs) - k /\ k + 1 \in 1 .. Len(cs) BY <1>3, <1>4
  <2>3. un[1] = cs[k + 1] BY <2>1, <2>2
  <2>4. h = un[1]
    <3>1. un # <<>> BY DEF un
    <3> QED BY <2>1, <3>1
  <2> QED BY <1>3, <2>2, <2>3, <2>4
<1>6. m \in Message /\ IsResult(m) /\ m.id = h /\ m.text = name
  <2> HIDE DEF h
  <2> QED BY <1>5, ToolIs
<1> HIDE DEF m, h, un
<1>7. /\ w \in Seq(Message) /\ Len(w) = n + 1 /\ w[n + 1] = m
      /\ \A i \in 1 .. n : w[i] = ms[i]
  BY <1>6, AppendProperties
<1> HIDE DEF w
<1>8. a \in 2 .. Len(w) /\ Len(w) - a = k + 1 /\ w[a] = ms[a]
  <2>1. a \in 1 .. n BY <1>2
  <2>2. Len(w) - a = k + 1 /\ a \in 2 .. Len(w) BY <1>2, <1>7
  <2> QED BY <1>7, <2>1, <2>2
<1>9. SubSeq(w, 1, a - 1) = SubSeq(ms, 1, a - 1)
  <2> DEFINE x == a - 1
             u == SubSeq(w, 1, x)
             v == SubSeq(ms, 1, x)
  <2>1. x \in 0 .. n /\ x \in 0 .. Len(w) BY <1>2, <1>7
  <2>2. u \in Seq(Message) /\ Len(u) = x /\ \A i \in 1 .. x : u[i] = w[i] BY <1>7, <2>1, PartIs
  <2>3. v \in Seq(Message) /\ Len(v) = x /\ \A i \in 1 .. x : v[i] = ms[i] BY <2>1, PartIs
  <2>4. \A i \in 1 .. x : i \in 1 .. n BY <1>2, <2>1
  <2> HIDE DEF u, v, x
  <2>5. \A i \in 1 .. x : u[i] = v[i] BY <1>7, <2>2, <2>3, <2>4
  <2>6. u = v BY <2>2, <2>3, <2>5, SeqEqual
  <2> QED BY <2>6 DEF u, v, x
<1>10. ASSUME NEW j \in 1 .. k + 1
       PROVE IsResult(w[a + j]) /\ w[a + j].id = cs[j] /\ w[a + j].text = name
  <2>1. CASE j = k + 1
    <3>1. a + j = n + 1 BY <1>2, <2>1
    <3> QED BY <1>5, <1>6, <1>7, <2>1, <3>1
  <2>2. CASE j # k + 1
    <3>1. j \in 1 .. k
      <4> HIDE DEF k
      <4> QED BY <1>4, <2>2
    <3>2. a + j \in 1 .. n BY <1>2, <3>1
    <3> QED BY <1>2, <1>7, <3>1, <3>2
  <2> QED BY <2>1, <2>2
<1>11. k + 1 <= Len(cs)
  <2> HIDE DEF k, cs
  <2> QED BY <1>3, <1>4
<1>12. BatchAt(f, w, name, a)
  <2>1. w[a].calls = cs /\ HasCalls(w[a]) /\ w[a].id = name BY <1>2, <1>8
  <2> HIDE DEF cs, k
  <2> QED BY <1>2, <1>8, <1>9, <1>10, <1>11, <2>1 DEF BatchAt
<1> QED BY <1>6, <1>8, <1>12 DEF InBatch, w, m, h, un

(* A batch whose calls are all answered completes the transcript.          *)
LEMMA BatchDone ==
    ASSUME NEW f \in BOOLEAN, NEW ms \in Seq(Message), NEW name \in STRING, InBatch(f, ms, name),
           Unanswered(ms) = <<>>
    PROVE  ms \in Opened(f)
<1>1. PICK a \in 2 .. Len(ms) : BatchAt(f, ms, name, a) BY DEF InBatch
<1> DEFINE n == Len(ms)
           m == ms[a]
           cs == m.calls
           d == Len(cs)
           pre == SubSeq(ms, 1, a - 1)
           r == SubSeq(ms, a + 1, n)
           w == <<m>>
           c == w \o r
<1>2. /\ n \in Nat /\ a \in 2 .. n /\ a \in 1 .. n /\ pre \in Opened(f)
      /\ \A j \in 1 .. n - a : IsResult(ms[a + j]) /\ ms[a + j].id = cs[j] /\ ms[a + j].text = name
      /\ m.id = name
  <2>1. n \in Nat /\ a \in 2 .. n /\ a \in 1 .. n OBVIOUS
  <2>2. /\ pre \in Opened(f) /\ m.id = name
        /\ \A j \in 1 .. n - a :
             IsResult(ms[a + j]) /\ ms[a + j].id = cs[j] /\ ms[a + j].text = name
    BY <1>1, Zenon DEF BatchAt
  <2> QED BY <2>1, <2>2, Zenon
<1>3. d \in Nat /\ n - a = d /\ m \in Message /\ m.role = "assistant" BY <1>1, BatchFacts
<1>4. r \in Seq(Message) /\ Len(r) = d /\ \A j \in 1 .. d : r[j] = ms[a + j]
  <2>1. a \in 0 .. n BY <1>2
  <2>2. r \in Seq(Message) /\ Len(r) = n - a /\ \A j \in 1 .. n - a : r[j] = ms[a + j]
    BY <2>1, PartIs
  <2> QED BY <1>3, <2>2
<1>5. \A j \in 1 .. d : IsResult(r[j]) /\ r[j].id = cs[j] /\ r[j].text = name /\ r[j] \in Plain
  <2>1. \A j \in 1 .. d : r[j] \in Message BY <1>4
  <2>2. \A j \in 1 .. d : IsResult(r[j]) /\ r[j].id = cs[j] /\ r[j].text = name BY <1>2, <1>3, <1>4
  <2> QED BY <2>1, <2>2 DEF IsResult, Plain
<1>6. ~IsResult(m) BY <1>3 DEF IsResult
<1> HIDE DEF r
<1>7. c \in Seq(Message) /\ WellFormed(c) BY <1>3, <1>4, <1>5, <1>6, BlockIsLegal
<1>8. w \in Seq(Message) /\ Len(w) = 1 /\ w[1] = m /\ m \in Plain /\ w \in Seq(Plain)
  <2>1. m \in Plain BY <1>3 DEF Plain
  <2> QED BY <1>3, <2>1
<1> HIDE DEF w
<1>9. Len(c) = 1 + d /\ \A i \in 1 .. 1 + d : c[i] = IF i <= 1 THEN w[i] ELSE r[i - 1]
  <2>1. w \in Seq(Message) BY <1>8
  <2>2. Len(c) = Len(w) + Len(r)
        /\ \A i \in 1 .. Len(w) + Len(r) : c[i] = IF i <= Len(w) THEN w[i] ELSE r[i - Len(w)]
    BY <1>4, <2>1, ConcatProperties
  <2> HIDE DEF c, d
  <2> QED BY <1>4, <1>8, <2>2
<1>10. c \in Seq(Plain)
  <2>1. r \in [1 .. d -> Plain]
    <3>1. r = [j \in 1 .. d |-> r[j]] BY <1>4
    <3> QED BY <1>5, <3>1
  <2>2. r \in Seq(Plain)
    <3> HIDE DEF d
    <3> QED BY <1>3, <2>1
  <2>3. w \in Seq(Plain) BY <1>8
  <2> QED BY <2>2, <2>3, ConcatProperties
<1> HIDE DEF c
<1>11. Faithful(c)
  <2>1. ASSUME NEW i \in 1 .. Len(c), NEW j \in 1 .. Len(c[i].calls), i + j \in 1 .. Len(c)
        PROVE c[i + j].text \in {c[i].id, Cleared, "never executed"}
    <3>1. CASE i = 1
      <4>1. c[1] = m
        <5>1. 1 \in 1 .. 1 + d BY <1>3
        <5> QED BY <1>8, <1>9, <5>1
      <4>2. j \in 1 .. d BY <3>1, <4>1
      <4>3. c[1 + j] = r[j]
        <5> HIDE DEF d
        <5>1. 1 + j \in 1 .. 1 + d /\ ~(1 + j <= 1) /\ (1 + j) - 1 = j BY <1>3, <4>2
        <5> QED BY <1>9, <5>1
      <4> QED BY <1>2, <1>5, <3>1, <4>1, <4>2, <4>3
    <3>2. CASE i # 1
      <4>1. c[i] = r[i - 1] /\ i - 1 \in 1 .. d
        <5> HIDE DEF d
        <5>1. i \in 1 .. 1 + d /\ ~(i <= 1) /\ i - 1 \in 1 .. d BY <1>3, <1>9, <3>2
        <5> QED BY <1>9, <5>1
      <4>2. IsResult(c[i]) /\ c[i] \in Message
        <5>1. r[i - 1] \in Message BY <1>4, <4>1
        <5> QED BY <1>5, <4>1, <5>1
      <4> DEFINE z == Len(c[i].calls)
      <4>3. z = 0 BY <4>2, MessageIs
      <4>4. j \in 1 .. z OBVIOUS
      <4> HIDE DEF z
      <4>5. FALSE BY <4>3, <4>4
      <4> QED BY <4>5
    <3> QED BY <3>1, <3>2
  <2> QED BY <2>1 DEF Faithful
<1>12. c \in Whole(Plain, f) BY <1>7, <1>10, <1>11 DEF Whole
<1>13. pre \o c = ms
  <2>1. a + Len(r) <= Len(ms) /\ \A j \in 1 .. Len(r) : r[j] = ms[a + j]
    <3>1. a + Len(r) = n BY <1>2, <1>3, <1>4
    <3> QED BY <1>2, <1>4, <3>1
  <2>2. SubSeq(ms, 1, a - 1) \o (<<ms[a]>> \o r) = SubSeq(ms, 1, a + Len(r))
    BY <1>2, <1>4, <2>1, BlockPut
  <2>3. a + Len(r) = n BY <1>2, <1>3, <1>4
  <2>4. SubSeq(ms, 1, n) = ms BY SubSeqFull
  <2> QED BY <2>2, <2>3, <2>4 DEF c, w
<1> QED BY <1>2, <1>12, <1>13, OpenedJoin
(* Each step of the transcript's life.                                     *)

(* The transcript carried over from the last turn.                         *)
LEMMA CarriedIs ==
    ASSUME NEW f \in BOOLEAN, NEW s, s \in Opened(f) \/ s \in Whole(Plain, f)
    PROVE  /\ s \in Seq(Message) /\ WellFormed(s) /\ (f => Faithful(s))
           /\ NoSystem(s) \in Whole(Plain, f)
<1>1. CASE s \in Opened(f) BY <1>1, OpenedFacts
<1>2. CASE s \in Whole(Plain, f)
  <2>1. s \in Seq(Plain) /\ WellFormed(s) /\ (f => Faithful(s)) BY <1>2 DEF Whole
  <2>2. s \in Seq(Message)
    <3>1. Plain \in SUBSET Message BY DEF Plain
    <3> QED BY <2>1, <3>1, SeqMonotonic
  <2> DEFINE P == {k \in DOMAIN s : s[k].role # "system"}
  <2>3. 0 + 1 .. Len(s) \subseteq P
    <3>1. \A k \in 1 .. Len(s) : k \in DOMAIN s /\ s[k] \in Plain BY <2>1
    <3>2. \A k \in 1 .. Len(s) : k \in P BY <3>1 DEF Plain
    <3> HIDE DEF P
    <3> QED BY <3>2
  <2> HIDE DEF P
  <2>4. 0 \in 0 .. Len(s) BY <2>2
  <2>5. Picked(s, P) = Picks(s, P)[0] \o SubSeq(s, 0 + 1, Len(s)) BY <2>2, <2>3, <2>4, PickStretch
  <2>6. Picks(s, P)[0] = <<>> BY <2>2, PicksAre
  <2>7. SubSeq(s, 0 + 1, Len(s)) = s
    <3>1. SubSeq(s, 1, Len(s)) = s BY <2>2, SubSeqFull
    <3>2. 0 + 1 = 1 OBVIOUS
    <3> QED BY <3>1, <3>2
  <2>8. Picked(s, P) = s BY <2>2, <2>5, <2>6, <2>7, ConcatEmptySeq
  <2>9. NoSystem(s) = s BY <2>8 DEF NoSystem, P
  <2> QED BY <1>2, <2>1, <2>2, <2>9
<1> QED BY <1>1, <1>2

(* seed_messages opens it with the system's message and ends it with the   *)
(* prompt.                                                                 *)
LEMMA SeedIs ==
    ASSUME NEW f \in BOOLEAN, NEW s, s \in Opened(f) \/ s \in Whole(Plain, f)
    PROVE  SeedMessages(<<System("system")>>, s, User("prompt")) \in Opened(f)
<1> DEFINE u == NoSystem(s)
           y == System("system")
           m == User("prompt")
           w == <<m>>
           v == <<y>> \o u
<1>1. u \in Whole(Plain, f) BY CarriedIs
<1> HIDE DEF u
<1>2. u \in Seq(Message) /\ WellFormed(u) BY <1>1, CarriedIs
<1>3. SanitizeToolPairs(u) = u BY <1>2, LegalIsKept
<1>4. y \in Systems /\ m \in Plain /\ ~HasCalls(m) /\ ~IsResult(m) BY Prompts
<1> HIDE DEF y, m
<1>5. v \in Opened(f) BY <1>1, <1>4, OpenedMake
<1>6. w \in Whole(Plain, f)
  <2>1. Plain \in SUBSET Message BY DEF Plain
  <2> QED BY <1>4, <2>1, WholeOne
<1> HIDE DEF v, w
<1>7. v \o w \in Opened(f) BY <1>5, <1>6, OpenedJoin
<1> QED BY <1>3, <1>7 DEF SeedMessages, u, v, w, y, m

(* A message with calls begins a batch.                                    *)
LEMMA BatchOpens ==
    ASSUME NEW f \in BOOLEAN, NEW u \in Opened(f), NEW r \in Message, HasCalls(r), NEW name,
           r.id = name
    PROVE  InBatch(f, Append(u, r), name)
<1> DEFINE n == Len(u)
           w == Append(u, r)
           a == n + 1
           v == SubSeq(w, 1, n)
<1>1. u \in Seq(Message) /\ n \in Nat /\ n > 0 BY OpenedFacts
<1>2. /\ w \in Seq(Message) /\ Len(w) = n + 1 /\ w[n + 1] = r
      /\ \A i \in 1 .. n : w[i] = u[i]
  BY <1>1, AppendProperties
<1> HIDE DEF w, n
<1>3. v = u
  <2>1. n \in 0 .. Len(w) BY <1>1, <1>2
  <2>2. v \in Seq(Message) /\ Len(v) = n /\ \A i \in 1 .. n : v[i] = w[i] BY <1>2, <2>1, PartIs
  <2> HIDE DEF v
  <2>3. Len(u) = n BY DEF n
  <2>4. \A i \in 1 .. n : v[i] = u[i] BY <1>2, <2>2
  <2> QED BY <1>1, <2>2, <2>3, <2>4, SeqEqual
<1>4. a \in 2 .. Len(w) /\ a - 1 = n /\ Len(w) - a = 0 BY <1>1, <1>2
<1>5. w[a] = r /\ SubSeq(w, 1, a - 1) \in Opened(f) BY <1>2, <1>3, <1>4
<1>6. Len(w[a].calls) \in Nat BY <1>5, MessageIs
<1> HIDE DEF a
<1>7. BatchAt(f, w, name, a)
  <2>1. Len(w) - a <= Len(w[a].calls) BY <1>4, <1>6
  <2>2. \A j \in 1 .. Len(w) - a : FALSE BY <1>4
  <2> QED BY <1>4, <1>5, <2>1, <2>2 DEF BatchAt
<1> QED BY <1>4, <1>7 DEF InBatch, w

(* A batch cut short before its first result.                              *)
LEMMA BatchCut ==
    ASSUME NEW f \in BOOLEAN, NEW ms \in Seq(Message), NEW name \in STRING, InBatch(f, ms, name),
           ~IsResult(Last(ms))
    PROVE  /\ SanitizeToolPairs(ms) \in Opened(f)
           /\ \A i \in 1 .. Len(ms) : IsResult(ms[i]) =>
                i \in 1 .. Len(SanitizeToolPairs(ms)) /\ SanitizeToolPairs(ms)[i] = ms[i]
<1>1. PICK a \in 2 .. Len(ms) : BatchAt(f, ms, name, a) BY DEF InBatch
<1> DEFINE n == Len(ms)
           m == ms[n]
           p == n - 1
           pre == SubSeq(ms, 1, p)
           s == SanitizeToolPairs(ms)
           t == Stripped(m)
<1>2. n \in Nat /\ a \in 2 .. n /\ n > 0 /\ n \in 1 .. n OBVIOUS
<1>3. /\ SubSeq(ms, 1, a - 1) \in Opened(f) /\ HasCalls(ms[a])
      /\ \A j \in 1 .. n - a : IsResult(ms[a + j])
  BY <1>1 DEF BatchAt
<1>4. ~IsResult(m) BY <1>2 DEF Last
<1>5. a = n
  <2>1. SUFFICES ASSUME a # n PROVE FALSE OBVIOUS
  <2> DEFINE j == n - a
  <2> HIDE DEF n
  <2>2. j \in 1 .. n - a /\ a + j = n BY <1>2, <2>1
  <2> HIDE DEF j
  <2>3. IsResult(ms[n]) BY <1>3, <2>2
  <2> QED BY <1>4, <2>3
<1>6. pre \in Opened(f) /\ HasCalls(m) /\ m \in Message BY <1>2, <1>3, <1>5
<1>7. pre \in Seq(Message) /\ WellFormed(pre) BY <1>6, OpenedFacts
<1>8. s = pre \/ s = Append(pre, t) BY <1>2, <1>4, <1>6, <1>7, CutShortIsKept
<1>9. t \in Plain /\ ~HasCalls(t) /\ ~IsResult(t)
  <2>1. m.role = "assistant" BY <1>6 DEF Message
  <2>2. t \in Message /\ t.calls = <<>> /\ t.role = "assistant" BY <1>6, <2>1, StripIs
  <2> HIDE DEF t
  <2> QED BY <2>2 DEF Plain, HasCalls, IsResult
<1>10. p \in 0 .. n /\ Len(pre) = p /\ \A i \in 1 .. p : pre[i] = ms[i]
  <2>1. p \in 0 .. n BY <1>2
  <2> HIDE DEF p
  <2>2. Len(pre) = p /\ \A i \in 1 .. p : pre[i] = ms[i] BY <2>1, PartIs
  <2> QED BY <2>1, <2>2
<1> HIDE DEF pre, t, s, m
<1>11. Append(pre, t) \in Opened(f) BY <1>6, <1>9, OpenedPlus
<1>12. s \in Opened(f) BY <1>6, <1>8, <1>11
<1>13. Len(s) \in p .. n /\ \A i \in 1 .. p : s[i] = pre[i]
  <2>1. CASE s = pre BY <1>2, <1>10, <2>1
  <2>2. CASE s = Append(pre, t)
    <3>1. Plain \in SUBSET Message BY DEF Plain
    <3>2. t \in Message BY <1>9, <3>1
    <3>3. Len(Append(pre, t)) = Len(pre) + 1 /\ \A i \in 1 .. Len(pre) : Append(pre, t)[i] = pre[i]
      BY <1>7, <3>2, AppendProperties
    <3> QED BY <1>2, <1>10, <2>2, <3>3
  <2> QED BY <1>8, <2>1, <2>2
<1>14. ASSUME NEW i \in 1 .. n, IsResult(ms[i]) PROVE i \in 1 .. Len(s) /\ s[i] = ms[i]
  <2>1. i # n BY <1>4, <1>14 DEF m
  <2>2. i \in 1 .. p /\ i \in 1 .. Len(s)
    <3> HIDE DEF n
    <3> QED BY <1>2, <1>13, <2>1
  <2> QED BY <1>10, <1>13, <2>2
<1> QED BY <1>12, <1>14 DEF s

(* The invariant holds at the start, and each action keeps it.             *)
LEMMA HistoryStarts == Init => HistoryInv
<1> SUFFICES ASSUME Init PROVE HistoryInv OBVIOUS
<1>1. /\ pc = "idle" /\ turns = 0 /\ rounds = 0 /\ live = <<>> /\ messages = <<>> /\ rows = <<>>
      /\ snapshot = <<>> /\ compacted = FALSE /\ fromRows = FALSE
  BY DEF Init
<1>2. <<>> \in Whole(Plain, TRUE) /\ <<>> \in Seq(Message) BY EmptyIsWhole
<1>3. 0 \in 0 .. MaxTurns /\ 0 \in 0 .. Len(Texts)
  <2>1. MaxTurns \in Nat /\ Texts \in Seq(STRING) BY HistoryAssumption
  <2> QED BY <2>1
<1>4. HistoryTypes BY <1>1, <1>2, <1>3 DEF HistoryTypes
<1>5. ~fromRows = TRUE BY <1>1
<1>6. live \in Whole(Plain, ~fromRows) BY <1>1, <1>2, <1>5
<1> QED BY <1>1, <1>4, <1>6 DEF HistoryInv

(* seed_messages: the transcript of the last turn, opened anew.            *)
LEMMA StartTurnKeeps == ASSUME HistoryInv, StartTurn PROVE HistoryInv'
<1> DEFINE f == ~fromRows
           u == SeedMessages(<<System("system")>>, live, User("prompt"))
<1>1. /\ pc = "idle" /\ turns < MaxTurns /\ pc' = "head" /\ turns' = turns + 1 /\ messages' = u
      /\ rows' = Append(rows, User("prompt"))
      /\ UNCHANGED <<rounds, live, snapshot, compacted, fromRows>>
  BY DEF StartTurn
<1>2. HistoryTypes /\ (live \in Opened(f) \/ live \in Whole(Plain, f)) BY DEF HistoryInv
<1>3. f \in BOOLEAN OBVIOUS
<1> HIDE DEF f
<1>4. u \in Opened(f) BY <1>2, <1>3, SeedIs
<1> HIDE DEF u
<1>5. u \in Seq(Message) BY <1>3, <1>4, OpenedFacts
<1>6. Append(rows, User("prompt")) \in Seq(Message)
  <2>1. User("prompt") \in Message
    <3>1. Plain \in SUBSET Message BY DEF Plain
    <3> QED BY <3>1, Prompts
  <2> QED BY <1>2, <2>1 DEF HistoryTypes
<1>7. HistoryTypes'
  <2>1. turns + 1 \in 0 .. MaxTurns
    <3>1. MaxTurns \in Nat BY HistoryAssumption
    <3> QED BY <1>1, <1>2, <3>1 DEF HistoryTypes
  <2> QED BY <1>1, <1>2, <1>5, <1>6, <2>1 DEF HistoryTypes
<1>8. messages' \in Opened(~fromRows') BY <1>1, <1>4 DEF f
<1>9. pc' = "head" BY <1>1
<1> QED BY <1>1, <1>7, <1>8, <1>9 DEF HistoryInv

(* A sample: what the compactor ensured, and the model's message.          *)
LEMMA SampleKeeps ==
    ASSUME HistoryInv, NEW cs \in Batches, NEW text \in {Blank, "prose"}, Sample(cs, text)
    PROVE  HistoryInv'
<1> DEFINE f == ~fromRows
           r == Round(cs, text)
           n == rounds + 1
<1>1. PICK e \in Ensured(messages) :
         messages' = Append(e.ms, r) /\ compacted' = (compacted \/ e.fold)
  BY DEF Sample
<1>2. /\ pc = "head" /\ rounds < Len(Texts) /\ rows' = Append(rows, r) /\ rounds' = n
      /\ pc' = (IF cs = <<>> THEN "over" ELSE "batch")
      /\ UNCHANGED <<turns, live, snapshot, fromRows>>
  BY DEF Sample
<1>3. HistoryTypes /\ messages \in Opened(f) BY <1>2 DEF HistoryInv
<1>4. rounds \in 0 .. Len(Texts) - 1 /\ n \in 1 .. Len(Texts)
  <2>1. Texts \in Seq(STRING) BY HistoryAssumption
  <2> QED BY <1>2, <1>3, <2>1 DEF HistoryTypes
<1>5. /\ r \in Plain /\ r.calls = cs /\ ~IsResult(r) /\ r.id = Texts[n] /\ Texts[n] \in STRING
      /\ (HasCalls(r) <=> cs # <<>>)
  BY <1>4, RoundIs
<1>6. f \in BOOLEAN /\ compacted \in BOOLEAN BY <1>3 DEF HistoryTypes
<1> DEFINE u == e.ms
<1> HIDE DEF f, r
<1>7. u \in Opened(f) /\ e.fold \in BOOLEAN BY <1>3, <1>6, EnsuredIs
<1>8. r \in Message BY <1>5 DEF Plain
<1> HIDE DEF u, n
<1>9. u \in Seq(Message) BY <1>6, <1>7, OpenedFacts
<1>10. Append(u, r) \in Seq(Message) /\ Append(rows, r) \in Seq(Message)
  BY <1>3, <1>8, <1>9 DEF HistoryTypes
<1>11. HistoryTypes'
  <2>1. pc' \in {"idle", "head", "batch", "over", "down"} BY <1>2
  <2>2. rounds' \in 0 .. Len(Texts) BY <1>2, <1>4
  <2>3. messages' \in Seq(Message) /\ rows' \in Seq(Message) BY <1>1, <1>2, <1>10 DEF u
  <2>4. compacted' \in BOOLEAN BY <1>1, <1>6, <1>7
  <2> QED BY <1>2, <1>3, <2>1, <2>2, <2>3, <2>4 DEF HistoryTypes
<1>13. live' \in Opened(f) \/ live' \in Whole(Plain, f) BY <1>2 DEF HistoryInv, f
<1>14. snapshot' = <<>> \/ snapshot' \in Opened(f) BY <1>2 DEF HistoryInv, f
<1>12. /\ live' \in Opened(~fromRows') \/ live' \in Whole(Plain, ~fromRows')
       /\ snapshot' = <<>> \/ snapshot' \in Opened(~fromRows')
  BY <1>2, <1>13, <1>14 DEF f
<1>15. CASE cs = <<>>
  <2>1. Append(u, r) \in Opened(f) BY <1>5, <1>6, <1>7, <1>15, OpenedPlus
  <2>2. pc' = "over" /\ messages' \in Opened(~fromRows') BY <1>1, <1>2, <1>15, <2>1 DEF u, f
  <2> QED BY <1>11, <1>12, <2>2 DEF HistoryInv
<1>16. CASE cs # <<>>
  <2>1. InBatch(f, Append(u, r), Texts[n]) BY <1>5, <1>6, <1>7, <1>8, <1>16, BatchOpens
  <2>2. pc' = "batch" /\ InBatch(~fromRows', messages', Texts[rounds'])
        /\ rounds' \in 1 .. Len(Texts)
    BY <1>1, <1>2, <1>4, <1>16, <2>1 DEF u, f
  <2> QED BY <1>11, <1>12, <2>2 DEF HistoryInv
<1> QED BY <1>15, <1>16

(* The writeback of a result.                                              *)
LEMMA ResultKeeps == ASSUME HistoryInv, Result PROVE HistoryInv'
<1> DEFINE f == ~fromRows
           name == Texts[rounds]
           m == Tool(Head(Unanswered(messages)), name)
<1>1. /\ pc = "batch" /\ Unanswered(messages) # <<>> /\ messages' = Append(messages, m)
      /\ rows' = Append(rows, m)
      /\ UNCHANGED <<pc, turns, rounds, live, snapshot, compacted, fromRows>>
  BY DEF Result
<1>2. HistoryTypes /\ rounds \in 1 .. Len(Texts) /\ InBatch(f, messages, name)
  BY <1>1 DEF HistoryInv
<1>3. f \in BOOLEAN /\ messages \in Seq(Message) /\ rows \in Seq(Message) BY <1>2 DEF HistoryTypes
<1>4. name \in STRING
  <2>1. Texts \in Seq(STRING) BY HistoryAssumption
  <2> QED BY <1>2, <2>1
<1> HIDE DEF f, name
<1>5. m \in Message /\ InBatch(f, Append(messages, m), name) BY <1>1, <1>2, <1>3, <1>4, NextAnswer
<1> HIDE DEF m
<1>6. messages' \in Seq(Message) /\ rows' \in Seq(Message) BY <1>1, <1>3, <1>5
<1>7. HistoryTypes' BY <1>1, <1>2, <1>6 DEF HistoryTypes
<1>8. InBatch(f, messages', name) BY <1>1, <1>5
<1>9. InBatch(~fromRows', messages', Texts[rounds']) BY <1>1, <1>8 DEF f, name
<1>10. pc' = "batch" /\ rounds' \in 1 .. Len(Texts) BY <1>1, <1>2
<1> QED BY <1>1, <1>7, <1>9, <1>10 DEF HistoryInv

(* The end of a batch.                                                     *)
LEMMA BatchOverKeeps == ASSUME HistoryInv, BatchOver PROVE HistoryInv'
<1> DEFINE f == ~fromRows
           name == Texts[rounds]
<1>1. PICK e \in Ensured(messages) : messages' = e.ms /\ compacted' = (compacted \/ e.fold)
  BY DEF BatchOver
<1>2. /\ pc = "batch" /\ Unanswered(messages) = <<>> /\ pc' = "head"
      /\ UNCHANGED <<turns, rounds, live, rows, snapshot, fromRows>>
  BY DEF BatchOver
<1>3. HistoryTypes /\ rounds \in 1 .. Len(Texts) /\ InBatch(f, messages, name)
  BY <1>2 DEF HistoryInv
<1>4. f \in BOOLEAN /\ messages \in Seq(Message) /\ compacted \in BOOLEAN BY <1>3 DEF HistoryTypes
<1>5. name \in STRING
  <2>1. Texts \in Seq(STRING) BY HistoryAssumption
  <2> QED BY <1>3, <2>1
<1> HIDE DEF f, name
<1>6. messages \in Opened(f) BY <1>2, <1>3, <1>4, <1>5, BatchDone
<1>7. e.ms \in Opened(f) /\ e.fold \in BOOLEAN BY <1>4, <1>6, EnsuredIs
<1>8. messages' \in Opened(f) /\ compacted' \in BOOLEAN BY <1>1, <1>4, <1>7
<1>9. messages' \in Seq(Message) BY <1>4, <1>8, OpenedFacts
<1>10. HistoryTypes' BY <1>2, <1>3, <1>8, <1>9 DEF HistoryTypes
<1>11. messages' \in Opened(~fromRows') BY <1>2, <1>8 DEF f
<1> QED BY <1>2, <1>10, <1>11 DEF HistoryInv

(* What a turn leaves behind.                                              *)
LEMMA EndLeaves ==
    ASSUME HistoryInv, NEW saved \in BOOLEAN, EndTurn(saved)
    PROVE  /\ SanitizeToolPairs(messages) \in Opened(~fromRows)
           /\ \A i \in 1 .. Len(messages) : IsResult(messages[i]) =>
                /\ i \in 1 .. Len(SanitizeToolPairs(messages))
                /\ SanitizeToolPairs(messages)[i] = messages[i]
<1> DEFINE f == ~fromRows
           name == Texts[rounds]
<1>1. messages \in Seq(Message) /\ f \in BOOLEAN BY DEF HistoryInv, HistoryTypes
<1>2. CASE pc \in {"head", "over"}
  <2>1. messages \in Opened(f) BY <1>2 DEF HistoryInv
  <2> HIDE DEF f
  <2>2. SanitizeToolPairs(messages) = messages BY <1>1, <2>1, OpenedFacts
  <2> QED BY <2>1, <2>2 DEF f
<1>3. CASE pc = "batch" /\ ~IsResult(Last(messages))
  <2>1. InBatch(f, messages, name) /\ rounds \in 1 .. Len(Texts) BY <1>3 DEF HistoryInv
  <2>2. name \in STRING
    <3>1. Texts \in Seq(STRING) BY HistoryAssumption
    <3> QED BY <2>1, <3>1
  <2> HIDE DEF f, name
  <2>3. /\ SanitizeToolPairs(messages) \in Opened(f)
        /\ \A i \in 1 .. Len(messages) : IsResult(messages[i]) =>
             /\ i \in 1 .. Len(SanitizeToolPairs(messages))
             /\ SanitizeToolPairs(messages)[i] = messages[i]
    BY <1>1, <1>3, <2>1, <2>2, BatchCut
  <2> QED BY <2>3 DEF f
<1> QED BY <1>2, <1>3 DEF EndTurn

(* The end of a turn.                                                      *)
LEMMA EndTurnKeeps == ASSUME HistoryInv, NEW saved \in BOOLEAN, EndTurn(saved) PROVE HistoryInv'
<1> DEFINE f == ~fromRows
           s == SanitizeToolPairs(messages)
<1>1. /\ pc' = "idle" /\ live' = s /\ snapshot' = (IF saved THEN s ELSE snapshot)
         /\ messages' = <<>>
      /\ UNCHANGED <<turns, rounds, rows, compacted, fromRows>>
  BY DEF EndTurn
<1>2. s \in Opened(f) BY EndLeaves
<1>3. HistoryTypes /\ f \in BOOLEAN /\ (snapshot = <<>> \/ snapshot \in Opened(f)) BY DEF HistoryInv
<1> HIDE DEF s, f
<1>4. s \in Seq(Message) BY <1>2, <1>3, OpenedFacts
<1>5. snapshot' = <<>> \/ snapshot' \in Opened(f) BY <1>1, <1>2, <1>3
<1>6. snapshot' \in Seq(Message) BY <1>1, <1>3, <1>4 DEF HistoryTypes
<1>7. HistoryTypes' BY <1>1, <1>3, <1>4, <1>6, EmptyIsWhole DEF HistoryTypes
<1>8. live' \in Opened(~fromRows') BY <1>1, <1>2 DEF f
<1>9. snapshot' = <<>> \/ snapshot' \in Opened(~fromRows') BY <1>1, <1>5 DEF f
<1> QED BY <1>1, <1>7, <1>8, <1>9 DEF HistoryInv

(* A turn that raises, and a crash.                                        *)
LEMMA StopKeeps == ASSUME HistoryInv, TurnRaises \/ Crash PROVE HistoryInv'
<1>1. /\ pc' \in {"idle", "down"} /\ messages' = <<>> /\ (live' = live \/ live' = <<>>)
      /\ compacted' \in BOOLEAN /\ UNCHANGED <<turns, rounds, rows, snapshot, fromRows>>
  BY DEF TurnRaises, Crash, HistoryInv, HistoryTypes
<1> DEFINE f == ~fromRows
<1>2. f \in BOOLEAN OBVIOUS
<1>3. HistoryTypes /\ (live \in Opened(f) \/ live \in Whole(Plain, f))
      /\ (snapshot = <<>> \/ snapshot \in Opened(f))
  BY DEF HistoryInv
<1> HIDE DEF f
<1>5. <<>> \in Whole(Plain, f) /\ <<>> \in Seq(Message) BY <1>2, EmptyIsWhole
<1>6. live' \in Opened(f) \/ live' \in Whole(Plain, f) BY <1>1, <1>3, <1>5
<1>7. live' \in Seq(Message) BY <1>1, <1>3, <1>5 DEF HistoryTypes
<1>8. HistoryTypes' BY <1>1, <1>3, <1>5, <1>7 DEF HistoryTypes
<1>9. /\ live' \in Opened(~fromRows') \/ live' \in Whole(Plain, ~fromRows')
      /\ snapshot' = <<>> \/ snapshot' \in Opened(~fromRows')
  BY <1>1, <1>3, <1>6 DEF f
<1> QED BY <1>1, <1>8, <1>9 DEF HistoryInv

(* A transcript loaded from the archive's last rows is paired anew.        *)
LEMMA LoadIs ==
    ASSUME NEW s \in Seq(Message)
    PROVE  SanitizeToolPairs(NoSystem(s)) \in Whole(Plain, FALSE)
<1> DEFINE P == {k \in DOMAIN s : s[k].role # "system"}
           u == NoSystem(s)
           S == {s[j] : j \in P \cap (1 .. Len(s))}
<1>1. Picked(s, P) \in Seq(S) BY PickedFrom
<1>2. S \in SUBSET Plain
  <2>1. \A j \in 1 .. Len(s) : s[j] \in Message OBVIOUS
  <2> QED BY <2>1 DEF Plain
<1> HIDE DEF S
<1>3. Picked(s, P) \in Seq(Plain) BY <1>1, <1>2, SeqMonotonic
<1>4. u \in Seq(Plain) BY <1>3 DEF NoSystem
<1> HIDE DEF u
<1>5. SanitizeToolPairs(u) \in Seq(Plain) /\ WellFormed(SanitizeToolPairs(u))
  BY <1>4, Closures, SanitizedIs
<1> QED BY <1>5 DEF Whole, u

(* hydrate_from_store: from the snapshot, or from the rows.                *)
LEMMA HydrateKeeps == ASSUME HistoryInv, Hydrate PROVE HistoryInv'
<1> DEFINE f == ~fromRows
           tail == SubSeq(rows, Len(rows) - Min({Tail_, Len(rows)}) + 1, Len(rows))
           stored == IF snapshot # <<>> THEN snapshot ELSE tail
           s == SanitizeToolPairs(NoSystem(stored))
           g == ~fromRows'
<1>1. /\ pc = "down" /\ pc' = "idle" /\ live' = s /\ fromRows' = (fromRows \/ snapshot = <<>>)
      /\ UNCHANGED <<turns, rounds, messages, rows, snapshot, compacted>>
  BY DEF Hydrate
<1>2. HistoryTypes /\ f \in BOOLEAN /\ (snapshot = <<>> \/ snapshot \in Opened(f))
      /\ messages = <<>>
  BY <1>1 DEF HistoryInv
<1>3. fromRows' \in BOOLEAN BY <1>1, <1>2 DEF HistoryTypes
<1>4. s \in Whole(Plain, g)
  <2>1. CASE snapshot # <<>>
    <3>1. stored = snapshot /\ g = f BY <1>1, <1>2, <2>1 DEF HistoryTypes
    <3> DEFINE u == NoSystem(snapshot)
    <3> HIDE DEF f, g, stored
    <3>2. u \in Whole(Plain, f) BY <1>2, <2>1, OpenedFacts
    <3> HIDE DEF u
    <3>3. u \in Seq(Message) /\ WellFormed(u) BY <1>2, <3>2, CarriedIs
    <3>4. SanitizeToolPairs(u) = u BY <3>3, LegalIsKept
    <3> QED BY <3>1, <3>2, <3>4 DEF u
  <2>2. CASE snapshot = <<>>
    <3>1. stored = tail /\ g = FALSE BY <1>1, <2>2
    <3> DEFINE k == Len(rows) - Min({Tail_, Len(rows)})
    <3>2. k \in 0 .. Len(rows) /\ rows \in Seq(Message)
      <4>1. Len(rows) \in Nat /\ Tail_ \in Nat /\ rows \in Seq(Message)
        BY <1>2, HistoryAssumption DEF HistoryTypes
      <4>2. Min({Tail_, Len(rows)}) = IF Tail_ <= Len(rows) THEN Tail_ ELSE Len(rows)
        BY <4>1, LesserIs
      <4> QED BY <4>1, <4>2
    <3> HIDE DEF k
    <3>3. SubSeq(rows, k + 1, Len(rows)) \in Seq(Message) BY <3>2, PartIs
    <3>4. tail \in Seq(Message) BY <3>3 DEF k
    <3> HIDE DEF tail, stored, g
    <3>5. SanitizeToolPairs(NoSystem(tail)) \in Whole(Plain, FALSE) BY <3>4, LoadIs
    <3> QED BY <3>1, <3>5
  <2> QED BY <2>1, <2>2
<1>5. s \in Seq(Message)
  <2>1. s \in Seq(Plain) BY <1>4 DEF Whole
  <2>2. Plain \in SUBSET Message BY DEF Plain
  <2> QED BY <2>1, <2>2, SeqMonotonic
<1> HIDE DEF s
<1>6. HistoryTypes' BY <1>1, <1>2, <1>3, <1>5 DEF HistoryTypes
<1>7. snapshot' = <<>> \/ snapshot' \in Opened(~fromRows')
  <2>1. CASE snapshot # <<>>
    <3>1. ~fromRows' = f BY <1>1, <1>2, <2>1 DEF HistoryTypes
    <3> QED BY <1>1, <1>2, <3>1
  <2> QED BY <1>1, <2>1
<1>8. live' \in Whole(Plain, ~fromRows') BY <1>1, <1>4 DEF g
<1> QED BY <1>1, <1>2, <1>6, <1>7, <1>8 DEF HistoryInv

(* Every step of the transcript's life.                                    *)
LEMMA HistorySteps == HistoryInv /\ [Next]_vars => HistoryInv'
<1> SUFFICES ASSUME HistoryInv, [Next]_vars PROVE HistoryInv' OBVIOUS
<1>1. CASE UNCHANGED vars BY <1>1 DEF vars, HistoryInv, HistoryTypes
<1>2. CASE StartTurn BY <1>2, StartTurnKeeps
<1>3. CASE Result BY <1>3, ResultKeeps
<1>4. CASE BatchOver BY <1>4, BatchOverKeeps
<1>5. CASE TurnRaises \/ Crash BY <1>5, StopKeeps
<1>6. CASE Hydrate BY <1>6, HydrateKeeps
<1>7. ASSUME NEW cs \in Batches, NEW text \in {Blank, "prose"}, Sample(cs, text) PROVE HistoryInv'
  BY <1>7, SampleKeeps
<1>8. ASSUME NEW saved \in BOOLEAN, EndTurn(saved) PROVE HistoryInv' BY <1>8, EndTurnKeeps
<1> QED BY <1>1, <1>2, <1>3, <1>4, <1>5, <1>6, <1>7, <1>8 DEF Next
(* What the invariant promises of every state.                             *)

(* What is left behind a cut is a suffix.                                  *)
LEMMA SuffixIs ==
    ASSUME NEW T, NEW s \in Seq(T), NEW d \in 0 .. Len(s)
    PROVE  IsSuffix(SubSeq(s, d + 1, Len(s)), s)
<1> DEFINE n == Len(s)
           v == SubSeq(s, d + 1, n)
           l == n - d
           p == Reverse(v)
           q == Reverse(s)
<1>1. n \in Nat /\ l \in 0 .. n OBVIOUS
<1>2. v \in Seq(T) /\ Len(v) = l /\ \A i \in 1 .. l : v[i] = s[d + i] BY PartIs
<1> HIDE DEF v
<1>3. p = [i \in 1 .. l |-> v[(l - i) + 1]] /\ q = [i \in 1 .. n |-> s[(n - i) + 1]]
  BY <1>2 DEF Reverse
<1>4. p \in Seq(T)
  <2>1. \A i \in 1 .. l : v[(l - i) + 1] \in T
    <3> HIDE DEF l
    <3>1. \A i \in 1 .. l : (l - i) + 1 \in 1 .. l BY <1>1
    <3> QED BY <1>2, <3>1
  <2> HIDE DEF p, l
  <2> QED BY <1>1, <1>3, <2>1
<1>5. q \in Seq(T)
  <2>1. \A i \in 1 .. n : s[(n - i) + 1] \in T
    <3>1. \A i \in 1 .. n : (n - i) + 1 \in 1 .. n BY <1>1
    <3> QED BY <3>1
  <2> HIDE DEF q, n
  <2> QED BY <1>1, <1>3, <2>1
<1>6. Len(p) = l /\ Len(q) = n
  <2> HIDE DEF l, n
  <2>1. DOMAIN p = 1 .. l /\ DOMAIN q = 1 .. n BY <1>3
  <2> HIDE DEF p, q
  <2> QED BY <1>1, <1>4, <1>5, <2>1, LenProperties
<1>7. \A i \in 1 .. l : p[i] = q[i]
  <2>1. ASSUME NEW i \in 1 .. l PROVE p[i] = q[i]
    <3>1. i \in 1 .. n /\ (l - i) + 1 \in 1 .. l /\ d + ((l - i) + 1) = (n - i) + 1 BY <1>1
    <3>2. p[i] = v[(l - i) + 1] /\ q[i] = s[(n - i) + 1] BY <1>3, <3>1
    <3> HIDE DEF l, n, p, q
    <3> QED BY <1>2, <3>1, <3>2
  <2> QED BY <2>1
<1> HIDE DEF p, q, l
<1>8. SubSeq(p, 1, l) = SubSeq(q, 1, l)
  <2> DEFINE x == SubSeq(p, 1, l)
             y == SubSeq(q, 1, l)
  <2>0. l \in 0 .. Len(p) /\ l \in 0 .. Len(q) BY <1>1, <1>6
  <2>1. x \in Seq(T) /\ Len(x) = l /\ \A i \in 1 .. l : x[i] = p[i] BY <1>4, <2>0, PartIs
  <2>2. y \in Seq(T) /\ Len(y) = l /\ \A i \in 1 .. l : y[i] = q[i] BY <1>5, <2>0, PartIs
  <2> HIDE DEF x, y
  <2>3. \A i \in 1 .. l : x[i] = y[i] BY <1>7, <2>1, <2>2
  <2>4. x = y BY <2>1, <2>2, <2>3, SeqEqual
  <2> QED BY <2>4 DEF x, y
<1>9. IsPrefix(p, q)
  <2>1. Len(p) <= Len(q) BY <1>1, <1>6
  <2> QED BY <1>6, <1>8, <2>1 DEF IsPrefix
<1> QED BY <1>9 DEF IsSuffix, p, q, v

(* The messages are of their types.                                        *)
LEMMA TypesPromise == HistoryInv => TypeOK
<1> SUFFICES ASSUME HistoryInv PROVE TypeOK OBVIOUS
<1>1. HistoryTypes BY DEF HistoryInv
<1>2. ASSUME NEW m \in Message
      PROVE  /\ DOMAIN m = {"role", "calls", "id", "text"}
             /\ m.role \in {"system", "user", "assistant", "tool"}
             /\ HasCalls(m) => m.role = "assistant"
  <2>1. /\ m \in [role : {"system", "user", "assistant", "tool"}, calls : Seq(Ids), id : Words,
           text : Words]
        /\ HasCalls(m) => m.role = "assistant"
    BY DEF Message
  <2>2. DOMAIN m = {"role", "calls", "id", "text"}
        /\ m.role \in {"system", "user", "assistant", "tool"}
    BY <2>1
  <2> QED BY <2>1, <2>2
<1>3. ASSUME NEW ms \in Seq(Message), NEW i \in DOMAIN ms PROVE ms[i] \in Message OBVIOUS
<1>4. ASSUME NEW ms \in Transcripts \cup {snapshot}, NEW i \in DOMAIN ms
      PROVE  /\ DOMAIN ms[i] = {"role", "calls", "id", "text"}
             /\ ms[i].role \in {"system", "user", "assistant", "tool"}
             /\ HasCalls(ms[i]) => ms[i].role = "assistant"
  <2>1. ms \in Seq(Message) BY <1>1 DEF HistoryTypes, Transcripts
  <2> QED BY <1>2, <1>3, <2>1
<1> QED BY <1>1, <1>4 DEF TypeOK, HistoryTypes

(* Every cut is between exchanges: TrimKeepsTheEnd, SplitIsSafe,           *)
(* FoldRegionsAreExact and SanitizeIsStable.                               *)
LEMMA CutsPromise == HistoryInv => CutsAreExact
<1> SUFFICES ASSUME HistoryInv PROVE CutsAreExact OBVIOUS
<1> DEFINE f == ~fromRows
           rest == NoSystem(messages)
<1>1. HistoryTypes /\ f \in BOOLEAN BY DEF HistoryInv
<1>2. MaxTurns \in Nat /\ Window \in Nat /\ Protect \in Nat /\ Keep \in Nat /\ Keep >= 2
  BY HistoryAssumption
<1>3. pc = "head" => messages \in Opened(f) BY DEF HistoryInv
<1> HIDE DEF f
<1>4. SanitizeIsStable
  <2>1. ASSUME NEW ms \in Transcripts
        PROVE  /\ WellFormed(ms) => SanitizeToolPairs(ms) = ms
               /\ SanitizeToolPairs(SanitizeToolPairs(ms)) = SanitizeToolPairs(ms)
    <3>1. ms \in Seq(Message) BY <1>1 DEF HistoryTypes, Transcripts
    <3> DEFINE s == SanitizeToolPairs(ms)
    <3>2. s \in Seq(Message) /\ WellFormed(s) BY <3>1, Closures, SanitizedIs
    <3> HIDE DEF s
    <3>3. SanitizeToolPairs(s) = s BY <3>2, LegalIsKept
    <3> QED BY <3>1, <3>3, LegalIsKept DEF s
  <2> QED BY <2>1 DEF SanitizeIsStable
<1>5. SplitIsSafe
  <2>1. ASSUME pc = "head", NEW i \in 0 .. Len(messages)
        PROVE  LET k == SnapToSafeBoundary(messages, i)
               IN /\ k >= i
                  /\ WellFormed(SubSeq(messages, 1, k))
                  /\ WellFormed(SubSeq(messages, k + 1, Len(messages)))
    <3>1. messages \in Seq(Message) /\ WellFormed(messages) BY <1>1, <1>3, <2>1, OpenedFacts
    <3> DEFINE k == SnapToSafeBoundary(messages, i)
    <3>2. k \in i .. Len(messages) /\ SafeCut(messages, k) BY <2>1, <3>1, SnapIs
    <3> HIDE DEF k
    <3>3. k >= i BY <2>1, <3>2
    <3>4. WellFormed(SubSeq(messages, 1, k)) /\ WellFormed(SubSeq(messages, k + 1, Len(messages)))
      BY <3>1, <3>2, CutsAreLegal
    <3> QED BY <3>3, <3>4 DEF k
  <2> QED BY <2>1 DEF SplitIsSafe
<1>6. pc = "head" => rest \in Seq(Plain) /\ WellFormed(rest)
  <2>1. pc = "head" => rest \in Whole(Plain, f) BY <1>1, <1>3, OpenedFacts
  <2> QED BY <2>1 DEF Whole
<1>7. FoldRegionsAreExact
  <2>1. ASSUME pc = "head"
        PROVE  LET plan == PlanFoldRegions(rest, ProtectNow, Keep)
                   body == plan.middle \o plan.tail
               IN /\ plan.head \o body = rest
                  /\ \A ms \in {plan.head, plan.middle, plan.tail} : WellFormed(ms)
                  /\ plan.middle = <<>> <=>
                        \/ Len(body) <= Keep + 1
                        \/ \A k \in 1 .. Keep : IsResult(body[Len(body) - k + 1])
    <3>1. ProtectNow \in Nat BY <1>1, <1>2 DEF ProtectNow, HistoryTypes
    <3>2. Plain \in SUBSET Message BY DEF Plain
    <3>3. rest \in Seq(Plain) /\ WellFormed(rest) BY <1>6, <2>1
    <3> HIDE DEF rest
    <3> QED BY <1>2, <3>1, <3>2, <3>3, RegionsAre
  <2> QED BY <2>1 DEF FoldRegionsAreExact
<1>8. TrimKeepsTheEnd
  <2> DEFINE kept == HardTrimSafe(<<>>, rest, Window)
  <2>1. ASSUME pc = "head"
        PROVE  /\ WellFormed(kept) /\ IsSuffix(kept, rest)
               /\ Len(kept) <= Window \/ Len(kept) <= 2
    <3> DEFINE e == <<>>
               v == Trims(e, rest, Window)[Len(rest)]
    <3>1. Len(e) = 0 /\ e \in Seq(Message) /\ Len(e) \in Nat OBVIOUS
    <3>2. Plain \in SUBSET Message BY DEF Plain
    <3>3. rest \in Seq(Plain) /\ WellFormed(rest) BY <1>6, <2>1
    <3> HIDE DEF rest, e
    <3>0. Window \in Nat BY <1>2
    <3>4. v \in EndsOf(rest) /\ FitsWindow(e, v, Window) BY <3>0, <3>1, <3>2, <3>3, TrimIs
    <3> HIDE DEF v
    <3>5. v \in Seq(Message) /\ Len(v) \in Nat /\ WellFormed(v) BY <3>2, <3>3, <3>4, EndIs
    <3>6. Len(v) <= Window \/ Len(v) <= 2 BY <1>2, <3>1, <3>4, <3>5 DEF FitsWindow
    <3>7. IsSuffix(v, rest)
      <4>1. PICK d \in 0 .. Len(rest) : v = SubSeq(rest, d + 1, Len(rest)) BY <3>4 DEF EndsOf
      <4> QED BY <3>3, <4>1, SuffixIs
    <3>8. e \o v = v BY <3>5, ConcatEmptySeq DEF e
    <3>9. SanitizeToolPairs(v) = v BY <3>5, LegalIsKept
    <3>10. kept = v BY <3>8, <3>9 DEF HardTrimSafe, v, e
    <3> HIDE DEF kept
    <3> QED BY <3>5, <3>6, <3>7, <3>10
  <2> HIDE DEF rest
  <2> QED BY <2>1 DEF TrimKeepsTheEnd, rest
<1>9. TypeOK BY TypesPromise
<1> QED BY <1>4, <1>5, <1>7, <1>8, <1>9 DEF CutsAreExact

(* What the invariant promises of every state: each request sent is well   *)
(* formed.                                                                 *)
LEMMA TranscriptPromises == HistoryInv => TranscriptIsWhole
<1> SUFFICES ASSUME HistoryInv PROVE TranscriptIsWhole OBVIOUS
<1> DEFINE f == ~fromRows
<1>1. /\ HistoryTypes /\ f \in BOOLEAN /\ (live \in Opened(f) \/ live \in Whole(Plain, f))
      /\ pc = "head" => messages \in Opened(f)
  BY DEF HistoryInv
<1>2. compacted \in BOOLEAN BY <1>1 DEF HistoryTypes
<1> HIDE DEF f
<1>3. WellFormed(live) BY <1>1, CarriedIs
<1>4. ASSUME pc = "head", NEW e \in Ensured(messages) PROVE WellFormed(e.ms)
  <2>1. e.ms \in Opened(f) BY <1>1, <1>2, <1>4, EnsuredIs
  <2> DEFINE u == e.ms
  <2> HIDE DEF u
  <2>2. WellFormed(u) BY <1>1, <2>1, OpenedFacts DEF u
  <2> QED BY <2>2 DEF u
<1>5. SentWellFormed BY <1>3, <1>4 DEF SentWellFormed
<1> QED BY <1>5, CutsPromise DEF TranscriptIsWhole
(* What a step promises about the results.                                 *)

(* In a batch under way each result has the text of its round.             *)
LEMMA BatchIsFaithful ==
    ASSUME NEW ms \in Seq(Message), NEW name \in STRING, InBatch(TRUE, ms, name)
    PROVE  Faithful(ms)
<1>1. PICK a \in 2 .. Len(ms) : BatchAt(TRUE, ms, name, a) BY DEF InBatch
<1> DEFINE n == Len(ms)
           p == a - 1
           pre == SubSeq(ms, 1, p)
<1>2. /\ n \in Nat /\ a \in 2 .. n /\ pre \in Opened(TRUE) /\ ms[a].id = name
      /\ \A j \in 1 .. n - a : IsResult(ms[a + j]) /\ ms[a + j].text = name
  <2>1. /\ pre \in Opened(TRUE) /\ ms[a].id = name
        /\ \A j \in 1 .. n - a :
             IsResult(ms[a + j]) /\ ms[a + j].id = ms[a].calls[j] /\ ms[a + j].text = name
    BY <1>1 DEF BatchAt
  <2>2. n \in Nat /\ a \in 2 .. n OBVIOUS
  <2> HIDE DEF pre
  <2> QED BY <2>1, <2>2
<1>3. pre \in Seq(Message) /\ WellFormed(pre) /\ Faithful(pre) BY <1>2, OpenedFacts
<1>4. p \in 0 .. n /\ Len(pre) = p /\ \A i \in 1 .. p : pre[i] = ms[i]
  <2>1. p \in 0 .. n BY <1>2
  <2> HIDE DEF p
  <2>2. Len(pre) = p /\ \A i \in 1 .. p : pre[i] = ms[i] BY <2>1, PartIs
  <2> QED BY <2>1, <2>2
<1>5. ASSUME NEW i \in 1 .. n, NEW j \in 1 .. Len(ms[i].calls), i + j \in 1 .. n
      PROVE ms[i + j].text \in {ms[i].id, Cleared, "never executed"}
  <2>1. CASE i < a
    <3>1. i \in 1 .. p /\ i \in 1 .. Len(pre)
      <4>1. i \in 1 .. p BY <1>2, <2>1
      <4> QED BY <1>4, <4>1
    <3> HIDE DEF pre, p
    <3>2. pre[i] = ms[i] /\ CallsFit(pre, i) BY <1>3, <1>4, <3>1, LegalIs
    <3>3. i + j \in 1 .. Len(pre) BY <3>2 DEF CallsFit
    <3>4. pre[i + j] = ms[i + j] BY <1>4, <3>3
    <3>5. pre[i + j].text \in {pre[i].id, Cleared, "never executed"}
      BY <1>3, <3>1, <3>2, <3>3 DEF Faithful
    <3> QED BY <3>2, <3>4, <3>5
  <2>2. CASE i = a
    <3>1. Len(ms[i].calls) \in Nat
      <4>1. ms[i] \in Message OBVIOUS
      <4> QED BY <4>1, MessageIs
    <3>2. j \in 1 .. n - a BY <1>2, <1>5, <2>2, <3>1
    <3>3. ms[a + j].text = name BY <1>2, <3>2
    <3> QED BY <1>2, <2>2, <3>3
  <2>3. CASE i > a
    <3> DEFINE k == i - a
               z == Len(ms[i].calls)
    <3>1. k \in 1 .. n - a /\ a + k = i BY <1>2, <2>3
    <3>2. IsResult(ms[i])
      <4> HIDE DEF k, n
      <4> QED BY <1>2, <3>1
    <3>3. ms[i] \in Message OBVIOUS
    <3>4. z = 0 BY <3>2, <3>3, MessageIs
    <3>5. j \in 1 .. z OBVIOUS
    <3> HIDE DEF z
    <3>6. FALSE BY <3>4, <3>5
    <3> QED BY <3>6
  <2>4. i < a \/ i = a \/ i > a BY <1>2
  <2> QED BY <2>1, <2>2, <2>3, <2>4
<1> QED BY <1>5 DEF Faithful

(* Each result stays with the call it answers.                             *)
LEMMA ResultsStay == HistoryInv => ResultsStayWithTheirCall
<1> SUFFICES ASSUME HistoryInv, ~fromRows PROVE
      \A ms \in {messages, live} : \A i \in DOMAIN ms : \A j \in DOMAIN ms[i].calls :
            i + j \in DOMAIN ms
            => ms[i + j].text \in {ms[i].id, Cleared, Never(ms[i].calls[j]).text}
  BY DEF ResultsStayWithTheirCall
<1> DEFINE f == ~fromRows
<1>1. /\ HistoryTypes /\ f = TRUE /\ (live \in Opened(f) \/ live \in Whole(Plain, f))
      /\ pc \in {"head", "over"} => messages \in Opened(f)
      /\ pc = "batch" => rounds \in 1 .. Len(Texts) /\ InBatch(f, messages, Texts[rounds])
      /\ pc \in {"idle", "down"} => messages = <<>>
  BY DEF HistoryInv
<1> HIDE DEF f
<1>2. live \in Seq(Message) /\ Faithful(live) BY <1>1, CarriedIs
<1>3. messages \in Seq(Message) /\ Faithful(messages)
  <2>1. messages \in Seq(Message) /\ pc \in {"idle", "head", "batch", "over", "down"}
    BY <1>1 DEF HistoryTypes
  <2>2. CASE pc \in {"head", "over"}
    <3>1. messages \in Opened(TRUE) BY <1>1, <2>2
    <3> QED BY <2>1, <3>1, OpenedFacts
  <2>3. CASE pc = "batch"
    <3> DEFINE name == Texts[rounds]
    <3>1. name \in STRING
      <4>1. Texts \in Seq(STRING) BY HistoryAssumption
      <4> QED BY <1>1, <2>3, <4>1
    <3> HIDE DEF name
    <3>2. InBatch(TRUE, messages, name) BY <1>1, <2>3 DEF name
    <3> QED BY <2>1, <3>1, <3>2, BatchIsFaithful
  <2>4. CASE pc \in {"idle", "down"}
    <3>1. messages \in Whole(Plain, TRUE) BY <1>1, <2>4, EmptyIsWhole
    <3> QED BY <2>1, <3>1, CarriedIs
  <2> QED BY <2>1, <2>2, <2>3, <2>4
<1>4. ASSUME NEW ms \in Seq(Message), Faithful(ms), NEW i \in DOMAIN ms,
             NEW j \in DOMAIN ms[i].calls,
             i + j \in DOMAIN ms
      PROVE ms[i + j].text \in {ms[i].id, Cleared, Never(ms[i].calls[j]).text}
  <2>1. DOMAIN ms = 1 .. Len(ms) /\ ms[i] \in Message OBVIOUS
  <2>2. DOMAIN ms[i].calls = 1 .. Len(ms[i].calls)
        /\ \A k \in 1 .. Len(ms[i].calls) : ms[i].calls[k] \in Ids
    BY <2>1, MessageIs
  <2>3. ms[i + j].text \in {ms[i].id, Cleared, "never executed"}
    BY <1>4, <2>1, <2>2 DEF Faithful
  <2>4. ms[i].calls[j] \in Ids BY <2>2
  <2>5. Never(ms[i].calls[j]).text = "never executed" BY <2>4, NeverIs
  <2> QED BY <2>3, <2>5
<1> QED BY <1>2, <1>3, <1>4

(* The end of a turn loses no result.                                      *)
LEMMA ResultsLeave == HistoryInv => EndKeepsResults
<1> SUFFICES ASSUME HistoryInv, NEW saved \in BOOLEAN, EndTurn(saved), NEW i \in DOMAIN messages,
                    IsResult(messages[i])
             PROVE  Contains(live', messages[i])
  BY DEF EndKeepsResults
<1> DEFINE s == SanitizeToolPairs(messages)
<1>1. live' = s BY DEF EndTurn
<1>2. messages \in Seq(Message) BY DEF HistoryInv, HistoryTypes
<1>3. i \in 1 .. Len(messages) BY <1>2
<1>4. i \in 1 .. Len(s) /\ s[i] = messages[i] BY <1>3, EndLeaves
<1> HIDE DEF s
<1> QED BY <1>1, <1>4 DEF Contains

-----------------------------------------------------------------------------
(* The run's specification (MCStores). *)

(* The code graph as the run explores it: the index answers with what was  *)
(* written, and a session's runtime is there for as long as it holds a     *)
(* handle, for every finite set of files and of sessions.                  *)
THEOREM GraphHolds == StoresSpec => []GraphIsKept
<1>1. StoresInit => GraphInv /\ RuntimeInv
  BY IndexStarts, RuntimeStarts DEF StoresInit
<1>2. GraphInv /\ RuntimeInv
        /\ [StoresNext]_<<store, vars, worktrees, graph, runtimes, patching>>
      => (GraphInv /\ RuntimeInv)'
  <2> SUFFICES ASSUME GraphInv, RuntimeInv,
                      [StoresNext]_<<store, vars, worktrees, graph, runtimes, patching>>
               PROVE  (GraphInv /\ RuntimeInv)'
    OBVIOUS
  <2>1. [GraphNext]_graph /\ [RuntimeNext]_runtimes BY DEF StoresNext
  <2> QED BY <2>1, IndexSteps, RuntimeStep
<1>3. GraphInv /\ RuntimeInv => GraphIsKept
  BY IndexPromises, RuntimeIsRight DEF GraphIsKept
<1> QED BY <1>1, <1>2, <1>3, PTL DEF StoresSpec

(* The worktrees as the run explores them: no edit of a child is lost and  *)
(* no merge is reported that left something behind, for every set of       *)
(* children and of mergers.                                                *)
THEOREM WorktreesHold == StoresSpec => []EditsAreKept
<1>1. StoresInit => WorktreeInv BY WorktreeStarts DEF StoresInit
<1>2. WorktreeInv /\ [StoresNext]_<<store, vars, worktrees, graph, runtimes, patching>>
      => WorktreeInv'
  <2> SUFFICES ASSUME WorktreeInv,
                      [StoresNext]_<<store, vars, worktrees, graph, runtimes, patching>>
               PROVE  WorktreeInv'
    OBVIOUS
  <2>1. [WorktreeNext]_worktrees BY DEF StoresNext
  <2> QED BY <2>1, WorktreeStep
<1>3. WorktreeInv => EditsAreKept BY DEF WorktreeInv, EditsAreKept
<1> QED BY <1>1, <1>2, <1>3, PTL DEF StoresSpec

(* The transcript as LiveHistory has it, for every batch of calls, every   *)
(* budget and every window.                                                *)
THEOREM HistoryHolds == StoresSpec => []TranscriptIsWhole
<1>1. StoresInit => HistoryInv BY HistoryStarts DEF StoresInit
<1>2. HistoryInv /\ [StoresNext]_<<store, vars, worktrees, graph, runtimes, patching>>
      => HistoryInv'
  <2> SUFFICES ASSUME HistoryInv,
                      [StoresNext]_<<store, vars, worktrees, graph, runtimes, patching>>
               PROVE  HistoryInv'
    OBVIOUS
  <2>1. [Next]_vars BY DEF StoresNext
  <2> QED BY <2>1, HistorySteps
<1>3. HistoryInv => TranscriptIsWhole BY TranscriptPromises
<1> QED BY <1>1, <1>2, <1>3, PTL DEF StoresSpec

(* A result is neither moved to another call nor lost, for every batch of  *)
(* calls, even when rounds use the same ids again.                         *)
THEOREM ResultsHold == StoresSpec => ResultsAreKept
<1>1. StoresInit => HistoryInv BY HistoryStarts DEF StoresInit
<1>2. HistoryInv /\ [StoresNext]_<<store, vars, worktrees, graph, runtimes, patching>>
      => HistoryInv' /\ [EndKeepsResults]_vars
  <2> SUFFICES ASSUME HistoryInv,
                      [StoresNext]_<<store, vars, worktrees, graph, runtimes, patching>>
               PROVE  HistoryInv' /\ [EndKeepsResults]_vars
    OBVIOUS
  <2>1. [Next]_vars BY DEF StoresNext
  <2>2. HistoryInv' BY <2>1, HistorySteps
  <2>3. EndKeepsResults BY ResultsLeave
  <2> QED BY <2>2, <2>3
<1>3. HistoryInv => ResultsStayWithTheirCall BY ResultsStay
<1> QED BY <1>1, <1>2, <1>3, PTL DEF StoresSpec, ResultsAreKept
=============================================================================

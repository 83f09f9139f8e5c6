------------------------------ MODULE PatchApply ------------------------------
(***************************************************************************)
(* The apply_patch tool (src/src/codedoggy/tools/builtins/apply_patch.py   *)
(* and tools/codex/apply_patch: parser.py, seek_sequence.py,               *)
(* apply_logic.py).                                                        *)
(*                                                                         *)
(* A patch is parsed, every change is computed in memory over a virtual    *)
(* map of the files, and only then are the changes written one by one.     *)
(* No path lock covers the tool, so editors and other agents may change a  *)
(* file at any point; a write may fail, and may leave its file truncated.  *)
(*                                                                         *)
(* A file is the sequence of its lines.  A line is its text and what       *)
(* dresses it: nothing, white space behind, white space before,            *)
(* typographic characters; a pass of the matcher sees through some of it.  *)
(***************************************************************************)
EXTENDS Naturals, Sequences, FiniteSets, SequencesExt

CONSTANTS PatchFiles,  \* paths
          Disks,       \* what the paths may hold at first
          Outside,     \* what others may make of a file
          Patches,     \* texts of patches, as sequences of tokens
          Meddles      \* bound: edits of others

Line(text, dress) == <<text, dress>>
Missing == <<Line("missing", 9)>>    \* no file: not a content
BlankLine == Line("", 0)
NoLine == Line("none", 0)

VARIABLES
    files,        \* per path: a content, or Missing
    stage,       \* of the call: off, computing, writing, ok, refused, failed
    hunks,       \* parsed.hunks
    nextHunk,    \* the hunk to compute, or the change to write
    virtual,     \* of the paths the patch named so far, what it makes of them
    planned,     \* _FileChange records
    mutations    \* what set_mutation recorded

(* History: read by the properties only. *)
VARIABLES first,       \* the disk when the call began
          written,     \* paths the call wrote or removed
          torn,        \* paths of a change that failed half way
          meddled      \* how many edits others made

patching == <<files, stage, hunks, nextHunk, virtual, planned, mutations, first,
              written, torn, meddled>>
inCall == <<stage, hunks, nextHunk, virtual, planned, mutations, first>>

-----------------------------------------------------------------------------
(* parser.py, over tokens [k |-> kind, f |-> path, l |-> line] *)

Headers == {"add", "delete", "update", "move", "eof"}    \* they begin with ***
Body == {" ", "+", "-", "blank"}
NoParse == [ok |-> FALSE, got |-> <<>>, next |-> 0]

(* The end of the run of tokens of these kinds that begins at i.           *)
RunEnd(ts, i, kinds) ==
    LET stops == {j \in i .. Len(ts) : ts[j].k \notin kinds}
    IN  IF stops = {} THEN Len(ts) + 1 ELSE CHOOSE j \in stops : \A n \in stops : j <= n

LinesOf(ts, kinds) == LET kept == SelectSeq(ts, LAMBDA t : t.k \in kinds)
                      IN  [i \in DOMAIN kept |-> kept[i].l]

ParseChunk(ts, i, isFirst) ==
    LET start == IF ts[i].k = "at" THEN i + 1 ELSE i
        stop == RunEnd(ts, start, Body)
        body == SubSeq(ts, start, stop - 1)
        ends == stop <= Len(ts) /\ ts[stop].k = "eof"
    IN  [ok |-> (ts[i].k = "at" \/ isFirst) /\ body # <<>>,
         got |-> [context |-> IF ts[i].k = "at" THEN ts[i].l ELSE NoLine,
                  old |-> LinesOf(body, Body \ {"+"}), new |-> LinesOf(body, Body \ {"-"}),
                  eof |-> ends],
         next |-> IF ends THEN stop + 1 ELSE stop]

ParseChunks(ts, from) ==
    LET C[i \in 1 .. Len(ts) + 1, isFirst \in BOOLEAN] ==
          IF i > Len(ts) \/ (i <= Len(ts) /\ ts[i].k \in Headers)
          THEN [ok |-> ~isFirst, got |-> <<>>, next |-> i]
          ELSE IF ts[i].k = "blank" THEN C[i + 1, isFirst]
          ELSE LET chunk == ParseChunk(ts, i, isFirst)
                   rest == IF chunk.ok THEN C[chunk.next, FALSE] ELSE NoParse
               IN  [rest EXCEPT !.got = <<chunk.got>> \o @]
    IN  C[from, TRUE]

ParseHunk(ts, i) ==
    LET t == ts[i]
        Hunk(kind, dest, lines, chunks) ==
          [kind |-> kind, path |-> t.f, dest |-> dest, lines |-> lines, chunks |-> chunks]
        moves == i < Len(ts) /\ ts[i + 1].k = "move"
        parsed == ParseChunks(ts, IF moves THEN i + 2 ELSE i + 1)
        plus == RunEnd(ts, i + 1, {"+"})
    IN  CASE t.k = "add" ->
               [ok |-> TRUE, next |-> plus,
                got |-> Hunk("add", t.f, LinesOf(SubSeq(ts, i + 1, plus - 1), {"+"}), <<>>)]
          [] t.k = "delete" ->
               [ok |-> TRUE, next |-> i + 1, got |-> Hunk("delete", t.f, <<>>, <<>>)]
          [] t.k = "update" ->
               [parsed EXCEPT !.got = Hunk(IF moves THEN "move" ELSE "update",
                                           IF moves THEN ts[i + 1].f ELSE t.f, <<>>, @)]
          [] OTHER -> NoParse

Parse(ts) ==
    LET H[i \in 1 .. Len(ts) + 1] ==
          IF i > Len(ts) THEN [ok |-> TRUE, got |-> <<>>, next |-> i]
          ELSE LET hunk == ParseHunk(ts, i)
                   rest == IF hunk.ok THEN H[hunk.next] ELSE NoParse
               IN  [rest EXCEPT !.got = <<hunk.got>> \o @]
    IN  H[1]

(* A patch names paths there are; every path has a content at first.       *)
Lines == Seq(STRING \X Nat)
Chunked == [context : STRING \X Nat, old : Lines, new : Lines, eof : BOOLEAN]
Parsed == [kind : {"add", "delete", "update", "move"}, path : PatchFiles, dest : PatchFiles,
           lines : Lines, chunks : Seq(Chunked)]
ASSUME PatchAssumption ==
    /\ \A text \in Patches : Parse(text).ok => Parse(text).got \in Seq(Parsed)
    /\ \A d \in Disks : d \in [PatchFiles -> Lines]
    /\ Meddles \in Nat

-----------------------------------------------------------------------------
(* seek_sequence.py and apply_logic.py; indices count from 0 *)

(* Pass k sees a line without the dress that comes before the k-th.        *)
Form(k, l) == IF l[2] < k THEN Line(l[1], 0) ELSE l

Hits(k, q, pat, from) ==
    {i \in from .. Len(q) - Len(pat) :
        \A p \in DOMAIN pat : Form(k, q[i + p]) = Form(k, pat[p])}
NotFound == 1000
SeekFrom(q, pat, from) ==
    LET passes == {k \in 1 .. 4 : Hits(k, q, pat, from) # {}}
    IN  IF passes = {} THEN NotFound ELSE Min(Hits(Min(passes), q, pat, from))
Seek(q, pat, start, eof) ==
    CASE pat = <<>> -> start
      [] Len(pat) > Len(q) -> NotFound
      [] OTHER -> SeekFrom(q, pat, IF eof THEN Len(q) - Len(pat) ELSE start)

EndsBlank(q) == q # <<>> /\ Last(q) = BlankLine
Shorter(q) == IF EndsBlank(q) THEN Front(q) ELSE q

(* One chunk: where it goes, in place of what, and where the search goes   *)
(* on.  A pattern that ends in a blank line is tried again without it.     *)
Replacement(old, new, found) ==
    [ok |-> found # NotFound, start |-> found, len |-> Len(old), new |-> new,
     at |-> found + Len(old)]
Insertion(q, new, at) ==         \* at the end, before a blank last line
    [ok |-> TRUE, start |-> IF EndsBlank(q) THEN Len(q) - 1 ELSE Len(q), len |-> 0,
     new |-> new, at |-> at]
Retry(q, at, c, found) ==
    IF found = NotFound /\ EndsBlank(c.old)
    THEN Replacement(Front(c.old), Shorter(c.new), Seek(q, Front(c.old), at, c.eof))
    ELSE Replacement(c.old, c.new, found)
PlaceFrom(q, at, c) ==
    CASE at > NotFound -> [ok |-> FALSE, at |-> at]
      [] at <= NotFound /\ c.old = <<>> -> Insertion(q, c.new, at)
      [] OTHER -> Retry(q, at, c, Seek(q, c.old, at, c.eof))
Place(q, at, c) ==
    PlaceFrom(q, IF c.context = NoLine THEN at ELSE Seek(q, <<c.context>>, at, FALSE) + 1, c)

WithPlace(acc, r) ==
    [ok |-> r.ok, at |-> r.at, reps |-> IF r.ok THEN Append(acc.reps, r) ELSE acc.reps]
ComputeReplacements(q, chunks) ==
    FoldLeft(LAMBDA acc, c : IF acc.ok THEN WithPlace(acc, Place(q, acc.at, c)) ELSE acc,
             [ok |-> TRUE, at |-> 0, reps |-> <<>>], chunks)

AsListed(reps) == reps
ByStart(reps) ==                 \* the stable sort
    FoldLeft(LAMBDA acc, r : SelectSeq(acc, LAMBDA x : x.start <= r.start) \o <<r>>
                             \o SelectSeq(acc, LAMBDA x : x.start > r.start), <<>>, reps)

ApplyReplacements(q, reps) ==     \* from the last to the first
    FoldRight(LAMBDA r, out : SubSeq(out, 1, IF r.start < Len(out) THEN r.start ELSE Len(out)) \o r.new
                              \o SubSeq(out, r.start + r.len + 1, Len(out)), reps, q)

(* The text ends with one line break: a blank last line is not kept.       *)
Edited(q, all) ==
    [ok |-> all.ok,
     lines |-> IF all.ok THEN Shorter(ApplyReplacements(q, ByStart(all.reps))) ELSE <<>>]
DeriveNewContents(q, chunks) == Edited(q, ComputeReplacements(q, chunks))

-----------------------------------------------------------------------------
(* The tool *)

PatchInit ==
    /\ files \in Disks /\ first = files
    /\ stage = "off" /\ hunks = <<>> /\ nextHunk = 1
    /\ virtual = [f \in {} |-> Missing] /\ planned = <<>> /\ mutations = <<>>
    /\ written = {} /\ torn = {} /\ meddled = 0

Run(text) ==
    /\ hunks' = Parse(text).got
    /\ stage' = IF Parse(text).ok THEN "computing" ELSE "refused"
    /\ first' = files
    /\ UNCHANGED <<files, nextHunk, virtual, planned, mutations, written, torn, meddled>>

Meddle(f, c) ==                  \* an editor, a shell, another agent
    /\ stage \in {"computing", "writing"} /\ meddled < Meddles /\ files[f] # c
    /\ files' = [files EXCEPT ![f] = c] /\ meddled' = meddled + 1
    /\ UNCHANGED <<inCall, written, torn>>

Seen(f) == IF f \in DOMAIN virtual THEN virtual[f] ELSE files[f]
With(map, f, c) == [g \in DOMAIN map \cup {f} |-> IF g = f THEN c ELSE map[g]]
ChangeOf(kind, h, after) ==
    [kind |-> kind, path |-> h.path, before |-> Seen(h.path), after |-> after,
     dest |-> h.dest, destBefore |-> Seen(h.dest)]

Refuse ==
    /\ stage' = "refused"
    /\ UNCHANGED <<hunks, nextHunk, virtual, planned>>
Plan(change, map) ==
    /\ planned' = Append(planned, change) /\ virtual' = map
    /\ nextHunk' = nextHunk + 1
    /\ UNCHANGED <<stage, hunks>>

ComputeFromDisk ==
    /\ stage = "computing" /\ nextHunk <= Len(hunks)
    /\ \E h \in {hunks[nextHunk]} :
       \E derived \in {DeriveNewContents(files[h.path], h.chunks)} :
           IF h.kind = "add"
           THEN Plan(ChangeOf("add", h, h.lines), With(virtual, h.path, h.lines))
           ELSE IF files[h.path] = Missing \/ (h.kind # "delete" /\ ~derived.ok)
                   \/ (h.kind = "move" /\ h.dest = h.path)
           THEN Refuse
           ELSE Plan(ChangeOf(h.kind, h, IF h.kind = "delete" THEN Missing ELSE derived.lines),
                     virtual)
    /\ UNCHANGED <<files, mutations, first, written, torn, meddled>>
Compute ==                       \* _compute_all_changes, one hunk
    /\ stage = "computing" /\ nextHunk <= Len(hunks)
    /\ \E h \in {hunks[nextHunk]} : \E now \in {Seen(h.path)} :
       \E derived \in {DeriveNewContents(now, h.chunks)} :
          \/ /\ h.kind = "add"
             /\ Plan(ChangeOf("add", h, h.lines), With(virtual, h.path, h.lines))
          \/ h.kind # "add" /\ now = Missing /\ Refuse
          \/ /\ h.kind = "delete" /\ now # Missing
             /\ Plan(ChangeOf("delete", h, Missing), With(virtual, h.path, Missing))
          \/ h.kind \in {"update", "move"} /\ now # Missing /\ ~derived.ok /\ Refuse
          \/ /\ h.kind = "update" /\ now # Missing /\ derived.ok
             /\ Plan(ChangeOf("update", h, derived.lines), With(virtual, h.path, derived.lines))
          \/ h.kind = "move" /\ now # Missing /\ derived.ok /\ h.dest = h.path /\ Refuse
          \/ /\ h.kind = "move" /\ now # Missing /\ derived.ok /\ h.dest # h.path
             /\ Plan(ChangeOf("move", h, derived.lines),
                     With(With(virtual, h.path, Missing), h.dest, derived.lines))
    /\ UNCHANGED <<files, mutations, first, written, torn, meddled>>

Denied ==                        \* by policy, outside the workspace, a directory
    /\ stage = "computing" /\ nextHunk <= Len(hunks) /\ Refuse
    /\ UNCHANGED <<files, mutations, first, written, torn, meddled>>

AllComputed ==
    /\ stage = "computing" /\ nextHunk > Len(hunks)
    /\ stage' = "writing" /\ nextHunk' = 1
    /\ UNCHANGED <<files, hunks, virtual, planned, mutations, first, written, torn, meddled>>

Mutation(f, before, after) == [path |-> f, before |-> before, after |-> after]
Told(c) ==
    IF c.kind # "move" THEN <<Mutation(c.path, c.before, c.after)>>
    ELSE <<Mutation(c.path, c.before, Missing), Mutation(c.dest, c.destBefore, c.after)>>

Removes(c) == c.kind \in {"delete", "move"}
Target(c) == IF c.kind = "move" THEN c.dest ELSE c.path
CanRemove(c) == Removes(c) => files[c.path] # Missing
Done(d, c) ==
    CASE c.kind = "delete" -> [d EXCEPT ![c.path] = Missing]
      [] c.kind = "move" -> [d EXCEPT ![c.dest] = c.after, ![c.path] = Missing]
      [] OTHER -> [d EXCEPT ![c.path] = c.after]

WriteTold ==
    /\ stage = "writing" /\ nextHunk <= Len(planned)
    /\ LET c == planned[nextHunk] IN
         /\ CanRemove(c) /\ files' = Done(files, c) /\ written' = written \cup {c.path, c.dest}
         /\ mutations' = Append(mutations, Mutation(Target(c), c.before, c.after))
    /\ nextHunk' = nextHunk + 1
    /\ UNCHANGED <<stage, hunks, virtual, planned, first, torn, meddled>>
WriteChange ==                   \* _apply_all_changes, one change
    /\ stage = "writing" /\ nextHunk <= Len(planned)
    /\ LET c == planned[nextHunk] IN
         /\ CanRemove(c)
         /\ files' = Done(files, c) /\ mutations' = mutations \o Told(c)
         /\ written' = written \cup {c.path, c.dest}
    /\ nextHunk' = nextHunk + 1
    /\ UNCHANGED <<stage, hunks, virtual, planned, first, torn, meddled>>

(* OSError: nothing was done, the file was truncated, or a move wrote its  *)
(* destination and could not remove its source.                            *)
WriteFails ==
    /\ stage = "writing" /\ nextHunk <= Len(planned)
    /\ LET c == planned[nextHunk] IN
         /\ \/ UNCHANGED files /\ torn' = {}
            \/ /\ c.kind # "delete" /\ files' = [files EXCEPT ![Target(c)] = <<>>]
               /\ torn' = {Target(c)}
            \/ /\ c.kind = "move" /\ files' = [files EXCEPT ![c.dest] = c.after]
               /\ torn' = {c.dest}
         /\ written' = written \cup torn'
    /\ stage' = "failed"
    /\ UNCHANGED <<hunks, nextHunk, virtual, planned, mutations, first, meddled>>

AllWritten ==
    /\ stage = "writing" /\ nextHunk > Len(planned)
    /\ stage' = "ok"
    /\ UNCHANGED <<files, hunks, nextHunk, virtual, planned, mutations, first, written, torn,
                   meddled>>

PatchNext ==
    \/ stage = "off" /\ \E text \in Patches : Run(text)
    \/ \E f \in PatchFiles, c \in Outside : Meddle(f, c)
    \/ Compute \/ Denied \/ AllComputed \/ WriteChange \/ WriteFails \/ AllWritten
PatchSpec == PatchInit /\ [][PatchNext]_patching

-----------------------------------------------------------------------------
(* Reference definitions: what a patch means, without the virtual map,     *)
(* the sort and the order in which replacements are made                   *)

(* Each line that no chunk replaces stays, with the new lines of the       *)
(* chunks that begin there before it.                                      *)
Rebuilt(q, reps) ==
    LET New(i) == FlattenSeq([c \in DOMAIN reps |->
                                IF reps[c].start = i THEN reps[c].new ELSE <<>>])
        Kept(i) == i < Len(q) /\ \A c \in DOMAIN reps :
                                    i \notin reps[c].start .. reps[c].start + reps[c].len - 1
    IN  FlattenSeq([i \in 1 .. Len(q) + 1 |->
                      New(i - 1) \o IF Kept(i - 1) THEN <<q[i]>> ELSE <<>>])
Apart(reps) ==
    \A c, d \in DOMAIN reps : c # d =>
        {reps[c].start + i : i \in 0 .. reps[c].len - 1}
          \cap {reps[d].start + i : i \in 0 .. reps[d].len - 1} = {}

(* A chunk that only adds lines goes to the end of the file, before its    *)
(* last line if that is blank, and one marked as the end of the file is    *)
(* looked for there alone, whether another chunk has taken it or not.      *)
AtEnd(c) == c.old = <<>> \/ c.eof
EndIsFree(chunks, reps) ==
    \A c, d \in DOMAIN reps : (c # d /\ AtEnd(chunks[d]) /\ reps[c].len > 0)
        => reps[c].start + reps[c].len <= reps[d].start

Fits(c, r, q) ==
    \A i \in 1 .. r.len : Form(4, q[r.start + i]) = Form(4, c.old[i])

Obey(d, h) ==                    \* one hunk on a disk; no way back
    LET text == DeriveNewContents(d[h.path], h.chunks).lines
    IN  CASE h.kind = "add" -> [d EXCEPT ![h.path] = h.lines]
          [] h.kind = "delete" -> [d EXCEPT ![h.path] = Missing]
          [] h.kind = "update" -> [d EXCEPT ![h.path] = text]
          [] h.kind = "move" -> [d EXCEPT ![h.path] = Missing, ![h.dest] = text]

Obeying(d, hs) ==                \* the disk after the first n hunks, for each n
    LET D[n \in 0 .. Len(hs)] == IF n = 0 THEN d ELSE Obey(D[n - 1], hs[n])
    IN  D

Retell(d, m) == [d EXCEPT ![m.path] = m.after]
Retelling(d, ms) ==              \* the same of mutations
    LET D[n \in 0 .. Len(ms)] == IF n = 0 THEN d ELSE Retell(D[n - 1], ms[n])
    IN  D
Retold(d, ms) == Retelling(d, ms)[Len(ms)]
Chained(ms) ==                   \* each mutation begins where the file was
    \A n \in DOMAIN ms : ms[n].before = Retelling(first, ms)[n - 1][ms[n].path]

-----------------------------------------------------------------------------
(* A patch that does not parse, names a missing file or does not match is  *)
(* refused before it touches anything, whatever part of it is at fault and *)
(* whoever edits meanwhile.                                                *)
RefusedTouchesNothing ==
    stage \in {"off", "computing", "refused"} => written = {} /\ mutations = <<>>

(* Sections of one patch build on each other: left alone, a patch that     *)
(* succeeds is its hunks one after the other.                              *)
SectionsBuildOn ==
    stage = "ok" /\ meddled = 0 => files = Obeying(first, hunks)[Len(hunks)]

(* The mutations the turn hears of, after a failure too, tell what became  *)
(* of every file but the one whose write failed half way.                  *)
ReportIsTrue ==
    meddled = 0 =>
        /\ \A f \in PatchFiles \ torn : files[f] = Retold(first, mutations)[f]
        /\ Chained(mutations)

(* An edit replaces lines that match, and keeps every other line in its    *)
(* order; its places are apart from each other, unless one is an end of    *)
(* the file that another has taken.                                        *)
EditIsExact ==
    stage = "computing" /\ nextHunk <= Len(hunks) =>
        \A h \in {hunks[nextHunk]} : \A q \in {Seen(h.path)} :
        \A all \in {ComputeReplacements(q, h.chunks)} :
            h.kind \in {"update", "move"} /\ q # Missing /\ all.ok =>
              /\ \A n \in DOMAIN all.reps : Fits(h.chunks[n], all.reps[n], q)
              /\ EndIsFree(h.chunks, all.reps) =>
                   /\ Apart(all.reps)
                   /\ Edited(q, all).lines = Shorter(Rebuilt(q, all.reps))

(* A patch does to the files what it says, all of it or nothing up to the  *)
(* first write, and the turn is told of exactly what was written.          *)
PatchIsExact == RefusedTouchesNothing /\ SectionsBuildOn /\ ReportIsTrue /\ EditIsExact
=============================================================================

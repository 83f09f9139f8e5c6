---------------------------- MODULE SerialSession ----------------------------
(***************************************************************************)
(* What a session promises its host, without threads, locks or flags:      *)
(* prompts are taken one at a time, directly or from a FIFO line; a prompt *)
(* that arrives while another one runs may be noted for the running turn;  *)
(* a close begins once, no prompt starts after it, and the teardown waits  *)
(* for the prompt that runs.  Module Session implements it.                *)
(*                                                                         *)
(* It does NOT promise that a waiting prompt ever runs, that a note is     *)
(* heard, or that nothing is accepted after the close: the code does not   *)
(* keep those promises (see the run that expects a violation).             *)
(***************************************************************************)
EXTENDS Sequences, SequencesExt

CONSTANT Prompts

VARIABLES unseen,   \* prompts that no call has been accepted for
          line,     \* prompts waiting for a turn of their own, in order
          running,  \* the prompt that runs: a set of at most one
          done,     \* prompts whose turn is over
          noted,    \* interjections waiting for a safe point
          heard,    \* interjections given to a running turn
          life      \* "open", "closing", "torn"

vars == <<unseen, line, running, done, noted, heard, life>>

Init ==
    /\ unseen = Prompts /\ line = <<>> /\ running = {} /\ done = {}
    /\ noted = {} /\ heard = {} /\ life = "open"

(* A free, open session runs a prompt at once. *)
RunNow(p) ==
    /\ life = "open" /\ running = {} /\ p \in unseen
    /\ running' = {p}
    /\ unseen' = unseen \ {p}
    /\ UNCHANGED <<line, done, noted, heard, life>>

(* A free, open session runs the first prompt of the line. *)
RunNext ==
    /\ life = "open" /\ running = {} /\ line # <<>>
    /\ running' = {Head(line)}
    /\ line' = Tail(line)
    /\ UNCHANGED <<unseen, done, noted, heard, life>>

(* The running prompt's turn ends. *)
Finish ==
    /\ running # {}
    /\ done' = done \cup running
    /\ running' = {}
    /\ UNCHANGED <<unseen, line, noted, heard, life>>

(* A prompt joins the line. *)
Join(p) ==
    /\ p \in unseen
    /\ line' = Append(line, p)
    /\ unseen' = unseen \ {p}
    /\ UNCHANGED <<running, done, noted, heard, life>>

(* The line is discarded. *)
Discard ==
    /\ line' = <<>>
    /\ UNCHANGED <<unseen, running, done, noted, heard, life>>

(* A prompt becomes an interjection. *)
Note(p) ==
    /\ p \in unseen
    /\ noted' = noted \cup {p}
    /\ unseen' = unseen \ {p}
    /\ UNCHANGED <<line, running, done, heard, life>>

(* The running turn hears everything noted so far. *)
Hear ==
    /\ running # {}
    /\ heard' = heard \cup noted
    /\ noted' = {}
    /\ UNCHANGED <<unseen, line, running, done, life>>

(* The close begins: nothing starts from here on. *)
BeginClose ==
    /\ life = "open"
    /\ life' = "closing"
    /\ UNCHANGED <<unseen, line, running, done, noted, heard>>

(* The resources go, and no prompt runs. *)
TearDown ==
    /\ life = "closing" /\ running = {}
    /\ life' = "torn"
    /\ UNCHANGED <<unseen, line, running, done, noted, heard>>

Next ==
    \/ \E p \in Prompts : RunNow(p) \/ Join(p) \/ Note(p)
    \/ RunNext \/ Finish \/ Discard \/ Hear \/ BeginClose \/ TearDown

Spec == Init /\ [][Next]_vars

(* A closing session finishes what runs and is torn down. *)
FairSpec ==
    /\ Spec
    /\ WF_vars(Finish /\ life = "closing")
    /\ WF_vars(TearDown)

=============================================================================

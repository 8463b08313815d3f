------------------------------- MODULE Autosave -------------------------------
(***************************************************************************)
(* Autosave of the workspace page (main.js), with the host that stores     *)
(* blocks and another window on the same project.                          *)
(*                                                                         *)
(* What is typed into a block waits in pendingText for a timer, is sent    *)
(* with the revision the page last saw, and is stored if the block still   *)
(* has that revision.  One save per block is under way at a time; what is  *)
(* typed meanwhile goes when it has ended.  In a conflict the text that    *)
(* was sent becomes conflictDraft and the workspace is loaded again.       *)
(* Commands on the whole project save everything first (flushAll).  The    *)
(* host runs commands on a pool of threads, so two answers may arrive in   *)
(* either order.                                                           *)
(*                                                                         *)
(* Abstractions.  Texts are numbers: each text typed is a new one, or the  *)
(* one the page last loaded (an undo).  Equal revisions stand for equal    *)
(* hashes.  A set of at most one element stands for a value that may be    *)
(* absent.  What the editor shows is left out: any text may be typed next. *)
(***************************************************************************)
EXTENDS Naturals, FiniteSets

CONSTANTS
    Blocks,
    Environments,  \* what happens besides the typing, see Environment
    MaxTyped,      \* bound: texts typed
    MaxEdits,      \* bound: saves of the other window
    MaxFails,      \* bound: calls that fail
    MaxCommands    \* bound: commands of the page

Calls == {"save", "answer", "list", "load"}
Commands == {"create_checkpoint", "rename_document", "select_document"}

\* shared: blocks the other window edits; written: blocks typed into here;
\* failing: host calls that may fail; commands: what else the user does.
Environment ==
    [shared : SUBSET Blocks, written : SUBSET Blocks,
     failing : SUBSET Calls, commands : SUBSET Commands]

ASSUME EnvironmentsAssumption == Environments \subseteq Environment
ASSUME BlocksAreFinite == IsFiniteSet(Blocks)
ASSUME TypedIsBounded == MaxTyped \in Nat

VARIABLES
    env,        \* the environment; does not change
    stored,     \* the host's text and revision of each block
    journal,    \* edit_journal: the texts each block has had
    workspace,  \* state.workspace: text and revision of each block
    typed,      \* the text the user last typed into each block and still wants
    pending,    \* state.pendingText
    timer,      \* state.saveTimers: is a timer set
    save,       \* state.savePromises: the save under way, by its stage
    draft,      \* state.conflictDraft
    command,    \* the command under way
    count       \* texts typed, edits of the other window, failures, commands

asVars == <<env, stored, journal, workspace, typed, pending, timer, save, draft, command, count>>

Resting == [at |-> "resting"]
NoCommand == [at |-> "none"]

Counts(kind) == count' = [count EXCEPT ![kind] = @ + 1]

MayFail(call) == call \in env.failing /\ count.fails < MaxFails

\* The save of pending text, made from the block as the page has it.
Sent(blocks, b, text) == [at |-> "sent", text |-> text, rev |-> blocks[b].rev]

-----------------------------------------------------------------------------
(* Typing *)

\* queueSave.
QueueSave(b, text) ==
    IF text = workspace[b].text /\ save[b] = Resting
    THEN pending' = [pending EXCEPT ![b] = {}] /\ UNCHANGED timer
    ELSE /\ pending' = [pending EXCEPT ![b] = {text}]
         /\ timer' = [timer EXCEPT ![b] = TRUE]

Type(b) ==
    /\ b \in env.written
    /\ count.typed < MaxTyped
    /\ \E text \in {count.typed + 1, workspace[b].text} :
          /\ typed' = [typed EXCEPT ![b] = {text}]
          /\ QueueSave(b, text)
    /\ Counts("typed")
    /\ UNCHANGED <<env, stored, journal, workspace, save, draft, command>>

\* flushBlock of blocks that have no save under way: those with pending text
\* send it.
Flush(blocks) ==
    LET sending == {b \in blocks : save[b] = Resting /\ pending[b] # {}} IN
    /\ save' = [b \in Blocks |->
          IF b \in sending THEN Sent(workspace, b, CHOOSE text \in pending[b] : TRUE) ELSE save[b]]
    /\ pending' = [b \in Blocks |-> IF b \in sending THEN {} ELSE pending[b]]
    /\ timer' = [b \in Blocks |-> timer[b] /\ b \notin blocks]

\* A mutant of FlushWhenDue: a save under way is not waited for.
FlushAtOnce(b) ==
    /\ timer' = [timer EXCEPT ![b] = FALSE]
    /\ pending' = [pending EXCEPT ![b] = {}]
    /\ save' = IF pending[b] = {} THEN save
               ELSE [save EXCEPT ![b] = Sent(workspace, b, CHOOSE text \in pending[b] : TRUE)]

\* flushBlock by timer.  While a save is under way the block is flushed at its
\* end, which happens anyway.
FlushWhenDue(b) == Flush({b})

TimerFires(b) ==
    /\ timer[b]
    /\ FlushWhenDue(b)
    /\ UNCHANGED <<env, stored, journal, workspace, typed, draft, command, count>>

-----------------------------------------------------------------------------
(* A save under way *)

\* A failure before the host has done anything, or after it has done everything.
HostSaves(b) ==
    LET stands == save[b].rev = stored[b].rev
        to(stage) == save' = [save EXCEPT ![b].at = stage]
        store == /\ stored' = [stored EXCEPT ![b] = [text |-> save[b].text, rev |-> @.rev + 1]]
                 /\ journal' = [journal EXCEPT ![b] = @ \cup {save[b].text}]
    IN  /\ save[b].at = "sent"
        /\ \/ ~stands /\ to("conflict") /\ UNCHANGED <<stored, journal, count>>
           \/ /\ stands /\ save[b].text = stored[b].text
              /\ to("no_changes") /\ UNCHANGED <<stored, journal, count>>
           \/ /\ stands /\ save[b].text # stored[b].text
              /\ store
              /\ \/ to("stored") /\ UNCHANGED count
                 \/ MayFail("answer") /\ to("failed") /\ Counts("fails")
           \/ /\ MayFail("save") /\ to("failed") /\ Counts("fails")
              /\ UNCHANGED <<stored, journal>>
        /\ UNCHANGED <<env, workspace, typed, pending, timer, draft, command>>

\* The mutant of EndSave leaves what was typed, or failed, to the timer.
EndSaveOnly(b, blocks, texts) ==
    /\ save' = [save EXCEPT ![b] = Resting]
    /\ pending' = texts
    /\ command' = IF command.at = "flushing" THEN [command EXCEPT !.waits = @ \ {b}] ELSE command
    /\ UNCHANGED timer

\* The end of a save: pending text goes at once, with the revision of the block
\* in blocks; otherwise the promise of the block resolves.
EndSave(b, blocks, texts) ==
    IF texts[b] # {}
    THEN /\ save' = [save EXCEPT ![b] = Sent(blocks, b, CHOOSE text \in texts[b] : TRUE)]
         /\ pending' = [texts EXCEPT ![b] = {}]
         /\ timer' = [timer EXCEPT ![b] = FALSE]
         /\ UNCHANGED command
    ELSE /\ save' = [save EXCEPT ![b] = Resting]
         /\ pending' = texts
         /\ command' = IF command.at = "flushing" THEN [command EXCEPT !.waits = @ \ {b}]
                       ELSE command
         /\ UNCHANGED timer

\* applySaveResponse; the page goes on to ask for the summaries to be made.
Saved(b) ==
    /\ save[b].at = "stored"
    /\ workspace' = [workspace EXCEPT ![b] = [text |-> save[b].text, rev |-> save[b].rev + 1]]
    /\ save' = [save EXCEPT ![b].at = "listing"]
    /\ UNCHANGED <<env, stored, journal, typed, pending, timer, draft, command, count>>

\* The summaries have come, or the host had nothing to save.
Done(b) ==
    /\ save[b].at \in {"listing", "no_changes"}
    /\ EndSave(b, workspace, pending)
    /\ UNCHANGED <<env, stored, journal, workspace, typed, draft, count>>

\* A failure puts the text back, and it goes again.
Failed(b) ==
    /\ \/ save[b].at = "failed" /\ UNCHANGED count
       \/ save[b].at = "listing" /\ MayFail("list") /\ Counts("fails")
    /\ EndSave(b, workspace, [pending EXCEPT ![b] = {save[b].text}])
    /\ UNCHANGED <<env, stored, journal, workspace, typed, draft>>

DropTheText(b) == {}   \* mutant
\* What is kept of a text the host refused.
LocalDraft(b) == {[block |-> b, text |-> save[b].text]}

Conflict(b) ==
    /\ save[b].at = "conflict"
    /\ draft' = LocalDraft(b)
    /\ save' = [save EXCEPT ![b].at = "loading"]
    /\ UNCHANGED <<env, stored, journal, workspace, typed, pending, timer, command, count>>

\* loadWorkspace: get_project_workspace in the host, and, once the other calls
\* have been answered too, in the page.
HostLoads(b) ==
    /\ save[b].at = "loading"
    /\ save' = [save EXCEPT ![b] = [at |-> "loaded", text |-> @.text, read |-> stored]]
    /\ UNCHANGED <<env, stored, journal, workspace, typed, pending, timer, draft, command, count>>

Loaded(b) ==
    /\ save[b].at = "loaded"
    /\ workspace' = save[b].read
    /\ EndSave(b, save[b].read, pending)
    /\ UNCHANGED <<env, stored, journal, typed, draft, count>>

\* rename_document loads the workspace after any failure, the others do not.
Aborted == IF command.kind = "rename_document" THEN [at |-> "reloading"] ELSE NoCommand

\* The promise of the save is rejected: nothing pending is sent after it, and a
\* command that waits for it fails.
LoadFails(b) ==
    /\ save[b].at = "loading"
    /\ MayFail("load")
    /\ Counts("fails")
    /\ save' = [save EXCEPT ![b] = Resting]
    /\ command' = IF command.at = "flushing" /\ b \in command.waits THEN Aborted ELSE command
    /\ UNCHANGED <<env, stored, journal, workspace, typed, pending, timer, draft>>

-----------------------------------------------------------------------------
(* The user and a conflict *)

\* What a command still owes the user once the draft was dealt with.
Released(b) == IF command.at = "flushing" THEN [command EXCEPT !.typed[b] = {}] ELSE command

\* retryConflictDraft.
RetryDraft ==
    \E d \in draft :
      /\ draft' = {}
      /\ typed' = [typed EXCEPT ![d.block] = {d.text}]
      /\ QueueSave(d.block, d.text)
      /\ command' = Released(d.block)
      /\ UNCHANGED <<env, stored, journal, workspace, save, count>>

DiscardDraft ==
    \E d \in draft :
      /\ draft' = {}
      /\ typed' = [typed EXCEPT ![d.block] = @ \ {d.text}]
      /\ command' = Released(d.block)
      /\ UNCHANGED <<env, stored, journal, workspace, pending, timer, save, count>>

\* Another document is selected.
SelectDocument ==
    /\ "select_document" \in env.commands
    /\ draft # {}
    /\ draft' = {}
    /\ UNCHANGED <<env, stored, journal, workspace, typed, pending, timer, save, command, count>>

-----------------------------------------------------------------------------
(* Commands on the whole project *)

PendingOnly == {b \in Blocks : pending[b] # {}}   \* mutant
\* The blocks flushAll waits for.
Unsaved == {b \in Blocks : pending[b] # {} \/ save[b] # Resting}

\* flushAll.
Begin(kind) ==
    /\ command = NoCommand
    /\ kind \in env.commands \ {"select_document"}
    /\ count.commands < MaxCommands
    /\ Counts("commands")
    /\ command' = [at |-> "flushing", kind |-> kind, waits |-> Unsaved, typed |-> typed]
    /\ Flush(Blocks)
    /\ UNCHANGED <<env, stored, journal, workspace, typed, draft>>

\* flushAll has resolved; with a draft it throws.
Call ==
    /\ command.at = "flushing"
    /\ command.waits = {}
    /\ command' = IF draft = {} THEN [command EXCEPT !.at = "called"] ELSE Aborted
    /\ UNCHANGED <<env, stored, journal, workspace, typed, pending, timer, save, draft, count>>

\* The host runs the command, or loads the workspace after a failed one.
HostRuns ==
    /\ command.at \in {"called", "reloading"}
    /\ command' = IF command.at = "called" /\ command.kind = "create_checkpoint" THEN NoCommand
                  ELSE [ at |-> IF command.at = "called" THEN "answered" ELSE "reloaded",
                         kind |-> "rename_document", read |-> stored ]
    /\ UNCHANGED <<env, stored, journal, workspace, typed, pending, timer, save, draft, count>>

\* The page takes the workspace of the answer.
Answered ==
    /\ command.at \in {"answered", "reloaded"}
    /\ workspace' = command.read
    /\ command' = IF command.at = "answered" THEN [at |-> "listing", kind |-> command.kind]
                  ELSE NoCommand
    /\ UNCHANGED <<env, stored, journal, typed, pending, timer, save, draft, count>>

\* The lists have come, and the command forgets the draft; or they have not.
EndCommand ==
    /\ command.at = "listing"
    /\ \/ /\ command' = NoCommand
          /\ draft' = {}
          /\ UNCHANGED count
       \/ /\ MayFail("list")
          /\ Counts("fails")
          /\ command' = Aborted
          /\ UNCHANGED draft
    /\ UNCHANGED <<env, stored, journal, workspace, typed, pending, timer, save>>

-----------------------------------------------------------------------------
(* The other window *)

OtherSaves(b) ==
    /\ b \in env.shared
    /\ count.edits < MaxEdits
    /\ Counts("edits")
    /\ LET theirs == MaxTyped + count.edits + 1 IN
          /\ stored' = [stored EXCEPT ![b] = [text |-> theirs, rev |-> @.rev + 1]]
          /\ journal' = [journal EXCEPT ![b] = @ \cup {theirs}]
    /\ UNCHANGED <<env, workspace, typed, pending, timer, save, draft, command>>

-----------------------------------------------------------------------------

AsInit ==
    /\ env \in Environments
    /\ stored = [b \in Blocks |-> [text |-> 0, rev |-> 0]]
    /\ journal = [b \in Blocks |-> {0}]
    /\ workspace = stored
    /\ typed = [b \in Blocks |-> {}]
    /\ pending = [b \in Blocks |-> {}]
    /\ timer = [b \in Blocks |-> FALSE]
    /\ save = [b \in Blocks |-> Resting]
    /\ draft = {}
    /\ command = NoCommand
    /\ count = [typed |-> 0, edits |-> 0, fails |-> 0, commands |-> 0]

\* What goes on without the user.
SaveGoesOn(b) ==
    \/ TimerFires(b) \/ HostSaves(b)
    \/ Saved(b) \/ Done(b) \/ Failed(b)
    \/ Conflict(b) \/ HostLoads(b) \/ Loaded(b) \/ LoadFails(b)

CommandGoesOn == Call \/ HostRuns \/ Answered \/ EndCommand

AsNext ==
    \/ \E b \in Blocks : Type(b) \/ SaveGoesOn(b) \/ OtherSaves(b)
    \/ RetryDraft \/ DiscardDraft \/ SelectDocument
    \/ \E kind \in Commands : Begin(kind)
    \/ CommandGoesOn

\* Timers fire, and the host answers every call, if only with a failure.
AsSpec ==
    /\ AsInit /\ [][AsNext]_asVars
    /\ \A b \in Blocks : WF_asVars(SaveGoesOn(b))
    /\ WF_asVars(CommandGoesOn)

-----------------------------------------------------------------------------
(* Properties *)

Versions == [Blocks -> [text : Nat, rev : Nat]]

Saves ==
    {Resting}
    \cup [ at : {"sent", "conflict", "stored", "failed", "no_changes", "listing", "loading"},
           text : Nat, rev : Nat ]
    \cup [at : {"loaded"}, text : Nat, read : Versions]

CommandStates ==
    {NoCommand, [at |-> "reloading"]}
    \cup [ at : {"flushing", "called"}, kind : Commands,
           waits : SUBSET Blocks, typed : [Blocks -> SUBSET Nat] ]
    \cup [at : {"answered", "reloaded"}, kind : Commands, read : Versions]
    \cup [at : {"listing"}, kind : Commands]

\* The shapes of the page's maps and of the calls under way.
AsTypeOK ==
    /\ env \in Environments
    /\ stored \in Versions /\ workspace \in Versions
    /\ journal \in [Blocks -> SUBSET Nat]
    /\ typed \in [Blocks -> SUBSET Nat] /\ pending \in [Blocks -> SUBSET Nat]
    /\ timer \in [Blocks -> BOOLEAN]
    /\ save \in [Blocks -> Saves]
    /\ draft \subseteq [block : Blocks, text : Nat]
    /\ command \in CommandStates
    /\ count \in [typed : Nat, edits : Nat, fails : Nat, commands : Nat]

\* Nothing but a conflict comes between a text and its journal row: no save fails,
\* and no command and no conflict of a second block throws a draft away.
Orderly ==
    /\ env.failing \subseteq {"load"}
    /\ env.commands \subseteq {"create_checkpoint"}
    /\ env.shared = {} \/ Cardinality(env.written) <= 1

Kept(b, text) ==
    \/ text \in journal[b] \cup pending[b]
    \/ save[b] # Resting /\ save[b].text = text
    \/ [block |-> b, text |-> text] \in draft

\* What the user typed last is in the journal or on its way there, or is offered
\* as a draft, however typing, saves, conflicts and loading interleave: "preserve
\* the local plain-text draft, load the authoritative workspace" (ADR 0013:20).
TypedTextIsKept == Orderly => \A b \in Blocks : \A text \in typed[b] : Kept(b, text)

\* A page that is alone on its project is never told that someone else changed
\* it: each save is made from the answer to the one before (ADR 0013:19).
NoConflictWithItself ==
    (env.shared = {} /\ "answer" \notin env.failing /\ "rename_document" \notin env.commands)
        => draft = {}

\* When a checkpoint is taken, what was typed before the user asked for it is in
\* the journal, unless it was typed over since, or was the draft of a conflict
\* that the user has dealt with since: flushAll leaves out no block.
CommandSeesWhatWasTyped ==
    (Orderly /\ command.at = "called") =>
        \A b \in Blocks : command.typed[b] \cap typed[b] \subseteq journal[b]

\* Once the user stops, every text is saved or refused: no pending text is left
\* without a timer or a save that will take it along.
EverythingSettles ==
    ("load" \notin env.failing)
        => <>[](\A b \in Blocks : save[b] = Resting /\ pending[b] = {})

=============================================================================

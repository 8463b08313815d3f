---------------------------- MODULE Autosave_proofs ----------------------------
(***************************************************************************)
(* What a page that saves by itself never loses, for any number of blocks, *)
(* texts, edits, failures and commands.                                    *)
(***************************************************************************)
EXTENDS Autosave, FiniteSetTheorems, TLAPS

\* A block has one pending text at most, and the page one draft.
OneAtATime ==
    /\ \A b \in Blocks : \A x, y \in pending[b] : x = y
    /\ \A x, y \in draft : x = y

\* What the page holds of the host was stored at some time.
JournalHasAll ==
    /\ \A b \in Blocks :
          /\ stored[b].text \in journal[b]
          /\ workspace[b].text \in journal[b]
          /\ save[b].at \in {"stored", "no_changes", "listing"} => save[b].text \in journal[b]
          /\ save[b].at = "loaded" => \A c \in Blocks : save[b].read[c].text \in journal[c]
    /\ command.at \in {"answered", "reloaded"} =>
          \A c \in Blocks : command.read[c].text \in journal[c]

\* Only blocks the user writes have a text of the page.
OnlyWritten ==
    /\ \A b \in Blocks \ env.written :
          typed[b] = {} /\ pending[b] = {} /\ save[b] = Resting
    /\ \A d \in draft : d.block \in env.written

\* The next text typed is none of those there are.
Made(text, typedSoFar) == text \notin (typedSoFar + 1)..MaxTyped

NewTextIsNew ==
    /\ \A b \in Blocks :
          /\ \A text \in journal[b] \cup typed[b] \cup pending[b] : Made(text, count.typed)
          /\ save[b] # Resting => Made(save[b].text, count.typed)
          /\ command.at \in {"flushing", "called"} =>
                \A text \in command.typed[b] : Made(text, count.typed)
    /\ \A d \in draft : Made(d.text, count.typed)

\* Without rename_document the only command is a checkpoint, which loads nothing.
OnlyCheckpoints ==
    "rename_document" \notin env.commands =>
        /\ command.at \in {"none", "flushing", "called"}
        /\ command.at # "none" => command.kind = "create_checkpoint"

\* A page alone on its project sends each text with the revision the host has.
Alone ==
    /\ env.shared = {}
    /\ "answer" \notin env.failing
    /\ "rename_document" \notin env.commands

RevisionsAgree ==
    Alone =>
        /\ draft = {}
        /\ \A b \in Blocks :
              /\ save[b].at \notin {"conflict", "loading", "loaded"}
              /\ save[b].at = "sent" => save[b].rev = stored[b].rev
              /\ IF save[b].at = "stored"
                 THEN stored[b].rev = save[b].rev + 1
                 ELSE stored[b].rev = workspace[b].rev

\* Newer places go before older ones: what was typed last is pending if anything
\* is, and else in the save under way; a text the host refused is the draft.
Drafted(b, text) == [block |-> b, text |-> text] \in draft

NewestIsKept ==
    Orderly =>
        \A b \in Blocks :
            /\ save[b].at # "failed"
            /\ pending[b] # {} => typed[b] \subseteq pending[b]
            /\ pending[b] = {} /\ save[b] # Resting => typed[b] \subseteq {save[b].text}
            /\ pending[b] = {} /\ save[b].at \in {"loading", "loaded"} =>
                  \A text \in typed[b] : Drafted(b, text)
            /\ pending[b] = {} /\ save[b] = Resting =>
                  \A text \in typed[b] : text \in journal[b] \/ Drafted(b, text)

\* A command has waited for a block, or need not: what was typed before the
\* command and is still wanted is in the journal, or is the draft, which will
\* make the command fail.
WaitedFor(b, text) ==
    \/ text \in journal[b]
    \/ Drafted(b, text) /\ pending[b] = {} /\ save[b] = Resting

FlushedIsKept ==
    Orderly =>
        \A b \in Blocks :
            /\ command.at = "flushing" /\ b \notin command.waits =>
                  \A text \in command.typed[b] \cap typed[b] : WaitedFor(b, text)
            /\ command.at = "called" => command.typed[b] \cap typed[b] \subseteq journal[b]

\* What is typed into a block the command does not wait for is a later text than
\* those the command is to see, or one of the journal.
LaterThanCommand(b, text) == text \notin command.typed[b] \ journal[b]

LaterTextsAreNew ==
    \A b \in Blocks :
        /\ \/ command.at = "flushing" /\ b \notin command.waits
           \/ command.at = "called"
           =>
              /\ \A text \in pending[b] : LaterThanCommand(b, text)
              /\ save[b] # Resting => LaterThanCommand(b, save[b].text)
        /\ command.at = "called" =>
              \A d \in draft : d.block = b => LaterThanCommand(b, d.text)

AutosaveInvariant ==
    /\ AsTypeOK /\ OneAtATime /\ JournalHasAll /\ OnlyWritten /\ NewTextIsNew
    /\ OnlyCheckpoints /\ RevisionsAgree /\ NewestIsKept /\ LaterTextsAreNew /\ FlushedIsKept

-----------------------------------------------------------------------------
(* Shapes *)

Stages == {"sent", "conflict", "stored", "failed", "no_changes", "listing", "loading"}

LEMMA SaveShapes ==
    /\ Resting \in Saves
    /\ \A at \in Stages, text, rev \in Nat :
          [at |-> at, text |-> text, rev |-> rev] \in Saves
    /\ \A text \in Nat, read \in Versions :
          [at |-> "loaded", text |-> text, read |-> read] \in Saves
    /\ \A s \in Saves :
          /\ s.at \in Stages \cup {"resting", "loaded"}
          /\ s.at = "resting" => s = Resting
          /\ s # Resting => s.text \in Nat
          /\ s.at = "loaded" => s.read \in Versions
          /\ s.at \in Stages => s.rev \in Nat
          /\ s.at \in Stages => s = [at |-> s.at, text |-> s.text, rev |-> s.rev]
BY DEF Saves, Stages, Resting

\* A save that goes on keeps its text and revision.
LEMMA SaveMoves ==
    ASSUME NEW s \in Saves, s.at \in Stages, NEW at \in Stages
    PROVE  [s EXCEPT !.at = at] = [at |-> at, text |-> s.text, rev |-> s.rev]
BY SaveShapes

LEMMA CommandShapes ==
    /\ NoCommand \in CommandStates
    /\ [at |-> "reloading"] \in CommandStates
    /\ \A at \in {"flushing", "called"}, kind \in Commands, waits \in SUBSET Blocks,
          texts \in [Blocks -> SUBSET Nat] :
          [at |-> at, kind |-> kind, waits |-> waits, typed |-> texts] \in CommandStates
    /\ \A at \in {"answered", "reloaded"}, kind \in Commands, read \in Versions :
          [at |-> at, kind |-> kind, read |-> read] \in CommandStates
    /\ \A kind \in Commands : [at |-> "listing", kind |-> kind] \in CommandStates
    /\ \A c \in CommandStates :
          /\ c.at \in {"none", "reloading", "flushing", "called", "answered", "reloaded", "listing"}
          /\ c.at = "none" => c = NoCommand
          /\ c.at \in {"flushing", "called", "answered", "listing"} => c.kind \in Commands
          /\ c.at \in {"answered", "reloaded"} => c.read \in Versions
          /\ c.at \in {"flushing", "called"} =>
                /\ c.waits \in SUBSET Blocks
                /\ c.typed \in [Blocks -> SUBSET Nat]
                /\ c = [at |-> c.at, kind |-> c.kind, waits |-> c.waits, typed |-> c.typed]
BY DEF CommandStates, NoCommand

\* What becomes of a command that waits: it stops waiting for a block, owes a
\* block nothing any more, or calls.
LEMMA CommandMoves ==
    ASSUME NEW c \in CommandStates, c.at = "flushing", NEW b
    PROVE  /\ [c EXCEPT !.waits = @ \ {b}] \in CommandStates
           /\ [c EXCEPT !.waits = @ \ {b}]
                = [at |-> "flushing", kind |-> c.kind, waits |-> c.waits \ {b}, typed |-> c.typed]
           /\ [c EXCEPT !.typed[b] = {}] \in CommandStates
           /\ [c EXCEPT !.typed[b] = {}]
                = [ at |-> "flushing", kind |-> c.kind, waits |-> c.waits,
                    typed |-> [c.typed EXCEPT ![b] = {}] ]
           /\ [c EXCEPT !.at = "called"] \in CommandStates
           /\ [c EXCEPT !.at = "called"]
                = [at |-> "called", kind |-> c.kind, waits |-> c.waits, typed |-> c.typed]
<1>1. /\ c.kind \in Commands /\ c.waits \in SUBSET Blocks
      /\ c.typed \in [Blocks -> SUBSET Nat]
      /\ c = [at |-> "flushing", kind |-> c.kind, waits |-> c.waits, typed |-> c.typed]
  BY CommandShapes
<1>2. [c EXCEPT !.waits = @ \ {b}]
        = [at |-> "flushing", kind |-> c.kind, waits |-> c.waits \ {b}, typed |-> c.typed]
  BY <1>1
<1>3. [c EXCEPT !.typed[b] = {}]
        = [ at |-> "flushing", kind |-> c.kind, waits |-> c.waits,
            typed |-> [c.typed EXCEPT ![b] = {}] ]
  BY <1>1
<1>4. [c EXCEPT !.at = "called"]
        = [at |-> "called", kind |-> c.kind, waits |-> c.waits, typed |-> c.typed]
  BY <1>1
<1>5. c.waits \ {b} \in SUBSET Blocks /\ [c.typed EXCEPT ![b] = {}] \in [Blocks -> SUBSET Nat]
  BY <1>1
<1> QED  BY <1>1, <1>2, <1>3, <1>4, <1>5, CommandShapes

\* What is sent is pending.
LEMMA SentShape ==
    ASSUME NEW b \in Blocks, NEW blocks \in Versions, NEW texts \in SUBSET Nat, texts # {}
    PROVE  /\ Sent(blocks, b, CHOOSE text \in texts : TRUE) \in Saves
           /\ Sent(blocks, b, CHOOSE text \in texts : TRUE).text \in texts
           /\ Sent(blocks, b, CHOOSE text \in texts : TRUE).at = "sent"
           /\ Sent(blocks, b, CHOOSE text \in texts : TRUE).rev = blocks[b].rev
<1>1. (CHOOSE text \in texts : TRUE) \in texts
  OBVIOUS
<1>2. blocks[b].rev \in Nat
  BY DEF Versions
<1> QED  BY <1>1, <1>2, SaveShapes DEF Sent, Stages

\* flushBlock of some blocks.
LEMMA FlushShape ==
    ASSUME AsTypeOK, NEW blocks \in SUBSET Blocks, Flush(blocks)
    PROVE  /\ save' \in [Blocks -> Saves]
           /\ pending' \in [Blocks -> SUBSET Nat]
           /\ timer' \in [Blocks -> BOOLEAN]
           /\ \A b \in Blocks :
                 IF b \in blocks /\ save[b] = Resting /\ pending[b] # {}
                 THEN /\ pending'[b] = {}
                      /\ save'[b] # Resting
                      /\ save'[b].at = "sent"
                      /\ save'[b].text \in pending[b]
                      /\ save'[b].rev = workspace[b].rev
                 ELSE save'[b] = save[b] /\ pending'[b] = pending[b]
<1> DEFINE sending == {b \in blocks : save[b] = Resting /\ pending[b] # {}}
           sent(b) == Sent(workspace, b, CHOOSE text \in pending[b] : TRUE)
<1>1. /\ save' = [b \in Blocks |-> IF b \in sending THEN sent(b) ELSE save[b]]
      /\ pending' = [b \in Blocks |-> IF b \in sending THEN {} ELSE pending[b]]
      /\ timer' = [b \in Blocks |-> timer[b] /\ b \notin blocks]
  BY DEF Flush
<1>2. \A b \in sending : /\ sent(b) \in Saves /\ sent(b).at = "sent"
                         /\ sent(b).text \in pending[b] /\ sent(b).rev = workspace[b].rev
  <2> SUFFICES ASSUME NEW b \in sending
               PROVE  /\ sent(b) \in Saves /\ sent(b).at = "sent"
                      /\ sent(b).text \in pending[b] /\ sent(b).rev = workspace[b].rev
    OBVIOUS
  <2>1. b \in Blocks /\ pending[b] # {}
    OBVIOUS
  <2>2. workspace \in Versions /\ pending[b] \in SUBSET Nat
    BY <2>1 DEF AsTypeOK
  <2> QED  BY <2>1, <2>2, SentShape
<1>3. \A b \in sending : sent(b) # Resting
  BY <1>2 DEF Resting
<1>4. /\ save \in [Blocks -> Saves] /\ pending \in [Blocks -> SUBSET Nat]
      /\ timer \in [Blocks -> BOOLEAN]
  BY DEF AsTypeOK
<1>5. timer' \in [Blocks -> BOOLEAN]
  BY <1>1, <1>4
<1>6. \A b \in Blocks : b \in sending <=> b \in blocks /\ save[b] = Resting /\ pending[b] # {}
  OBVIOUS
<1> HIDE DEF sending, sent
<1>7. save' \in [Blocks -> Saves] /\ pending' \in [Blocks -> SUBSET Nat]
  BY <1>1, <1>2, <1>4
<1> QED  BY <1>1, <1>2, <1>3, <1>5, <1>6, <1>7

\* The end of a save: either what was pending is sent, or the block rests and
\* no command waits for it any more.
LEMMA EndSaveShape ==
    ASSUME AsTypeOK, NEW b \in Blocks, NEW blocks \in Versions,
           NEW texts \in [Blocks -> SUBSET Nat], EndSave(b, blocks, texts)
    PROVE  /\ save' \in [Blocks -> Saves]
           /\ pending' \in [Blocks -> SUBSET Nat]
           /\ timer' \in [Blocks -> BOOLEAN]
           /\ command' \in CommandStates
           /\ \A c \in Blocks \ {b} : save'[c] = save[c] /\ pending'[c] = texts[c]
           /\ pending'[b] = {}
           /\ IF texts[b] # {}
              THEN /\ save'[b] # Resting
                   /\ save'[b].at = "sent"
                   /\ save'[b].text \in texts[b]
                   /\ save'[b].rev = blocks[b].rev
                   /\ command' = command
              ELSE /\ save'[b] = Resting
                   /\ command.at = "flushing" =>
                        command' = [ at |-> "flushing", kind |-> command.kind,
                                     waits |-> command.waits \ {b}, typed |-> command.typed ]
                   /\ command.at # "flushing" => command' = command
<1>1. /\ save \in [Blocks -> Saves] /\ timer \in [Blocks -> BOOLEAN]
      /\ command \in CommandStates
  BY DEF AsTypeOK
<1>2. CASE texts[b] # {}
  <2> DEFINE sent == Sent(blocks, b, CHOOSE text \in texts[b] : TRUE)
  <2>1. /\ save' = [save EXCEPT ![b] = sent]
        /\ pending' = [texts EXCEPT ![b] = {}]
        /\ timer' = [timer EXCEPT ![b] = FALSE]
        /\ command' = command
    BY <1>2 DEF EndSave
  <2>2. sent \in Saves /\ sent.at = "sent" /\ sent.text \in texts[b] /\ sent.rev = blocks[b].rev
    BY <1>2, SentShape
  <2>3. sent # Resting
    BY <2>2 DEF Resting
  <2> HIDE DEF sent
  <2> QED  BY <1>1, <1>2, <2>1, <2>2, <2>3
<1>3. CASE texts[b] = {}
  <2>1. /\ save' = [save EXCEPT ![b] = Resting]
        /\ pending' = texts
        /\ timer' = timer
        /\ command' = IF command.at = "flushing" THEN [command EXCEPT !.waits = @ \ {b}]
                      ELSE command
    BY <1>3 DEF EndSave
  <2>2. /\ command' \in CommandStates
        /\ command.at = "flushing" =>
             command' = [ at |-> "flushing", kind |-> command.kind,
                          waits |-> command.waits \ {b}, typed |-> command.typed ]
        /\ command.at # "flushing" => command' = command
    <3>1. CASE command.at = "flushing"
      BY <1>1, <2>1, <3>1, CommandMoves
    <3>2. CASE command.at # "flushing"
      BY <1>1, <2>1, <3>2
    <3> QED  BY <3>1, <3>2
  <2> QED  BY <1>1, <1>3, <2>1, <2>2, SaveShapes
<1> QED  BY <1>2, <1>3

\* A draft that is dealt with: a waiting command owes its block nothing more.
LEMMA ReleasedShape ==
    ASSUME NEW b \in Blocks, command \in CommandStates
    PROVE  /\ Released(b) \in CommandStates
           /\ command.at = "flushing" =>
                Released(b) = [ at |-> "flushing", kind |-> command.kind, waits |-> command.waits,
                                typed |-> [command.typed EXCEPT ![b] = {}] ]
           /\ command.at # "flushing" => Released(b) = command
BY CommandMoves DEF Released

-----------------------------------------------------------------------------
(* Every step keeps the shapes *)

LEMMA TypeStep ==
    ASSUME AsTypeOK, AsNext
    PROVE  AsTypeOK'
<1>1. /\ env \in Environments
      /\ stored \in Versions /\ workspace \in Versions
      /\ journal \in [Blocks -> SUBSET Nat]
      /\ typed \in [Blocks -> SUBSET Nat] /\ pending \in [Blocks -> SUBSET Nat]
      /\ timer \in [Blocks -> BOOLEAN]
      /\ save \in [Blocks -> Saves]
      /\ draft \subseteq [block : Blocks, text : Nat]
      /\ command \in CommandStates
      /\ count \in [typed : Nat, edits : Nat, fails : Nat, commands : Nat]
  BY DEF AsTypeOK
<1>2. \A b \in Blocks : /\ save[b] \in Saves
                        /\ stored[b] \in [text : Nat, rev : Nat]
                        /\ workspace[b] \in [text : Nat, rev : Nat]
  BY <1>1 DEF Versions
<1>3. \A n \in {"typed", "edits", "fails", "commands"} :
         Counts(n) => count' \in [typed : Nat, edits : Nat, fails : Nat, commands : Nat]
  BY <1>1 DEF Counts
<1>4. \A b \in Blocks, v \in [text : Nat, rev : Nat] :
         /\ [stored EXCEPT ![b] = v] \in Versions
         /\ [workspace EXCEPT ![b] = v] \in Versions
  BY <1>1 DEF Versions
<1>5. \A b \in Blocks, text \in Nat :
         /\ [typed EXCEPT ![b] = {text}] \in [Blocks -> SUBSET Nat]
         /\ [typed EXCEPT ![b] = @ \ {text}] \in [Blocks -> SUBSET Nat]
         /\ [journal EXCEPT ![b] = @ \cup {text}] \in [Blocks -> SUBSET Nat]
         /\ [pending EXCEPT ![b] = {text}] \in [Blocks -> SUBSET Nat]
         /\ QueueSave(b, text) =>
               pending' \in [Blocks -> SUBSET Nat] /\ timer' \in [Blocks -> BOOLEAN]
  <2> SUFFICES ASSUME NEW b \in Blocks, NEW text \in Nat
               PROVE  /\ [typed EXCEPT ![b] = {text}] \in [Blocks -> SUBSET Nat]
                      /\ [typed EXCEPT ![b] = @ \ {text}] \in [Blocks -> SUBSET Nat]
                      /\ [journal EXCEPT ![b] = @ \cup {text}] \in [Blocks -> SUBSET Nat]
                      /\ [pending EXCEPT ![b] = {text}] \in [Blocks -> SUBSET Nat]
                      /\ QueueSave(b, text) =>
                           pending' \in [Blocks -> SUBSET Nat] /\ timer' \in [Blocks -> BOOLEAN]
    OBVIOUS
  <2>1. /\ typed[b] \in SUBSET Nat /\ journal[b] \in SUBSET Nat
        /\ {} \in SUBSET Nat /\ {text} \in SUBSET Nat
    BY <1>1
  <2>2. typed[b] \ {text} \in SUBSET Nat /\ journal[b] \cup {text} \in SUBSET Nat
    BY <2>1
  <2>3. /\ [typed EXCEPT ![b] = {text}] \in [Blocks -> SUBSET Nat]
        /\ [typed EXCEPT ![b] = typed[b] \ {text}] \in [Blocks -> SUBSET Nat]
        /\ [journal EXCEPT ![b] = journal[b] \cup {text}] \in [Blocks -> SUBSET Nat]
        /\ [pending EXCEPT ![b] = {text}] \in [Blocks -> SUBSET Nat]
        /\ [pending EXCEPT ![b] = {}] \in [Blocks -> SUBSET Nat]
        /\ [timer EXCEPT ![b] = TRUE] \in [Blocks -> BOOLEAN]
    BY <1>1, <2>1, <2>2
  <2> QED  BY <1>1, <2>3 DEF QueueSave
<1>6. \A b \in Blocks, s \in Saves : [save EXCEPT ![b] = s] \in [Blocks -> Saves]
  BY <1>1
<1>7. \A b \in Blocks, at \in Stages :
         save[b].at \in Stages => [save EXCEPT ![b].at = at] \in [Blocks -> Saves]
  <2> SUFFICES ASSUME NEW b \in Blocks, NEW at \in Stages, save[b].at \in Stages
               PROVE  [save EXCEPT ![b].at = at] \in [Blocks -> Saves]
    OBVIOUS
  <2>1. [save[b] EXCEPT !.at = at] = [at |-> at, text |-> save[b].text, rev |-> save[b].rev]
    BY <1>2, SaveMoves
  <2>2. save[b].text \in Nat /\ save[b].rev \in Nat
    BY <1>2, SaveShapes DEF Stages, Resting
  <2>3. [save[b] EXCEPT !.at = at] \in Saves
    BY <2>1, <2>2, SaveShapes
  <2> QED  BY <1>1, <2>3
<1>8. Aborted \in CommandStates
  BY CommandShapes DEF Aborted
<1>10. ASSUME NEW b \in Blocks, Type(b)  PROVE AsTypeOK'
  <2>1. PICK text \in {count.typed + 1, workspace[b].text} :
           typed' = [typed EXCEPT ![b] = {text}] /\ QueueSave(b, text)
    BY <1>10 DEF Type
  <2>2. text \in Nat
    BY <1>1, <1>2
  <2> QED  BY <1>1, <1>3, <1>5, <1>10, <2>1, <2>2 DEF Type, AsTypeOK
<1>11. ASSUME NEW b \in Blocks, TimerFires(b)  PROVE AsTypeOK'
  <2>1. Flush({b})
    BY <1>11 DEF TimerFires, FlushWhenDue
  <2> QED  BY <1>1, <1>11, <2>1, FlushShape DEF TimerFires, AsTypeOK
<1>12. ASSUME NEW b \in Blocks, HostSaves(b)  PROVE AsTypeOK'
  <2>1. save[b].at \in Stages /\ save[b].text \in Nat
    BY <1>2, <1>12, SaveShapes DEF HostSaves, Stages, Resting
  <2>2. PICK at \in {"conflict", "no_changes", "stored", "failed"} :
           save' = [save EXCEPT ![b].at = at]
    BY <1>12 DEF HostSaves
  <2>3. save' \in [Blocks -> Saves]
    BY <1>7, <2>1, <2>2 DEF Stages
  <2> DEFINE version == [text |-> save[b].text, rev |-> stored[b].rev + 1]
  <2>4. version \in [text : Nat, rev : Nat]
    BY <1>2, <2>1
  <2>5. \/ stored' = stored /\ journal' = journal
        \/ /\ stored' = [stored EXCEPT ![b] = version]
           /\ journal' = [journal EXCEPT ![b] = @ \cup {save[b].text}]
    BY <1>12 DEF HostSaves
  <2>6. count' = count \/ Counts("fails")
    BY <1>12 DEF HostSaves
  <2> HIDE DEF version
  <2>7. /\ stored' \in Versions /\ journal' \in [Blocks -> SUBSET Nat]
        /\ count' \in [typed : Nat, edits : Nat, fails : Nat, commands : Nat]
    <3>1. stored' \in Versions
      <4>1. [stored EXCEPT ![b] = version] \in Versions
        BY <1>4, <2>4
      <4> QED  BY <1>1, <2>5, <4>1
    <3>2. journal' \in [Blocks -> SUBSET Nat]
      BY <1>1, <1>5, <2>1, <2>5
    <3> QED  BY <1>1, <1>3, <2>6, <3>1, <3>2
  <2> QED  BY <1>1, <1>12, <2>3, <2>7 DEF HostSaves, AsTypeOK
<1>13. ASSUME NEW b \in Blocks, Saved(b)  PROVE AsTypeOK'
  <2>1. save[b].at \in Stages /\ save[b].text \in Nat /\ save[b].rev \in Nat
    BY <1>2, <1>13, SaveShapes DEF Saved, Stages, Resting
  <2>2. [text |-> save[b].text, rev |-> save[b].rev + 1] \in [text : Nat, rev : Nat]
    BY <2>1
  <2> QED  BY <1>1, <1>4, <1>7, <1>13, <2>1, <2>2 DEF Saved, AsTypeOK, Stages
<1>14. ASSUME NEW b \in Blocks, Done(b)  PROVE AsTypeOK'
  <2>1. EndSave(b, workspace, pending)
    BY <1>14 DEF Done
  <2> QED  BY <1>1, <1>14, <2>1, EndSaveShape DEF Done, AsTypeOK
<1>15. ASSUME NEW b \in Blocks, Failed(b)  PROVE AsTypeOK'
  <2>1. save[b].text \in Nat
    BY <1>2, <1>15, SaveShapes DEF Failed, Resting
  <2>2. EndSave(b, workspace, [pending EXCEPT ![b] = {save[b].text}])
    BY <1>15 DEF Failed
  <2>3. count' = count \/ Counts("fails")
    BY <1>15 DEF Failed
  <2> QED  BY <1>1, <1>3, <1>5, <1>15, <2>1, <2>2, <2>3, EndSaveShape DEF Failed, AsTypeOK
<1>16. ASSUME NEW b \in Blocks, Conflict(b)  PROVE AsTypeOK'
  <2>1. save[b].at \in Stages /\ save[b].text \in Nat
    BY <1>2, <1>16, SaveShapes DEF Conflict, Stages, Resting
  <2>2. draft' \subseteq [block : Blocks, text : Nat]
    BY <1>16, <2>1 DEF Conflict, LocalDraft
  <2> QED  BY <1>1, <1>7, <1>16, <2>1, <2>2 DEF Conflict, AsTypeOK, Stages
<1>17. ASSUME NEW b \in Blocks, HostLoads(b)  PROVE AsTypeOK'
  <2>1. save[b].text \in Nat
    BY <1>2, <1>17, SaveShapes DEF HostLoads, Resting
  <2>2. [at |-> "loaded", text |-> save[b].text, read |-> stored] \in Saves
    BY <1>1, <2>1, SaveShapes
  <2>3. save' = [save EXCEPT ![b] = [at |-> "loaded", text |-> save[b].text, read |-> stored]]
    BY <1>1, <1>17 DEF HostLoads
  <2>4. save' \in [Blocks -> Saves]
    BY <1>6, <2>2, <2>3
  <2> QED  BY <1>1, <1>17, <2>4 DEF HostLoads, AsTypeOK
<1>18. ASSUME NEW b \in Blocks, Loaded(b)  PROVE AsTypeOK'
  <2>1. save[b].read \in Versions
    BY <1>2, <1>18, SaveShapes DEF Loaded
  <2>2. EndSave(b, save[b].read, pending)
    BY <1>18 DEF Loaded
  <2> QED  BY <1>1, <1>18, <2>1, <2>2, EndSaveShape DEF Loaded, AsTypeOK
<1>19. ASSUME NEW b \in Blocks, LoadFails(b)  PROVE AsTypeOK'
  <2>1. save' = [save EXCEPT ![b] = Resting] /\ Counts("fails")
    BY <1>19 DEF LoadFails
  <2>2. command' = Aborted \/ command' = command
    BY <1>19 DEF LoadFails
  <2> QED  BY <1>1, <1>3, <1>6, <1>8, <1>19, <2>1, <2>2, SaveShapes DEF LoadFails, AsTypeOK
<1>20. ASSUME NEW b \in Blocks, OtherSaves(b)  PROVE AsTypeOK'
  <2> DEFINE theirs == MaxTyped + count.edits + 1
  <2>1. theirs \in Nat
    BY <1>1, TypedIsBounded
  <2>2. [text |-> theirs, rev |-> stored[b].rev + 1] \in [text : Nat, rev : Nat]
    BY <1>2, <2>1
  <2>3. /\ stored' = [stored EXCEPT ![b] = [text |-> theirs, rev |-> stored[b].rev + 1]]
        /\ journal' = [journal EXCEPT ![b] = @ \cup {theirs}]
        /\ Counts("edits")
    BY <1>20 DEF OtherSaves
  <2> HIDE DEF theirs
  <2>4. stored' \in Versions
    BY <1>4, <2>2, <2>3
  <2>5. journal' \in [Blocks -> SUBSET Nat]
    BY <1>5, <2>1, <2>3
  <2> QED  BY <1>1, <1>3, <1>20, <2>3, <2>4, <2>5 DEF OtherSaves, AsTypeOK
<1>21. ASSUME RetryDraft  PROVE AsTypeOK'
  <2>1. PICK d \in draft : /\ draft' = {}
                           /\ typed' = [typed EXCEPT ![d.block] = {d.text}]
                           /\ QueueSave(d.block, d.text)
                           /\ command' = Released(d.block)
    BY <1>21 DEF RetryDraft
  <2>2. d.block \in Blocks /\ d.text \in Nat
    BY <1>1
  <2>3. command' \in CommandStates
    BY <1>1, <2>1, <2>2, ReleasedShape
  <2> QED  BY <1>1, <1>5, <1>21, <2>1, <2>2, <2>3 DEF RetryDraft, AsTypeOK
<1>22. ASSUME DiscardDraft  PROVE AsTypeOK'
  <2>1. PICK d \in draft : /\ draft' = {}
                           /\ typed' = [typed EXCEPT ![d.block] = @ \ {d.text}]
                           /\ command' = Released(d.block)
    BY <1>22 DEF DiscardDraft
  <2>2. d.block \in Blocks /\ d.text \in Nat
    BY <1>1
  <2>3. command' \in CommandStates
    BY <1>1, <2>1, <2>2, ReleasedShape
  <2> QED  BY <1>1, <1>5, <1>22, <2>1, <2>2, <2>3 DEF DiscardDraft, AsTypeOK
<1>23. ASSUME SelectDocument  PROVE AsTypeOK'
  BY <1>1, <1>23 DEF SelectDocument, AsTypeOK
<1>24. ASSUME NEW kind \in Commands, Begin(kind)  PROVE AsTypeOK'
  <2>1. command' \in CommandStates
    <3>1. Unsaved \in SUBSET Blocks
      BY DEF Unsaved
    <3> QED  BY <1>1, <1>24, <3>1, CommandShapes DEF Begin
  <2>2. Flush(Blocks) /\ Counts("commands")
    BY <1>24 DEF Begin
  <2> QED  BY <1>1, <1>3, <1>24, <2>1, <2>2, FlushShape DEF Begin, AsTypeOK
<1>25. ASSUME Call  PROVE AsTypeOK'
  <2>1. command' \in CommandStates
    BY <1>1, <1>8, <1>25, CommandMoves DEF Call
  <2> QED  BY <1>1, <1>25, <2>1 DEF Call, AsTypeOK
<1>26. ASSUME HostRuns  PROVE AsTypeOK'
  <2>1. command' \in CommandStates
    <3>1. \/ command' = NoCommand
          \/ command' = [at |-> "answered", kind |-> "rename_document", read |-> stored]
          \/ command' = [at |-> "reloaded", kind |-> "rename_document", read |-> stored]
      BY <1>26 DEF HostRuns
    <3> QED  BY <1>1, <3>1, CommandShapes DEF Commands
  <2> QED  BY <1>1, <1>26, <2>1 DEF HostRuns, AsTypeOK
<1>27. ASSUME Answered  PROVE AsTypeOK'
  <2>1. command' \in CommandStates /\ workspace' \in Versions
    BY <1>1, <1>27, CommandShapes DEF Answered
  <2> QED  BY <1>1, <1>27, <2>1 DEF Answered, AsTypeOK
<1>28. ASSUME EndCommand  PROVE AsTypeOK'
  <2>1. command' \in CommandStates
    BY <1>8, <1>28, CommandShapes DEF EndCommand
  <2>2. count' = count \/ Counts("fails")
    BY <1>28 DEF EndCommand
  <2>3. draft' \subseteq draft
    BY <1>28 DEF EndCommand
  <2> QED  BY <1>1, <1>3, <1>28, <2>1, <2>2, <2>3 DEF EndCommand, AsTypeOK
<1> QED
  BY <1>10, <1>11, <1>12, <1>13, <1>14, <1>15, <1>16, <1>17, <1>18, <1>19,
     <1>20, <1>21, <1>22, <1>23, <1>24, <1>25, <1>26, <1>27, <1>28
  DEF AsNext, SaveGoesOn, CommandGoesOn

-----------------------------------------------------------------------------
(* What each step changes, block by block *)

LEMMA RestingIs == \A s \in Saves : s = Resting <=> s.at = "resting"
<1>1. Resting.at = "resting"
  BY DEF Resting
<1> QED  BY <1>1, SaveShapes

LEMMA QueueSaveChanges ==
    ASSUME AsTypeOK, NEW b \in Blocks, NEW text \in Nat, QueueSave(b, text)
    PROVE  /\ \A c \in Blocks \ {b} : pending'[c] = pending[c]
           /\ \/ pending'[b] = {text}
              \/ pending'[b] = {} /\ text = workspace[b].text /\ save[b] = Resting
BY DEF AsTypeOK, QueueSave

LEMMA TypeChanges ==
    ASSUME AsTypeOK, NEW b \in Blocks, Type(b)
    PROVE  /\ UNCHANGED <<env, stored, journal, workspace, save, draft, command>>
           /\ count'.typed = count.typed + 1
           /\ b \in env.written
           /\ \A c \in Blocks \ {b} : typed'[c] = typed[c] /\ pending'[c] = pending[c]
           /\ \E text \in Nat :
                 /\ text \in {count.typed + 1, workspace[b].text}
                 /\ typed'[b] = {text}
                 /\ \/ pending'[b] = {text}
                    \/ pending'[b] = {} /\ text = workspace[b].text /\ save[b] = Resting
<1>1. PICK text \in {count.typed + 1, workspace[b].text} :
         typed' = [typed EXCEPT ![b] = {text}] /\ QueueSave(b, text)
  BY DEF Type
<1>2. /\ text \in Nat
      /\ typed \in [Blocks -> SUBSET Nat]
      /\ count \in [typed : Nat, edits : Nat, fails : Nat, commands : Nat]
  BY DEF AsTypeOK, Versions
<1>3. count'.typed = count.typed + 1
  BY <1>2 DEF Type, Counts
<1> QED  BY <1>1, <1>2, <1>3, QueueSaveChanges DEF Type

LEMMA OtherCounts ==
    ASSUME AsTypeOK, NEW kind \in {"edits", "fails", "commands"}, Counts(kind)
    PROVE  count'.typed = count.typed
BY DEF AsTypeOK, Counts

LEMMA TimerFiresChanges ==
    ASSUME AsTypeOK, NEW b \in Blocks, TimerFires(b)
    PROVE  /\ UNCHANGED <<env, stored, journal, workspace, typed, draft, command, count>>
           /\ \A c \in Blocks :
                 \/ /\ save[c] = Resting /\ pending[c] # {} /\ pending'[c] = {}
                    /\ save'[c].at = "sent" /\ save'[c].text \in pending[c]
                    /\ save'[c].rev = workspace[c].rev
                 \/ save'[c] = save[c] /\ pending'[c] = pending[c]
BY FlushShape DEF TimerFires, FlushWhenDue

LEMMA HostSavesChanges ==
    ASSUME AsTypeOK, NEW b \in Blocks, HostSaves(b)
    PROVE  /\ UNCHANGED <<env, workspace, typed, pending, draft, command>>
           /\ count'.typed = count.typed
           /\ save[b].at = "sent" /\ save[b].text \in Nat
           /\ save'[b].text = save[b].text /\ save'[b].rev = save[b].rev
           /\ \A c \in Blocks \ {b} :
                 save'[c] = save[c] /\ stored'[c] = stored[c] /\ journal'[c] = journal[c]
           /\ \/ /\ save'[b].at \in {"conflict", "no_changes", "failed"}
                 /\ stored'[b] = stored[b] /\ journal'[b] = journal[b]
                 /\ save'[b].at = "conflict" => save[b].rev # stored[b].rev
                 /\ save'[b].at = "no_changes" => save[b].text = stored[b].text
                 /\ save'[b].at = "failed" => "save" \in env.failing
              \/ /\ save'[b].at \in {"stored", "failed"}
                 /\ save[b].rev = stored[b].rev
                 /\ stored'[b].text = save[b].text /\ stored'[b].rev = stored[b].rev + 1
                 /\ journal'[b] = journal[b] \cup {save[b].text}
                 /\ save'[b].at = "failed" => "answer" \in env.failing
<1>1. /\ save \in [Blocks -> Saves] /\ journal \in [Blocks -> SUBSET Nat]
      /\ stored \in [Blocks -> [text : Nat, rev : Nat]]
  BY DEF AsTypeOK, Versions
<1>2. save[b].at = "sent" /\ save[b].at \in Stages /\ save[b].text \in Nat
  BY <1>1, SaveShapes DEF HostSaves, Stages, Resting
<1>3. \A at \in {"conflict", "no_changes", "stored", "failed"} :
         save' = [save EXCEPT ![b].at = at] =>
           /\ save'[b].at = at /\ save'[b].text = save[b].text /\ save'[b].rev = save[b].rev
           /\ \A c \in Blocks \ {b} : save'[c] = save[c]
  <2> SUFFICES ASSUME NEW at \in {"conflict", "no_changes", "stored", "failed"},
                      save' = [save EXCEPT ![b].at = at]
               PROVE  /\ save'[b].at = at
                      /\ save'[b].text = save[b].text /\ save'[b].rev = save[b].rev
                      /\ \A c \in Blocks \ {b} : save'[c] = save[c]
    OBVIOUS
  <2>1. [save[b] EXCEPT !.at = at] = [at |-> at, text |-> save[b].text, rev |-> save[b].rev]
    BY <1>1, <1>2, SaveMoves DEF Stages
  <2> QED  BY <1>1, <2>1
<1>4. CASE stored' = stored /\ journal' = journal
  <2>1. \/ save' = [save EXCEPT ![b].at = "conflict"] /\ save[b].rev # stored[b].rev
        \/ save' = [save EXCEPT ![b].at = "no_changes"] /\ save[b].text = stored[b].text
        \/ save' = [save EXCEPT ![b].at = "failed"] /\ "save" \in env.failing
        \/ /\ stored' = [stored EXCEPT ![b] = [text |-> save[b].text, rev |-> @.rev + 1]]
    BY DEF HostSaves, MayFail
  <2>2. stored' # [stored EXCEPT ![b] = [text |-> save[b].text, rev |-> @.rev + 1]]
    <3>1. stored[b].rev \in Nat
      BY <1>1
    <3> QED  BY <1>1, <1>4, <3>1
  <2>3. count'.typed = count.typed
    BY OtherCounts DEF HostSaves
  <2> QED  BY <1>2, <1>3, <1>4, <2>1, <2>2, <2>3 DEF HostSaves
<1>5. CASE ~(stored' = stored /\ journal' = journal)
  <2>1. /\ save[b].rev = stored[b].rev
        /\ stored' = [stored EXCEPT ![b] = [text |-> save[b].text, rev |-> @.rev + 1]]
        /\ journal' = [journal EXCEPT ![b] = @ \cup {save[b].text}]
        /\ \/ save' = [save EXCEPT ![b].at = "stored"]
           \/ save' = [save EXCEPT ![b].at = "failed"] /\ "answer" \in env.failing
    BY <1>5 DEF HostSaves, MayFail
  <2>2. /\ stored'[b].text = save[b].text /\ stored'[b].rev = stored[b].rev + 1
        /\ journal'[b] = journal[b] \cup {save[b].text}
        /\ \A c \in Blocks \ {b} : stored'[c] = stored[c] /\ journal'[c] = journal[c]
    BY <1>1, <2>1
  <2>3. count'.typed = count.typed
    BY OtherCounts DEF HostSaves
  <2> QED  BY <1>2, <1>3, <2>1, <2>2, <2>3 DEF HostSaves
<1> QED  BY <1>4, <1>5

LEMMA SavedChanges ==
    ASSUME AsTypeOK, NEW b \in Blocks, Saved(b)
    PROVE  /\ UNCHANGED <<env, stored, journal, typed, pending, draft, command, count>>
           /\ save[b].at = "stored" /\ save'[b].at = "listing"
           /\ save'[b].text = save[b].text /\ save'[b].rev = save[b].rev
           /\ workspace'[b].text = save[b].text /\ workspace'[b].rev = save[b].rev + 1
           /\ \A c \in Blocks \ {b} : save'[c] = save[c] /\ workspace'[c] = workspace[c]
<1>1. save \in [Blocks -> Saves] /\ workspace \in [Blocks -> [text : Nat, rev : Nat]]
  BY DEF AsTypeOK, Versions
<1>2. [save[b] EXCEPT !.at = "listing"]
        = [at |-> "listing", text |-> save[b].text, rev |-> save[b].rev]
  BY <1>1, SaveMoves DEF Saved, Stages
<1>3. save' = [save EXCEPT ![b] = [save[b] EXCEPT !.at = "listing"]]
  BY DEF Saved
<1> QED  BY <1>1, <1>2, <1>3 DEF Saved

LEMMA ConflictChanges ==
    ASSUME AsTypeOK, NEW b \in Blocks, Conflict(b)
    PROVE  /\ UNCHANGED <<env, stored, journal, workspace, typed, pending, command, count>>
           /\ save[b].at = "conflict" /\ save'[b].at = "loading"
           /\ save'[b].text = save[b].text /\ save'[b].rev = save[b].rev
           /\ draft' = {[block |-> b, text |-> save[b].text]}
           /\ \A c \in Blocks \ {b} : save'[c] = save[c]
<1>1. save \in [Blocks -> Saves]
  BY DEF AsTypeOK
<1>2. [save[b] EXCEPT !.at = "loading"]
        = [at |-> "loading", text |-> save[b].text, rev |-> save[b].rev]
  BY <1>1, SaveMoves DEF Conflict, Stages
<1>3. save' = [save EXCEPT ![b] = [save[b] EXCEPT !.at = "loading"]]
  BY DEF Conflict
<1> QED  BY <1>1, <1>2, <1>3 DEF Conflict, LocalDraft

LEMMA HostLoadsChanges ==
    ASSUME AsTypeOK, NEW b \in Blocks, HostLoads(b)
    PROVE  /\ UNCHANGED <<env, stored, journal, workspace, typed, pending, draft, command, count>>
           /\ save[b].at = "loading" /\ save'[b].at = "loaded"
           /\ save'[b].text = save[b].text /\ save'[b].read = stored
           /\ \A c \in Blocks \ {b} : save'[c] = save[c]
BY DEF HostLoads, AsTypeOK

\* The end of a save, and what that means for a command.
Ended(b, blocks, texts) ==
    /\ \A c \in Blocks \ {b} : save'[c] = save[c] /\ pending'[c] = texts[c]
    /\ pending'[b] = {}
    /\ \/ /\ save'[b].at = "sent" /\ save'[b].text \in texts[b] /\ save'[b].rev = blocks[b].rev
          /\ command' = command
       \/ /\ texts[b] = {} /\ save'[b] = Resting
          /\ \/ /\ command.at = "flushing" /\ command'.at = "flushing"
                /\ command'.kind = command.kind
                /\ command'.waits = command.waits \ {b} /\ command'.typed = command.typed
             \/ command.at # "flushing" /\ command' = command

LEMMA EndSaveChanges ==
    ASSUME AsTypeOK, NEW b \in Blocks, NEW blocks \in Versions,
           NEW texts \in [Blocks -> SUBSET Nat], EndSave(b, blocks, texts)
    PROVE  Ended(b, blocks, texts)
<1>1. CASE texts[b] # {}
  BY <1>1, EndSaveShape DEF Ended
<1>2. CASE texts[b] = {}
  BY <1>2, EndSaveShape DEF Ended
<1> QED  BY <1>1, <1>2

LEMMA DoneChanges ==
    ASSUME AsTypeOK, NEW b \in Blocks, Done(b)
    PROVE  /\ UNCHANGED <<env, stored, journal, workspace, typed, draft, count>>
           /\ save[b].at \in {"listing", "no_changes"}
           /\ Ended(b, workspace, pending)
BY EndSaveChanges DEF Done, AsTypeOK

LEMMA FailedChanges ==
    ASSUME AsTypeOK, NEW b \in Blocks, Failed(b)
    PROVE  /\ UNCHANGED <<env, stored, journal, workspace, typed, draft>>
           /\ count'.typed = count.typed
           /\ save[b].at = "failed" \/ (save[b].at = "listing" /\ "list" \in env.failing)
           /\ \A c \in Blocks \ {b} : save'[c] = save[c] /\ pending'[c] = pending[c]
           /\ pending'[b] = {}
           /\ save'[b].at = "sent" /\ save'[b].text = save[b].text
           /\ save'[b].rev = workspace[b].rev
           /\ command' = command
<1> DEFINE texts == [pending EXCEPT ![b] = {save[b].text}]
<1>1. save[b] \in Saves /\ save[b] # Resting
  BY DEF Failed, AsTypeOK, Resting
<1>2. save[b].text \in Nat /\ pending \in [Blocks -> SUBSET Nat] /\ workspace \in Versions
  BY <1>1, SaveShapes DEF AsTypeOK
<1>3. /\ texts \in [Blocks -> SUBSET Nat] /\ texts[b] = {save[b].text}
      /\ \A c \in Blocks \ {b} : texts[c] = pending[c]
  BY <1>2
<1>4. EndSave(b, workspace, texts)
  BY DEF Failed
<1> HIDE DEF texts
<1>5. Ended(b, workspace, texts)
  BY <1>2, <1>3, <1>4, EndSaveChanges
<1>6. count'.typed = count.typed
  BY OtherCounts DEF Failed
<1>7. UNCHANGED <<env, stored, journal, workspace, typed, draft>>
  BY DEF Failed
<1>8. save[b].at = "failed" \/ (save[b].at = "listing" /\ "list" \in env.failing)
  <2>1. \/ save[b].at = "failed" /\ UNCHANGED count
        \/ save[b].at = "listing" /\ MayFail("list") /\ Counts("fails")
    BY DEF Failed
  <2> QED  BY <2>1 DEF MayFail
<1> QED  BY <1>3, <1>5, <1>6, <1>7, <1>8 DEF Ended

LEMMA LoadedChanges ==
    ASSUME AsTypeOK, NEW b \in Blocks, Loaded(b)
    PROVE  /\ UNCHANGED <<env, stored, journal, typed, draft, count>>
           /\ save[b].at = "loaded"
           /\ workspace' = save[b].read
           /\ Ended(b, save[b].read, pending)
<1>1. save[b].read \in Versions
  BY SaveShapes DEF AsTypeOK, Loaded
<1> QED  BY <1>1, EndSaveChanges DEF Loaded, AsTypeOK

LEMMA AbortedIs == Aborted.at \in {"none", "reloading"}
BY DEF Aborted, NoCommand

LEMMA LoadFailsChanges ==
    ASSUME AsTypeOK, NEW b \in Blocks, LoadFails(b)
    PROVE  /\ UNCHANGED <<env, stored, journal, workspace, typed, pending, draft>>
           /\ count'.typed = count.typed
           /\ save[b].at = "loading" /\ save'[b] = Resting
           /\ \A c \in Blocks \ {b} : save'[c] = save[c]
           /\ \/ command'.at = "none"
              \/ command'.at = "reloading" /\ command.at = "flushing"
                   /\ command.kind = "rename_document"
              \/ command' = command /\ (command.at = "flushing" => b \notin command.waits)
<1>1. count'.typed = count.typed
  BY OtherCounts DEF LoadFails
<1>2. save'[b] = Resting /\ \A c \in Blocks \ {b} : save'[c] = save[c]
  BY DEF LoadFails, AsTypeOK
<1> QED  BY <1>1, <1>2 DEF LoadFails, Aborted, NoCommand

LEMMA OtherSavesChanges ==
    ASSUME AsTypeOK, NEW b \in Blocks, OtherSaves(b)
    PROVE  /\ UNCHANGED <<env, workspace, typed, pending, save, draft, command>>
           /\ count'.typed = count.typed
           /\ b \in env.shared
           /\ \A c \in Blocks \ {b} : stored'[c] = stored[c] /\ journal'[c] = journal[c]
           /\ \E theirs \in Nat : /\ theirs > MaxTyped
                                  /\ journal'[b] = journal[b] \cup {theirs}
                                  /\ stored'[b].text = theirs
<1> DEFINE theirs == MaxTyped + count.edits + 1
<1>1. /\ stored \in [Blocks -> [text : Nat, rev : Nat]]
      /\ journal \in [Blocks -> SUBSET Nat]
      /\ theirs \in Nat /\ theirs > MaxTyped
  BY TypedIsBounded DEF AsTypeOK, Versions
<1>2. /\ stored' = [stored EXCEPT ![b] = [text |-> theirs, rev |-> @.rev + 1]]
      /\ journal' = [journal EXCEPT ![b] = @ \cup {theirs}]
  BY DEF OtherSaves
<1>3. count'.typed = count.typed
  BY OtherCounts DEF OtherSaves
<1> HIDE DEF theirs
<1> QED  BY <1>1, <1>2, <1>3 DEF OtherSaves

\* A draft dealt with, and the command.
ReleasedOf(b) ==
    \/ /\ command.at = "flushing" /\ command'.at = "flushing"
       /\ command'.kind = command.kind /\ command'.waits = command.waits
       /\ command'.typed[b] = {}
       /\ \A c \in Blocks \ {b} : command'.typed[c] = command.typed[c]
    \/ command.at # "flushing" /\ command' = command

LEMMA ReleasedChanges ==
    ASSUME AsTypeOK, NEW b \in Blocks, command' = Released(b)
    PROVE  ReleasedOf(b)
<1>1. CASE command.at = "flushing"
  <2>1. command.typed \in [Blocks -> SUBSET Nat]
    BY <1>1, CommandShapes DEF AsTypeOK
  <2> QED  BY <1>1, <2>1, ReleasedShape DEF AsTypeOK, ReleasedOf
<1>2. CASE command.at # "flushing"
  BY <1>2, ReleasedShape DEF AsTypeOK, ReleasedOf
<1> QED  BY <1>1, <1>2

LEMMA RetryDraftChanges ==
    ASSUME AsTypeOK, RetryDraft
    PROVE  /\ UNCHANGED <<env, stored, journal, workspace, save, count>>
           /\ draft' = {}
           /\ \E d \in draft :
                 /\ d.block \in Blocks
                 /\ d.text \in Nat
                 /\ d = [block |-> d.block, text |-> d.text]
                 /\ typed'[d.block] = {d.text}
                 /\ \A c \in Blocks \ {d.block} : typed'[c] = typed[c] /\ pending'[c] = pending[c]
                 /\ \/ pending'[d.block] = {d.text}
                    \/ /\ pending'[d.block] = {} /\ d.text = workspace[d.block].text
                       /\ save[d.block] = Resting
                 /\ ReleasedOf(d.block)
<1>1. PICK d \in draft : /\ draft' = {}
                         /\ typed' = [typed EXCEPT ![d.block] = {d.text}]
                         /\ QueueSave(d.block, d.text)
                         /\ command' = Released(d.block)
  BY DEF RetryDraft
<1>2. /\ d.block \in Blocks /\ d.text \in Nat /\ d = [block |-> d.block, text |-> d.text]
      /\ typed \in [Blocks -> SUBSET Nat]
  BY DEF AsTypeOK
<1>3. ReleasedOf(d.block)
  BY <1>1, <1>2, ReleasedChanges
<1>4. /\ typed'[d.block] = {d.text}
      /\ \A c \in Blocks \ {d.block} : typed'[c] = typed[c]
  BY <1>1, <1>2
<1> QED  BY <1>1, <1>2, <1>3, <1>4, QueueSaveChanges DEF RetryDraft

LEMMA DiscardDraftChanges ==
    ASSUME AsTypeOK, DiscardDraft
    PROVE  /\ UNCHANGED <<env, stored, journal, workspace, pending, save, count>>
           /\ draft' = {}
           /\ \E d \in draft :
                 /\ d.block \in Blocks
                 /\ d = [block |-> d.block, text |-> d.text]
                 /\ typed'[d.block] = typed[d.block] \ {d.text}
                 /\ \A c \in Blocks \ {d.block} : typed'[c] = typed[c]
                 /\ ReleasedOf(d.block)
<1>1. PICK d \in draft : /\ draft' = {}
                         /\ typed' = [typed EXCEPT ![d.block] = @ \ {d.text}]
                         /\ command' = Released(d.block)
  BY DEF DiscardDraft
<1>2. /\ d.block \in Blocks /\ d = [block |-> d.block, text |-> d.text]
      /\ typed \in [Blocks -> SUBSET Nat]
  BY DEF AsTypeOK
<1>3. ReleasedOf(d.block)
  BY <1>1, <1>2, ReleasedChanges
<1> QED  BY <1>1, <1>2, <1>3 DEF DiscardDraft

LEMMA BeginChanges ==
    ASSUME AsTypeOK, NEW kind \in Commands, Begin(kind)
    PROVE  /\ UNCHANGED <<env, stored, journal, workspace, typed, draft>>
           /\ count'.typed = count.typed
           /\ command'.at = "flushing" /\ command'.kind = kind /\ kind \in env.commands
           /\ kind # "select_document"
           /\ command'.waits = Unsaved /\ command'.typed = typed
           /\ \A c \in Blocks :
                 \/ /\ save[c] = Resting /\ pending[c] # {} /\ pending'[c] = {}
                    /\ save'[c].at = "sent" /\ save'[c].text \in pending[c]
                    /\ save'[c].rev = workspace[c].rev
                 \/ save'[c] = save[c] /\ pending'[c] = pending[c]
<1>1. count'.typed = count.typed
  BY OtherCounts DEF Begin
<1> QED  BY <1>1, FlushShape DEF Begin

LEMMA CallChanges ==
    ASSUME AsTypeOK, Call
    PROVE  /\ UNCHANGED <<env, stored, journal, workspace, typed, pending, save, draft, count>>
           /\ command.at = "flushing" /\ command.waits = {}
           /\ \/ /\ draft = {} /\ command'.at = "called" /\ command'.kind = command.kind
                 /\ command'.typed = command.typed
              \/ command'.at = "none"
              \/ command'.at = "reloading" /\ command.kind = "rename_document"
<1>1. CASE draft = {}
  BY <1>1, CommandMoves DEF Call, AsTypeOK
<1>2. CASE draft # {}
  BY <1>2 DEF Call, Aborted, NoCommand
<1> QED  BY <1>1, <1>2

LEMMA HostRunsChanges ==
    ASSUME AsTypeOK, HostRuns
    PROVE  /\ UNCHANGED <<env, stored, journal, workspace, typed, pending, save, draft, count>>
           /\ command.at \in {"called", "reloading"}
           /\ \/ command'.at = "none"
              \/ /\ command'.at \in {"answered", "reloaded"}
                 /\ command.at = "called" => command.kind # "create_checkpoint"
                 /\ command'.read = stored
BY DEF HostRuns, NoCommand

LEMMA AnsweredChanges ==
    ASSUME AsTypeOK, Answered
    PROVE  /\ UNCHANGED <<env, stored, journal, typed, pending, save, draft, count>>
           /\ command.at \in {"answered", "reloaded"}
           /\ workspace' = command.read
           /\ command'.at \in {"listing", "none"}
BY DEF Answered, NoCommand

LEMMA EndCommandChanges ==
    ASSUME AsTypeOK, EndCommand
    PROVE  /\ UNCHANGED <<env, stored, journal, workspace, typed, pending, save>>
           /\ count'.typed = count.typed
           /\ draft' \subseteq draft
           /\ command.at = "listing"
           /\ command'.at \in {"none", "reloading"}
<1>1. count'.typed = count.typed
  BY OtherCounts DEF EndCommand
<1> QED  BY <1>1 DEF EndCommand, Aborted, NoCommand


LEMMA OneStep ==
    ASSUME AsTypeOK, AsTypeOK', OneAtATime, AsNext
    PROVE  OneAtATime'
<1>10. ASSUME NEW b \in Blocks, Type(b)  PROVE OneAtATime'
  BY <1>10, TypeChanges DEF OneAtATime
<1>11. ASSUME NEW b \in Blocks, TimerFires(b)  PROVE OneAtATime'
  BY <1>11, TimerFiresChanges DEF OneAtATime
<1>12. ASSUME NEW b \in Blocks, HostSaves(b)  PROVE OneAtATime'
  BY <1>12, HostSavesChanges DEF OneAtATime
<1>13. ASSUME NEW b \in Blocks, Saved(b)  PROVE OneAtATime'
  BY <1>13, SavedChanges DEF OneAtATime
<1>14. ASSUME NEW b \in Blocks, Done(b)  PROVE OneAtATime'
  BY <1>14, DoneChanges DEF OneAtATime, Ended
<1>15. ASSUME NEW b \in Blocks, Failed(b)  PROVE OneAtATime'
  BY <1>15, FailedChanges DEF OneAtATime
<1>16. ASSUME NEW b \in Blocks, Conflict(b)  PROVE OneAtATime'
  BY <1>16, ConflictChanges DEF OneAtATime
<1>17. ASSUME NEW b \in Blocks, HostLoads(b)  PROVE OneAtATime'
  BY <1>17, HostLoadsChanges DEF OneAtATime
<1>18. ASSUME NEW b \in Blocks, Loaded(b)  PROVE OneAtATime'
  BY <1>18, LoadedChanges DEF OneAtATime, Ended
<1>19. ASSUME NEW b \in Blocks, LoadFails(b)  PROVE OneAtATime'
  BY <1>19, LoadFailsChanges DEF OneAtATime
<1>20. ASSUME NEW b \in Blocks, OtherSaves(b)  PROVE OneAtATime'
  BY <1>20, OtherSavesChanges DEF OneAtATime
<1>21. ASSUME RetryDraft  PROVE OneAtATime'
  BY <1>21, RetryDraftChanges DEF OneAtATime
<1>22. ASSUME DiscardDraft  PROVE OneAtATime'
  BY <1>22, DiscardDraftChanges DEF OneAtATime
<1>23. ASSUME SelectDocument  PROVE OneAtATime'
  BY <1>23 DEF OneAtATime, SelectDocument
<1>24. ASSUME NEW kind \in Commands, Begin(kind)  PROVE OneAtATime'
  BY <1>24, BeginChanges DEF OneAtATime
<1>25. ASSUME Call  PROVE OneAtATime'
  BY <1>25, CallChanges DEF OneAtATime
<1>26. ASSUME HostRuns  PROVE OneAtATime'
  BY <1>26, HostRunsChanges DEF OneAtATime
<1>27. ASSUME Answered  PROVE OneAtATime'
  BY <1>27, AnsweredChanges DEF OneAtATime
<1>28. ASSUME EndCommand  PROVE OneAtATime'
  BY <1>28, EndCommandChanges DEF OneAtATime
<1> QED
  BY <1>10, <1>11, <1>12, <1>13, <1>14, <1>15, <1>16, <1>17, <1>18, <1>19,
     <1>20, <1>21, <1>22, <1>23, <1>24, <1>25, <1>26, <1>27, <1>28
  DEF AsNext, SaveGoesOn, CommandGoesOn

LEMMA JournalStep ==
    ASSUME AsTypeOK, AsTypeOK', JournalHasAll, AsNext
    PROVE  JournalHasAll'
<1>1. /\ \A b \in Blocks : save[b] = Resting <=> save[b].at = "resting"
      /\ \A b \in Blocks : save'[b] = Resting <=> save'[b].at = "resting"
  BY RestingIs DEF AsTypeOK
<1>10. ASSUME NEW b \in Blocks, Type(b)  PROVE JournalHasAll'
  BY <1>10, TypeChanges DEF JournalHasAll
<1>11. ASSUME NEW b \in Blocks, TimerFires(b)  PROVE JournalHasAll'
  BY <1>11, TimerFiresChanges DEF JournalHasAll
<1>12. ASSUME NEW b \in Blocks, HostSaves(b)  PROVE JournalHasAll'
  BY <1>12, HostSavesChanges DEF JournalHasAll
<1>13. ASSUME NEW b \in Blocks, Saved(b)  PROVE JournalHasAll'
  BY <1>13, SavedChanges DEF JournalHasAll
<1>14. ASSUME NEW b \in Blocks, Done(b)  PROVE JournalHasAll'
  BY <1>14, <1>1, DoneChanges DEF JournalHasAll, Ended
<1>15. ASSUME NEW b \in Blocks, Failed(b)  PROVE JournalHasAll'
  BY <1>15, FailedChanges DEF JournalHasAll
<1>16. ASSUME NEW b \in Blocks, Conflict(b)  PROVE JournalHasAll'
  BY <1>16, ConflictChanges DEF JournalHasAll
<1>17. ASSUME NEW b \in Blocks, HostLoads(b)  PROVE JournalHasAll'
  BY <1>17, HostLoadsChanges DEF JournalHasAll
<1>18. ASSUME NEW b \in Blocks, Loaded(b)  PROVE JournalHasAll'
  BY <1>18, <1>1, LoadedChanges DEF JournalHasAll, Ended
<1>19. ASSUME NEW b \in Blocks, LoadFails(b)  PROVE JournalHasAll'
  BY <1>19, <1>1, LoadFailsChanges DEF JournalHasAll
<1>20. ASSUME NEW b \in Blocks, OtherSaves(b)  PROVE JournalHasAll'
  BY <1>20, OtherSavesChanges DEF JournalHasAll
<1>21. ASSUME RetryDraft  PROVE JournalHasAll'
  BY <1>21, RetryDraftChanges DEF JournalHasAll, ReleasedOf
<1>22. ASSUME DiscardDraft  PROVE JournalHasAll'
  BY <1>22, DiscardDraftChanges DEF JournalHasAll, ReleasedOf
<1>23. ASSUME SelectDocument  PROVE JournalHasAll'
  BY <1>23 DEF JournalHasAll, SelectDocument
<1>24. ASSUME NEW kind \in Commands, Begin(kind)  PROVE JournalHasAll'
  BY <1>24, BeginChanges DEF JournalHasAll
<1>25. ASSUME Call  PROVE JournalHasAll'
  BY <1>25, CallChanges DEF JournalHasAll
<1>26. ASSUME HostRuns  PROVE JournalHasAll'
  BY <1>26, HostRunsChanges DEF JournalHasAll
<1>27. ASSUME Answered  PROVE JournalHasAll'
  BY <1>27, AnsweredChanges DEF JournalHasAll
<1>28. ASSUME EndCommand  PROVE JournalHasAll'
  BY <1>28, EndCommandChanges DEF JournalHasAll
<1> QED
  BY <1>10, <1>11, <1>12, <1>13, <1>14, <1>15, <1>16, <1>17, <1>18, <1>19,
     <1>20, <1>21, <1>22, <1>23, <1>24, <1>25, <1>26, <1>27, <1>28
  DEF AsNext, SaveGoesOn, CommandGoesOn

LEMMA WrittenStep ==
    ASSUME AsTypeOK, AsTypeOK', OnlyWritten, AsNext
    PROVE  OnlyWritten'
<1>1. /\ \A b \in Blocks : save[b] = Resting <=> save[b].at = "resting"
      /\ \A b \in Blocks : save'[b] = Resting <=> save'[b].at = "resting"
  BY RestingIs DEF AsTypeOK
<1>10. ASSUME NEW b \in Blocks, Type(b)  PROVE OnlyWritten'
  BY <1>10, TypeChanges DEF OnlyWritten
<1>11. ASSUME NEW b \in Blocks, TimerFires(b)  PROVE OnlyWritten'
  BY <1>11, TimerFiresChanges DEF OnlyWritten
<1>12. ASSUME NEW b \in Blocks, HostSaves(b)  PROVE OnlyWritten'
  BY <1>12, <1>1, HostSavesChanges DEF OnlyWritten
<1>13. ASSUME NEW b \in Blocks, Saved(b)  PROVE OnlyWritten'
  BY <1>13, <1>1, SavedChanges DEF OnlyWritten
<1>14. ASSUME NEW b \in Blocks, Done(b)  PROVE OnlyWritten'
  BY <1>14, DoneChanges DEF OnlyWritten, Ended
<1>15. ASSUME NEW b \in Blocks, Failed(b)  PROVE OnlyWritten'
  BY <1>15, <1>1, FailedChanges DEF OnlyWritten
<1>16. ASSUME NEW b \in Blocks, Conflict(b)  PROVE OnlyWritten'
  BY <1>16, <1>1, ConflictChanges DEF OnlyWritten
<1>17. ASSUME NEW b \in Blocks, HostLoads(b)  PROVE OnlyWritten'
  BY <1>17, <1>1, HostLoadsChanges DEF OnlyWritten
<1>18. ASSUME NEW b \in Blocks, Loaded(b)  PROVE OnlyWritten'
  BY <1>18, LoadedChanges DEF OnlyWritten, Ended
<1>19. ASSUME NEW b \in Blocks, LoadFails(b)  PROVE OnlyWritten'
  BY <1>19, LoadFailsChanges DEF OnlyWritten
<1>20. ASSUME NEW b \in Blocks, OtherSaves(b)  PROVE OnlyWritten'
  BY <1>20, OtherSavesChanges DEF OnlyWritten
<1>21. ASSUME RetryDraft  PROVE OnlyWritten'
  BY <1>21, RetryDraftChanges DEF OnlyWritten
<1>22. ASSUME DiscardDraft  PROVE OnlyWritten'
  BY <1>22, DiscardDraftChanges DEF OnlyWritten
<1>23. ASSUME SelectDocument  PROVE OnlyWritten'
  BY <1>23 DEF OnlyWritten, SelectDocument
<1>24. ASSUME NEW kind \in Commands, Begin(kind)  PROVE OnlyWritten'
  BY <1>24, BeginChanges DEF OnlyWritten
<1>25. ASSUME Call  PROVE OnlyWritten'
  BY <1>25, CallChanges DEF OnlyWritten
<1>26. ASSUME HostRuns  PROVE OnlyWritten'
  BY <1>26, HostRunsChanges DEF OnlyWritten
<1>27. ASSUME Answered  PROVE OnlyWritten'
  BY <1>27, AnsweredChanges DEF OnlyWritten
<1>28. ASSUME EndCommand  PROVE OnlyWritten'
  BY <1>28, EndCommandChanges DEF OnlyWritten
<1> QED
  BY <1>10, <1>11, <1>12, <1>13, <1>14, <1>15, <1>16, <1>17, <1>18, <1>19,
     <1>20, <1>21, <1>22, <1>23, <1>24, <1>25, <1>26, <1>27, <1>28
  DEF AsNext, SaveGoesOn, CommandGoesOn

LEMMA CheckpointStep ==
    ASSUME AsTypeOK, AsTypeOK', OnlyCheckpoints, AsNext
    PROVE  OnlyCheckpoints'
<1>10. ASSUME NEW b \in Blocks, Type(b)  PROVE OnlyCheckpoints'
  BY <1>10, TypeChanges DEF OnlyCheckpoints
<1>11. ASSUME NEW b \in Blocks, TimerFires(b)  PROVE OnlyCheckpoints'
  BY <1>11, TimerFiresChanges DEF OnlyCheckpoints
<1>12. ASSUME NEW b \in Blocks, HostSaves(b)  PROVE OnlyCheckpoints'
  BY <1>12, HostSavesChanges DEF OnlyCheckpoints
<1>13. ASSUME NEW b \in Blocks, Saved(b)  PROVE OnlyCheckpoints'
  BY <1>13, SavedChanges DEF OnlyCheckpoints
<1>14. ASSUME NEW b \in Blocks, Done(b)  PROVE OnlyCheckpoints'
  BY <1>14, DoneChanges DEF OnlyCheckpoints, Ended
<1>15. ASSUME NEW b \in Blocks, Failed(b)  PROVE OnlyCheckpoints'
  BY <1>15, FailedChanges DEF OnlyCheckpoints
<1>16. ASSUME NEW b \in Blocks, Conflict(b)  PROVE OnlyCheckpoints'
  BY <1>16, ConflictChanges DEF OnlyCheckpoints
<1>17. ASSUME NEW b \in Blocks, HostLoads(b)  PROVE OnlyCheckpoints'
  BY <1>17, HostLoadsChanges DEF OnlyCheckpoints
<1>18. ASSUME NEW b \in Blocks, Loaded(b)  PROVE OnlyCheckpoints'
  BY <1>18, LoadedChanges DEF OnlyCheckpoints, Ended
<1>19. ASSUME NEW b \in Blocks, LoadFails(b)  PROVE OnlyCheckpoints'
  BY <1>19, LoadFailsChanges DEF OnlyCheckpoints
<1>20. ASSUME NEW b \in Blocks, OtherSaves(b)  PROVE OnlyCheckpoints'
  BY <1>20, OtherSavesChanges DEF OnlyCheckpoints
<1>21. ASSUME RetryDraft  PROVE OnlyCheckpoints'
  BY <1>21, RetryDraftChanges DEF OnlyCheckpoints, ReleasedOf
<1>22. ASSUME DiscardDraft  PROVE OnlyCheckpoints'
  BY <1>22, DiscardDraftChanges DEF OnlyCheckpoints, ReleasedOf
<1>23. ASSUME SelectDocument  PROVE OnlyCheckpoints'
  BY <1>23 DEF OnlyCheckpoints, SelectDocument
<1>24. ASSUME NEW kind \in Commands, Begin(kind)  PROVE OnlyCheckpoints'
  BY <1>24, BeginChanges DEF OnlyCheckpoints, Commands
<1>25. ASSUME Call  PROVE OnlyCheckpoints'
  BY <1>25, CallChanges DEF OnlyCheckpoints
<1>26. ASSUME HostRuns  PROVE OnlyCheckpoints'
  BY <1>26, HostRunsChanges DEF OnlyCheckpoints
<1>27. ASSUME Answered  PROVE OnlyCheckpoints'
  BY <1>27, AnsweredChanges DEF OnlyCheckpoints
<1>28. ASSUME EndCommand  PROVE OnlyCheckpoints'
  BY <1>28, EndCommandChanges DEF OnlyCheckpoints
<1> QED
  BY <1>10, <1>11, <1>12, <1>13, <1>14, <1>15, <1>16, <1>17, <1>18, <1>19,
     <1>20, <1>21, <1>22, <1>23, <1>24, <1>25, <1>26, <1>27, <1>28
  DEF AsNext, SaveGoesOn, CommandGoesOn

LEMMA AloneStep ==
    ASSUME AsTypeOK, AsTypeOK', OnlyCheckpoints, RevisionsAgree, AsNext
    PROVE  RevisionsAgree'
<1>1. /\ \A b \in Blocks : save[b] = Resting <=> save[b].at = "resting"
      /\ \A b \in Blocks : save'[b] = Resting <=> save'[b].at = "resting"
  BY RestingIs DEF AsTypeOK
<1>10. ASSUME NEW b \in Blocks, Type(b)  PROVE RevisionsAgree'
  BY <1>10, TypeChanges DEF RevisionsAgree, Alone
<1>11. ASSUME NEW b \in Blocks, TimerFires(b)  PROVE RevisionsAgree'
  BY <1>11, <1>1, TimerFiresChanges DEF RevisionsAgree, Alone
<1>12. ASSUME NEW b \in Blocks, HostSaves(b)  PROVE RevisionsAgree'
  BY <1>12, HostSavesChanges DEF RevisionsAgree, Alone
<1>13. ASSUME NEW b \in Blocks, Saved(b)  PROVE RevisionsAgree'
  BY <1>13, SavedChanges DEF RevisionsAgree, Alone
<1>14. ASSUME NEW b \in Blocks, Done(b)  PROVE RevisionsAgree'
  BY <1>14, <1>1, DoneChanges DEF RevisionsAgree, Alone, Ended
<1>15. ASSUME NEW b \in Blocks, Failed(b)  PROVE RevisionsAgree'
  BY <1>15, FailedChanges DEF RevisionsAgree, Alone
<1>16. ASSUME NEW b \in Blocks, Conflict(b)  PROVE RevisionsAgree'
  BY <1>16, ConflictChanges DEF RevisionsAgree, Alone
<1>17. ASSUME NEW b \in Blocks, HostLoads(b)  PROVE RevisionsAgree'
  BY <1>17, HostLoadsChanges DEF RevisionsAgree, Alone
<1>18. ASSUME NEW b \in Blocks, Loaded(b)  PROVE RevisionsAgree'
  BY <1>18, LoadedChanges DEF RevisionsAgree, Alone
<1>19. ASSUME NEW b \in Blocks, LoadFails(b)  PROVE RevisionsAgree'
  BY <1>19, LoadFailsChanges DEF RevisionsAgree, Alone
<1>20. ASSUME NEW b \in Blocks, OtherSaves(b)  PROVE RevisionsAgree'
  BY <1>20, OtherSavesChanges DEF RevisionsAgree, Alone
<1>21. ASSUME RetryDraft  PROVE RevisionsAgree'
  BY <1>21, RetryDraftChanges DEF RevisionsAgree, Alone
<1>22. ASSUME DiscardDraft  PROVE RevisionsAgree'
  BY <1>22, DiscardDraftChanges DEF RevisionsAgree, Alone
<1>23. ASSUME SelectDocument  PROVE RevisionsAgree'
  BY <1>23 DEF RevisionsAgree, Alone, SelectDocument
<1>24. ASSUME NEW kind \in Commands, Begin(kind)  PROVE RevisionsAgree'
  BY <1>24, <1>1, BeginChanges DEF RevisionsAgree, Alone
<1>25. ASSUME Call  PROVE RevisionsAgree'
  BY <1>25, CallChanges DEF RevisionsAgree, Alone
<1>26. ASSUME HostRuns  PROVE RevisionsAgree'
  BY <1>26, HostRunsChanges DEF RevisionsAgree, Alone
<1>27. ASSUME Answered  PROVE RevisionsAgree'
  BY <1>27, AnsweredChanges DEF RevisionsAgree, Alone, OnlyCheckpoints
<1>28. ASSUME EndCommand  PROVE RevisionsAgree'
  BY <1>28, EndCommandChanges DEF RevisionsAgree, Alone
<1> QED
  BY <1>10, <1>11, <1>12, <1>13, <1>14, <1>15, <1>16, <1>17, <1>18, <1>19,
     <1>20, <1>21, <1>22, <1>23, <1>24, <1>25, <1>26, <1>27, <1>28
  DEF AsNext, SaveGoesOn, CommandGoesOn

\* Of the texts there are, none becomes the next one: the counter only grows.
LEMMA MadeStays ==
    ASSUME NEW n \in Nat, NEW text, Made(text, n)
    PROVE  Made(text, n + 1)
BY TypedIsBounded DEF Made

\* The text being typed is used up by being counted, and the other window's
\* texts are beyond all that are typed here.
LEMMA MadeNew ==
    ASSUME NEW n \in Nat
    PROVE  /\ Made(n + 1, n + 1)
           /\ \A text \in Nat : text > MaxTyped => Made(text, n)
BY TypedIsBounded DEF Made

LEMMA NewStep ==
    ASSUME AsTypeOK, AsTypeOK', JournalHasAll, NewTextIsNew, AsNext
    PROVE  NewTextIsNew'
<1>1. /\ \A b \in Blocks : save[b] = Resting <=> save[b].at = "resting"
      /\ \A b \in Blocks : save'[b] = Resting <=> save'[b].at = "resting"
  BY RestingIs DEF AsTypeOK
<1>2. /\ count.typed \in Nat
      /\ \A text : Made(text, count.typed) => Made(text, count.typed + 1)
      /\ Made(count.typed + 1, count.typed + 1)
      /\ \A text \in Nat : text > MaxTyped => Made(text, count.typed)
  BY MadeStays, MadeNew DEF AsTypeOK
<1>10. ASSUME NEW b \in Blocks, Type(b)  PROVE NewTextIsNew'
  BY <1>10, <1>2, TypeChanges DEF NewTextIsNew, JournalHasAll
<1>11. ASSUME NEW b \in Blocks, TimerFires(b)  PROVE NewTextIsNew'
  BY <1>11, TimerFiresChanges DEF NewTextIsNew
<1>12. ASSUME NEW b \in Blocks, HostSaves(b)  PROVE NewTextIsNew'
  BY <1>12, <1>1, HostSavesChanges DEF NewTextIsNew
<1>13. ASSUME NEW b \in Blocks, Saved(b)  PROVE NewTextIsNew'
  BY <1>13, <1>1, SavedChanges DEF NewTextIsNew
<1>14. ASSUME NEW b \in Blocks, Done(b)  PROVE NewTextIsNew'
  BY <1>14, DoneChanges DEF NewTextIsNew, Ended
<1>15. ASSUME NEW b \in Blocks, Failed(b)  PROVE NewTextIsNew'
  BY <1>15, <1>1, FailedChanges DEF NewTextIsNew
<1>16. ASSUME NEW b \in Blocks, Conflict(b)  PROVE NewTextIsNew'
  BY <1>16, <1>1, ConflictChanges DEF NewTextIsNew
<1>17. ASSUME NEW b \in Blocks, HostLoads(b)  PROVE NewTextIsNew'
  BY <1>17, <1>1, HostLoadsChanges DEF NewTextIsNew
<1>18. ASSUME NEW b \in Blocks, Loaded(b)  PROVE NewTextIsNew'
  BY <1>18, LoadedChanges DEF NewTextIsNew, Ended
<1>19. ASSUME NEW b \in Blocks, LoadFails(b)  PROVE NewTextIsNew'
  BY <1>19, LoadFailsChanges DEF NewTextIsNew
<1>20. ASSUME NEW b \in Blocks, OtherSaves(b)  PROVE NewTextIsNew'
  BY <1>20, <1>2, OtherSavesChanges DEF NewTextIsNew
<1>21. ASSUME RetryDraft  PROVE NewTextIsNew'
  BY <1>21, RetryDraftChanges DEF NewTextIsNew, ReleasedOf
<1>22. ASSUME DiscardDraft  PROVE NewTextIsNew'
  BY <1>22, DiscardDraftChanges DEF NewTextIsNew, ReleasedOf
<1>23. ASSUME SelectDocument  PROVE NewTextIsNew'
  BY <1>23 DEF NewTextIsNew, SelectDocument
<1>24. ASSUME NEW kind \in Commands, Begin(kind)  PROVE NewTextIsNew'
  BY <1>24, BeginChanges DEF NewTextIsNew
<1>25. ASSUME Call  PROVE NewTextIsNew'
  BY <1>25, CallChanges DEF NewTextIsNew
<1>26. ASSUME HostRuns  PROVE NewTextIsNew'
  BY <1>26, HostRunsChanges DEF NewTextIsNew
<1>27. ASSUME Answered  PROVE NewTextIsNew'
  BY <1>27, AnsweredChanges DEF NewTextIsNew
<1>28. ASSUME EndCommand  PROVE NewTextIsNew'
  BY <1>28, EndCommandChanges DEF NewTextIsNew
<1> QED
  BY <1>10, <1>11, <1>12, <1>13, <1>14, <1>15, <1>16, <1>17, <1>18, <1>19,
     <1>20, <1>21, <1>22, <1>23, <1>24, <1>25, <1>26, <1>27, <1>28
  DEF AsNext, SaveGoesOn, CommandGoesOn

\* In an orderly environment with another window the user writes one block.
LEMMA OneWriter ==
    ASSUME AsTypeOK, Orderly, env.shared # {}, NEW b \in env.written, NEW c \in env.written
    PROVE  b = c
<1>1. env.written \in SUBSET Blocks
  BY EnvironmentsAssumption DEF AsTypeOK, Environment
<1>2. IsFiniteSet(env.written) /\ Cardinality(env.written) \in Nat
  BY <1>1, BlocksAreFinite, FS_Subset, FS_CardinalityType
<1>3. Cardinality(env.written) = 0 \/ Cardinality(env.written) = 1
  BY <1>2 DEF Orderly
<1>4. CASE Cardinality(env.written) = 0
  BY <1>2, <1>4, FS_EmptySet
<1>5. CASE Cardinality(env.written) = 1
  BY <1>2, <1>5, FS_Singleton
<1> QED  BY <1>3, <1>4, <1>5

LEMMA NewestStep ==
    ASSUME AsTypeOK, AsTypeOK', OneAtATime, OnlyWritten, JournalHasAll, OnlyCheckpoints,
           RevisionsAgree, NewestIsKept, AsNext
    PROVE  NewestIsKept'
<1>1. /\ \A b \in Blocks : save[b] = Resting <=> save[b].at = "resting"
      /\ \A b \in Blocks : save'[b] = Resting <=> save'[b].at = "resting"
  BY RestingIs DEF AsTypeOK
<1>10. ASSUME NEW b \in Blocks, Type(b)  PROVE NewestIsKept'
  <2> SUFFICES ASSUME Orderly, NEW c \in Blocks
               PROVE  /\ save[c].at # "failed"
                      /\ pending'[c] # {} => typed'[c] \subseteq pending'[c]
                      /\ pending'[c] = {} /\ save[c] # Resting => typed'[c] \subseteq {save[c].text}
                      /\ pending'[c] = {} /\ save[c].at \in {"loading", "loaded"} =>
                            \A text \in typed'[c] : Drafted(c, text)
                      /\ pending'[c] = {} /\ save[c] = Resting =>
                            \A text \in typed'[c] : text \in journal[c] \/ Drafted(c, text)
    BY <1>10, TypeChanges DEF NewestIsKept, Orderly, Drafted
  <2>1. CASE c = b
    <3>1. PICK text : /\ typed'[b] = {text}
                      /\ \/ pending'[b] = {text}
                         \/ pending'[b] = {} /\ text = workspace[b].text /\ save[b] = Resting
      BY <1>10, TypeChanges
    <3>2. workspace[b].text \in journal[b]
      BY DEF JournalHasAll
    <3>3. save[b].at # "failed"
      BY DEF NewestIsKept
    <3> QED  BY <1>1, <2>1, <3>1, <3>2, <3>3
  <2>2. CASE c # b
    BY <1>10, <2>2, TypeChanges DEF NewestIsKept
  <2> QED  BY <2>1, <2>2
<1>11. ASSUME NEW b \in Blocks, TimerFires(b)  PROVE NewestIsKept'
  BY <1>11, <1>1, TimerFiresChanges DEF NewestIsKept, Orderly, OneAtATime, Drafted
<1>12. ASSUME NEW b \in Blocks, HostSaves(b)  PROVE NewestIsKept'
  BY <1>12, <1>1, HostSavesChanges DEF NewestIsKept, Orderly, Drafted
<1>13. ASSUME NEW b \in Blocks, Saved(b)  PROVE NewestIsKept'
  BY <1>13, <1>1, SavedChanges DEF NewestIsKept, Orderly, Drafted
<1>14. ASSUME NEW b \in Blocks, Done(b)  PROVE NewestIsKept'
  BY <1>14, <1>1, DoneChanges DEF NewestIsKept, Orderly, OneAtATime, JournalHasAll, Drafted, Ended
<1>15. ASSUME NEW b \in Blocks, Failed(b)  PROVE NewestIsKept'
  BY <1>15, FailedChanges DEF NewestIsKept, Orderly
<1>16. ASSUME NEW b \in Blocks, Conflict(b)  PROVE NewestIsKept'
  <2> SUFFICES ASSUME Orderly, NEW c \in Blocks
               PROVE  /\ save'[c].at # "failed"
                      /\ pending[c] # {} => typed[c] \subseteq pending[c]
                      /\ pending[c] = {} /\ save'[c] # Resting => typed[c] \subseteq {save'[c].text}
                      /\ pending[c] = {} /\ save'[c].at \in {"loading", "loaded"} =>
                            \A text \in typed[c] : Drafted(c, text)'
                      /\ pending[c] = {} /\ save'[c] = Resting =>
                            \A text \in typed[c] : text \in journal[c] \/ Drafted(c, text)'
    BY <1>16, ConflictChanges DEF NewestIsKept, Orderly
  <2>1. CASE c = b
    BY <1>1, <1>16, <2>1, ConflictChanges DEF NewestIsKept, Drafted
  <2>2. CASE c # b
    <3>1. env.shared # {}
      BY <1>16, ConflictChanges DEF Orderly, RevisionsAgree, Alone
    <3>2. b \in env.written
      BY <1>1, <1>16, ConflictChanges DEF OnlyWritten
    <3>3. c \notin env.written
      BY <2>2, <3>1, <3>2, OneWriter
    <3>4. typed[c] = {} /\ pending[c] = {} /\ save[c] = Resting /\ save'[c] = save[c]
      BY <1>16, <2>2, <3>3, ConflictChanges DEF OnlyWritten
    <3> QED  BY <1>1, <3>4
  <2> QED  BY <2>1, <2>2
<1>17. ASSUME NEW b \in Blocks, HostLoads(b)  PROVE NewestIsKept'
  BY <1>17, <1>1, HostLoadsChanges DEF NewestIsKept, Orderly, Drafted
<1>18. ASSUME NEW b \in Blocks, Loaded(b)  PROVE NewestIsKept'
  BY <1>18, <1>1, LoadedChanges DEF NewestIsKept, Orderly, OneAtATime, Drafted, Ended
<1>19. ASSUME NEW b \in Blocks, LoadFails(b)  PROVE NewestIsKept'
  BY <1>19, <1>1, LoadFailsChanges DEF NewestIsKept, Orderly, Drafted
<1>20. ASSUME NEW b \in Blocks, OtherSaves(b)  PROVE NewestIsKept'
  BY <1>20, OtherSavesChanges DEF NewestIsKept, Orderly, Drafted
<1>21. ASSUME RetryDraft  PROVE NewestIsKept'
  BY <1>21, <1>1, RetryDraftChanges
  DEF NewestIsKept, Orderly, OneAtATime, JournalHasAll, OnlyCheckpoints, Drafted
<1>22. ASSUME DiscardDraft  PROVE NewestIsKept'
  BY <1>22, DiscardDraftChanges DEF NewestIsKept, Orderly, OneAtATime, Drafted
<1>23. ASSUME SelectDocument  PROVE NewestIsKept'
  BY <1>23 DEF NewestIsKept, Orderly, SelectDocument
<1>24. ASSUME NEW kind \in Commands, Begin(kind)  PROVE NewestIsKept'
  BY <1>24, <1>1, BeginChanges DEF NewestIsKept, Orderly, OneAtATime, Drafted
<1>25. ASSUME Call  PROVE NewestIsKept'
  BY <1>25, CallChanges DEF NewestIsKept, Orderly, Drafted
<1>26. ASSUME HostRuns  PROVE NewestIsKept'
  BY <1>26, HostRunsChanges DEF NewestIsKept, Orderly, Drafted
<1>27. ASSUME Answered  PROVE NewestIsKept'
  BY <1>27, AnsweredChanges DEF NewestIsKept, Orderly, Drafted
<1>28. ASSUME EndCommand  PROVE NewestIsKept'
  BY <1>28, EndCommandChanges DEF NewestIsKept, Orderly, OnlyCheckpoints
<1> QED
  BY <1>10, <1>11, <1>12, <1>13, <1>14, <1>15, <1>16, <1>17, <1>18, <1>19,
     <1>20, <1>21, <1>22, <1>23, <1>24, <1>25, <1>26, <1>27, <1>28
  DEF AsNext, SaveGoesOn, CommandGoesOn

\* A text being typed for the first time is none the command is to see.
LEMMA TypedIsLater ==
    ASSUME AsTypeOK, NewTextIsNew, NEW b \in Blocks, command.at \in {"flushing", "called"},
           count.typed < MaxTyped
    PROVE  count.typed + 1 \notin command.typed[b]
<1>1. count.typed \in Nat
  BY DEF AsTypeOK
<1>2. count.typed + 1 \in (count.typed + 1)..MaxTyped
  BY <1>1, TypedIsBounded
<1> QED  BY <1>2 DEF NewTextIsNew, Made

LEMMA LaterStep ==
    ASSUME AsTypeOK, AsTypeOK', OneAtATime, JournalHasAll, NewTextIsNew, LaterTextsAreNew, AsNext
    PROVE  LaterTextsAreNew'
<1>1. /\ \A b \in Blocks : save[b] = Resting <=> save[b].at = "resting"
      /\ \A b \in Blocks : save'[b] = Resting <=> save'[b].at = "resting"
  BY RestingIs DEF AsTypeOK
<1>10. ASSUME NEW b \in Blocks, Type(b)  PROVE LaterTextsAreNew'
  <2> SUFFICES ASSUME NEW c \in Blocks,
                      \/ command.at = "flushing" /\ c \notin command.waits
                      \/ command.at = "called"
               PROVE  /\ \A text \in pending'[c] : LaterThanCommand(c, text)
                      /\ save[c] # Resting => LaterThanCommand(c, save[c].text)
                      /\ command.at = "called" =>
                            \A d \in draft : d.block = c => LaterThanCommand(c, d.text)
    BY <1>10, TypeChanges DEF LaterTextsAreNew, LaterThanCommand
  <2>1. c = b => \A text \in pending'[c] : LaterThanCommand(c, text)
    <3>1. count.typed + 1 \notin command.typed[c]
      BY <1>10, TypedIsLater DEF Type
    <3>2. workspace[c].text \in journal[c]
      BY DEF JournalHasAll
    <3>3. c = b => pending'[c] \subseteq {count.typed + 1, workspace[c].text}
      BY <1>10, TypeChanges
    <3> QED  BY <3>1, <3>2, <3>3 DEF LaterThanCommand
  <2>2. c # b => pending'[c] = pending[c]
    BY <1>10, TypeChanges
  <2> QED  BY <2>1, <2>2 DEF LaterTextsAreNew
<1>11. ASSUME NEW b \in Blocks, TimerFires(b)  PROVE LaterTextsAreNew'
  BY <1>11, TimerFiresChanges DEF LaterTextsAreNew, LaterThanCommand
<1>12. ASSUME NEW b \in Blocks, HostSaves(b)  PROVE LaterTextsAreNew'
  BY <1>12, <1>1, HostSavesChanges DEF LaterTextsAreNew, LaterThanCommand
<1>13. ASSUME NEW b \in Blocks, Saved(b)  PROVE LaterTextsAreNew'
  BY <1>13, <1>1, SavedChanges DEF LaterTextsAreNew, LaterThanCommand
<1>14. ASSUME NEW b \in Blocks, Done(b)  PROVE LaterTextsAreNew'
  BY <1>14, DoneChanges DEF LaterTextsAreNew, LaterThanCommand, Ended
<1>15. ASSUME NEW b \in Blocks, Failed(b)  PROVE LaterTextsAreNew'
  BY <1>15, <1>1, FailedChanges DEF LaterTextsAreNew, LaterThanCommand
<1>16. ASSUME NEW b \in Blocks, Conflict(b)  PROVE LaterTextsAreNew'
  BY <1>16, <1>1, ConflictChanges DEF LaterTextsAreNew, LaterThanCommand
<1>17. ASSUME NEW b \in Blocks, HostLoads(b)  PROVE LaterTextsAreNew'
  BY <1>17, <1>1, HostLoadsChanges DEF LaterTextsAreNew, LaterThanCommand
<1>18. ASSUME NEW b \in Blocks, Loaded(b)  PROVE LaterTextsAreNew'
  BY <1>18, LoadedChanges DEF LaterTextsAreNew, LaterThanCommand, Ended
<1>19. ASSUME NEW b \in Blocks, LoadFails(b)  PROVE LaterTextsAreNew'
  BY <1>19, LoadFailsChanges DEF LaterTextsAreNew, LaterThanCommand
<1>20. ASSUME NEW b \in Blocks, OtherSaves(b)  PROVE LaterTextsAreNew'
  BY <1>20, OtherSavesChanges DEF LaterTextsAreNew, LaterThanCommand
<1>21. ASSUME RetryDraft  PROVE LaterTextsAreNew'
  BY <1>21, RetryDraftChanges DEF LaterTextsAreNew, LaterThanCommand, ReleasedOf
<1>22. ASSUME DiscardDraft  PROVE LaterTextsAreNew'
  BY <1>22, DiscardDraftChanges DEF LaterTextsAreNew, LaterThanCommand, ReleasedOf
<1>23. ASSUME SelectDocument  PROVE LaterTextsAreNew'
  BY <1>23 DEF LaterTextsAreNew, LaterThanCommand, SelectDocument
<1>24. ASSUME NEW kind \in Commands, Begin(kind)  PROVE LaterTextsAreNew'
  BY <1>24, BeginChanges DEF LaterTextsAreNew, Unsaved
<1>25. ASSUME Call  PROVE LaterTextsAreNew'
  BY <1>25, CallChanges DEF LaterTextsAreNew, LaterThanCommand
<1>26. ASSUME HostRuns  PROVE LaterTextsAreNew'
  BY <1>26, HostRunsChanges DEF LaterTextsAreNew
<1>27. ASSUME Answered  PROVE LaterTextsAreNew'
  BY <1>27, AnsweredChanges DEF LaterTextsAreNew
<1>28. ASSUME EndCommand  PROVE LaterTextsAreNew'
  BY <1>28, EndCommandChanges DEF LaterTextsAreNew
<1> QED
  BY <1>10, <1>11, <1>12, <1>13, <1>14, <1>15, <1>16, <1>17, <1>18, <1>19,
     <1>20, <1>21, <1>22, <1>23, <1>24, <1>25, <1>26, <1>27, <1>28
  DEF AsNext, SaveGoesOn, CommandGoesOn

LEMMA FlushedStep ==
    ASSUME AsTypeOK, AsTypeOK', OneAtATime, OnlyWritten, JournalHasAll, NewTextIsNew,
           OnlyCheckpoints, RevisionsAgree, NewestIsKept, LaterTextsAreNew, FlushedIsKept, AsNext
    PROVE  FlushedIsKept'
<1>1. /\ \A b \in Blocks : save[b] = Resting <=> save[b].at = "resting"
      /\ \A b \in Blocks : save'[b] = Resting <=> save'[b].at = "resting"
  BY RestingIs DEF AsTypeOK
<1>10. ASSUME NEW b \in Blocks, Type(b)  PROVE FlushedIsKept'
  <2> SUFFICES ASSUME Orderly, NEW c \in Blocks
               PROVE  /\ command.at = "flushing" /\ c \notin command.waits =>
                            \A text \in command.typed[c] \cap typed'[c] : WaitedFor(c, text)'
                      /\ command.at = "called" => command.typed[c] \cap typed'[c] \subseteq journal[c]
    BY <1>10, TypeChanges DEF FlushedIsKept, Orderly
  <2>1. CASE c = b
    <3>1. PICK text : /\ text \in {count.typed + 1, workspace[b].text}
                      /\ typed'[b] = {text}
      BY <1>10, TypeChanges
    <3>2. text = workspace[b].text => text \in journal[b]
      BY DEF JournalHasAll
    <3>3. command.at \in {"flushing", "called"} /\ text = count.typed + 1 =>
             text \notin command.typed[b]
      BY <1>10, TypedIsLater DEF Type
    <3>4. journal' = journal
      BY <1>10, TypeChanges
    <3> QED  BY <2>1, <3>1, <3>2, <3>3, <3>4 DEF WaitedFor
  <2>2. CASE c # b
    BY <1>10, <2>2, TypeChanges DEF FlushedIsKept, WaitedFor, Drafted
  <2> QED  BY <2>1, <2>2
<1>11. ASSUME NEW b \in Blocks, TimerFires(b)  PROVE FlushedIsKept'
  BY <1>11, TimerFiresChanges DEF FlushedIsKept, Orderly, Drafted, WaitedFor
<1>12. ASSUME NEW b \in Blocks, HostSaves(b)  PROVE FlushedIsKept'
  BY <1>12, <1>1, HostSavesChanges DEF FlushedIsKept, Orderly, Drafted, WaitedFor
<1>13. ASSUME NEW b \in Blocks, Saved(b)  PROVE FlushedIsKept'
  BY <1>13, <1>1, SavedChanges DEF FlushedIsKept, Orderly, Drafted, WaitedFor
<1>14. ASSUME NEW b \in Blocks, Done(b)  PROVE FlushedIsKept'
  BY <1>14, DoneChanges
  DEF FlushedIsKept, Orderly, JournalHasAll, NewestIsKept, Drafted, WaitedFor, Ended
<1>15. ASSUME NEW b \in Blocks, Failed(b)  PROVE FlushedIsKept'
  BY <1>15, FailedChanges DEF FlushedIsKept, Orderly, NewestIsKept
<1>16. ASSUME NEW b \in Blocks, Conflict(b)  PROVE FlushedIsKept'
  <2> SUFFICES ASSUME Orderly, NEW c \in Blocks
               PROVE  /\ command.at = "flushing" /\ c \notin command.waits =>
                            \A text \in command.typed[c] \cap typed[c] : WaitedFor(c, text)'
                      /\ command.at = "called" => command.typed[c] \cap typed[c] \subseteq journal[c]
    BY <1>16, ConflictChanges DEF FlushedIsKept, Orderly
  <2>1. CASE c = b
    <3>1. \A text : WaitedFor(c, text) => text \in journal[c]
      BY <1>1, <1>16, <2>1, ConflictChanges DEF WaitedFor
    <3>2. journal' = journal
      BY <1>16, ConflictChanges
    <3> QED  BY <3>1, <3>2 DEF FlushedIsKept, WaitedFor
  <2>2. CASE c # b
    <3>1. env.shared # {}
      BY <1>16, ConflictChanges DEF Orderly, RevisionsAgree, Alone
    <3>2. b \in env.written
      BY <1>1, <1>16, ConflictChanges DEF OnlyWritten
    <3>3. typed[c] = {}
      BY <2>2, <3>1, <3>2, OneWriter DEF OnlyWritten
    <3> QED  BY <3>3
  <2> QED  BY <2>1, <2>2
<1>17. ASSUME NEW b \in Blocks, HostLoads(b)  PROVE FlushedIsKept'
  BY <1>17, <1>1, HostLoadsChanges DEF FlushedIsKept, Orderly, Drafted, WaitedFor
<1>18. ASSUME NEW b \in Blocks, Loaded(b)  PROVE FlushedIsKept'
  BY <1>18, LoadedChanges DEF FlushedIsKept, Orderly, NewestIsKept, Drafted, WaitedFor, Ended
<1>19. ASSUME NEW b \in Blocks, LoadFails(b)  PROVE FlushedIsKept'
  BY <1>19, LoadFailsChanges DEF FlushedIsKept, Orderly, Drafted, WaitedFor
<1>20. ASSUME NEW b \in Blocks, OtherSaves(b)  PROVE FlushedIsKept'
  BY <1>20, OtherSavesChanges DEF FlushedIsKept, Orderly, Drafted, WaitedFor
<1>21. ASSUME RetryDraft  PROVE FlushedIsKept'
  <2> SUFFICES ASSUME Orderly, NEW c \in Blocks
               PROVE  /\ command'.at = "flushing" /\ c \notin command'.waits =>
                            \A text \in command'.typed[c] \cap typed'[c] : WaitedFor(c, text)'
                      /\ command'.at = "called" =>
                            command'.typed[c] \cap typed'[c] \subseteq journal[c]
    BY <1>21, RetryDraftChanges DEF FlushedIsKept, Orderly
  <2>1. PICK d \in draft :
           /\ d.block \in Blocks
           /\ d = [block |-> d.block, text |-> d.text]
           /\ typed'[d.block] = {d.text}
           /\ \A e \in Blocks \ {d.block} : typed'[e] = typed[e] /\ pending'[e] = pending[e]
           /\ ReleasedOf(d.block)
    BY <1>21, RetryDraftChanges
  <2>2. draft = {d}
    BY DEF OneAtATime
  <2>3. UNCHANGED <<journal, save>>
    BY <1>21, RetryDraftChanges
  <2>4. CASE command.at = "flushing" /\ c = d.block
    BY <2>1, <2>4 DEF ReleasedOf
  <2>5. CASE command.at = "flushing" /\ c # d.block
    <3>1. \A text : ~Drafted(c, text)
      BY <2>1, <2>2, <2>5 DEF Drafted
    <3>2. c \notin command.waits => \A text \in command.typed[c] \cap typed[c] : text \in journal[c]
      BY <2>5, <3>1 DEF FlushedIsKept, WaitedFor
    <3> QED  BY <2>1, <2>3, <2>5, <3>2 DEF ReleasedOf, WaitedFor
  <2>6. CASE command.at # "flushing"
    <3>1. command' = command
      BY <2>1, <2>6 DEF ReleasedOf
    <3>2. command.at = "called" => LaterThanCommand(d.block, d.text)
      BY <2>1 DEF LaterTextsAreNew
    <3>3. CASE c = d.block
      BY <2>1, <2>3, <2>6, <3>1, <3>2, <3>3 DEF LaterThanCommand
    <3>4. CASE c # d.block
      BY <2>1, <2>3, <2>6, <3>1, <3>4 DEF FlushedIsKept
    <3> QED  BY <3>3, <3>4
  <2> QED  BY <2>4, <2>5, <2>6
<1>22. ASSUME DiscardDraft  PROVE FlushedIsKept'
  BY <1>22, DiscardDraftChanges
  DEF FlushedIsKept, Orderly, OneAtATime, Drafted, WaitedFor, ReleasedOf
<1>23. ASSUME SelectDocument  PROVE FlushedIsKept'
  BY <1>23 DEF FlushedIsKept, Orderly, SelectDocument
<1>24. ASSUME NEW kind \in Commands, Begin(kind)  PROVE FlushedIsKept'
  BY <1>24, BeginChanges DEF FlushedIsKept, Orderly, NewestIsKept, Drafted, WaitedFor, Unsaved
<1>25. ASSUME Call  PROVE FlushedIsKept'
  BY <1>25, CallChanges DEF FlushedIsKept, Orderly, Drafted, WaitedFor
<1>26. ASSUME HostRuns  PROVE FlushedIsKept'
  BY <1>26, HostRunsChanges DEF FlushedIsKept
<1>27. ASSUME Answered  PROVE FlushedIsKept'
  BY <1>27, AnsweredChanges DEF FlushedIsKept
<1>28. ASSUME EndCommand  PROVE FlushedIsKept'
  BY <1>28, EndCommandChanges DEF FlushedIsKept
<1> QED
  BY <1>10, <1>11, <1>12, <1>13, <1>14, <1>15, <1>16, <1>17, <1>18, <1>19,
     <1>20, <1>21, <1>22, <1>23, <1>24, <1>25, <1>26, <1>27, <1>28
  DEF AsNext, SaveGoesOn, CommandGoesOn
-----------------------------------------------------------------------------
(* The theorems *)

LEMMA InitAutosave == AsInit => AutosaveInvariant
<1> SUFFICES ASSUME AsInit  PROVE AutosaveInvariant
  OBVIOUS
<1>1. /\ NoCommand.at = "none" /\ Resting.at = "resting"
      /\ \A b \in Blocks : /\ stored[b] = [text |-> 0, rev |-> 0] /\ workspace[b] = stored[b]
                           /\ journal[b] = {0} /\ typed[b] = {} /\ pending[b] = {}
                           /\ save[b] = Resting
      /\ draft = {} /\ command = NoCommand /\ count.typed = 0
  BY DEF AsInit, NoCommand, Resting
<1>2. AsTypeOK
  BY SaveShapes, CommandShapes DEF AsInit, AsTypeOK, Versions
<1>3. OneAtATime /\ OnlyWritten /\ JournalHasAll
  BY <1>1 DEF OneAtATime, OnlyWritten, JournalHasAll
<1>4. NewTextIsNew
  BY <1>1 DEF NewTextIsNew, Made
<1>5. OnlyCheckpoints /\ RevisionsAgree
  BY <1>1 DEF OnlyCheckpoints, RevisionsAgree
<1>6. NewestIsKept /\ LaterTextsAreNew /\ FlushedIsKept
  BY <1>1 DEF NewestIsKept, LaterTextsAreNew, FlushedIsKept
<1> QED  BY <1>2, <1>3, <1>4, <1>5, <1>6 DEF AutosaveInvariant

LEMMA AutosaveStep ==
    ASSUME AutosaveInvariant, [AsNext]_asVars
    PROVE  AutosaveInvariant'
<1>1. CASE AsNext
  <2>1. AsTypeOK'
    BY <1>1, TypeStep DEF AutosaveInvariant
  <2> QED
    BY <1>1, <2>1, OneStep, JournalStep, WrittenStep, NewStep, CheckpointStep, AloneStep,
       NewestStep, LaterStep, FlushedStep
    DEF AutosaveInvariant
<1>2. CASE UNCHANGED asVars
  <2>1. UNCHANGED <<env, stored, journal, workspace, typed, pending, timer, save, draft,
                    command, count>>
    BY <1>2 DEF asVars
  <2>2. /\ AsTypeOK' = AsTypeOK /\ OneAtATime' = OneAtATime
        /\ JournalHasAll' = JournalHasAll /\ OnlyWritten' = OnlyWritten
    BY <2>1 DEF AsTypeOK, OneAtATime, JournalHasAll, OnlyWritten
  <2>3. /\ NewTextIsNew' = NewTextIsNew /\ OnlyCheckpoints' = OnlyCheckpoints
        /\ RevisionsAgree' = RevisionsAgree
    BY <2>1 DEF NewTextIsNew, OnlyCheckpoints, RevisionsAgree, Alone
  <2>4. /\ NewestIsKept' = NewestIsKept /\ LaterTextsAreNew' = LaterTextsAreNew
        /\ FlushedIsKept' = FlushedIsKept
    BY <2>1 DEF NewestIsKept, LaterTextsAreNew, LaterThanCommand, FlushedIsKept, WaitedFor,
                Drafted, Orderly
  <2> QED  BY <2>2, <2>3, <2>4 DEF AutosaveInvariant
<1> QED  BY <1>1, <1>2

\* The inductive invariant holds of every behaviour of the page, the host and the
\* other window.
THEOREM AutosaveInvariantHolds == AsSpec => []AutosaveInvariant
<1>1. AsInit => AutosaveInvariant
  BY InitAutosave
<1>2. AutosaveInvariant /\ [AsNext]_asVars => AutosaveInvariant'
  BY AutosaveStep
<1> QED  BY <1>1, <1>2, PTL DEF AsSpec

\* Every map and every call of the page keeps its shape.
THEOREM AutosaveTypeCorrect == AsSpec => []AsTypeOK
<1>1. AutosaveInvariant => AsTypeOK
  BY DEF AutosaveInvariant
<1> QED  BY <1>1, AutosaveInvariantHolds, PTL

\* What was typed last is in the journal or on its way there, or is offered as
\* the draft of a conflict, however many blocks, saves and loads interleave.
THEOREM TypedTextKept == AsSpec => []TypedTextIsKept
<1>1. AutosaveInvariant => TypedTextIsKept
  <2> SUFFICES ASSUME AutosaveInvariant, Orderly, NEW b \in Blocks, NEW text \in typed[b]
               PROVE  Kept(b, text)
    BY DEF TypedTextIsKept
  <2>1. CASE pending[b] # {}
    BY <2>1 DEF AutosaveInvariant, NewestIsKept, Kept
  <2>2. CASE pending[b] = {} /\ save[b] # Resting
    BY <2>2 DEF AutosaveInvariant, NewestIsKept, Kept
  <2>3. CASE pending[b] = {} /\ save[b] = Resting
    BY <2>3 DEF AutosaveInvariant, NewestIsKept, Kept, Drafted
  <2> QED  BY <2>1, <2>2, <2>3
<1> QED  BY <1>1, AutosaveInvariantHolds, PTL

\* A page alone on its project never meets a conflict: every save carries the
\* revision the host has.
THEOREM NeverConflictsWithItself == AsSpec => []NoConflictWithItself
<1>1. AutosaveInvariant => NoConflictWithItself
  BY DEF AutosaveInvariant, RevisionsAgree, Alone, NoConflictWithItself
<1> QED  BY <1>1, AutosaveInvariantHolds, PTL

\* A checkpoint is taken of everything that was typed before it was asked for.
THEOREM CheckpointSeesTyped == AsSpec => []CommandSeesWhatWasTyped
<1>1. AutosaveInvariant => CommandSeesWhatWasTyped
  BY DEF AutosaveInvariant, FlushedIsKept, CommandSeesWhatWasTyped
<1> QED  BY <1>1, AutosaveInvariantHolds, PTL

=============================================================================

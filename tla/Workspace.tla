----------------------------- MODULE Workspace ------------------------------
(***************************************************************************)
(* Host commands of several processes on one project database.             *)
(*                                                                         *)
(* A handler of optimizer-host/src/workspace_commands reads the project    *)
(* row, then the documents, then the blocks, each with a statement of its  *)
(* own and no transaction around them, computes the root hash of the state *)
(* it wants, and calls the store.  Within one desktop the session mutex    *)
(* keeps handlers apart; two processes that opened the same package are    *)
(* kept apart only by the head and the project revision the store compares *)
(* (ADR 0012).  Checkpoints and restores read nothing beforehand that may  *)
(* change.                                                                 *)
(***************************************************************************)
EXTENDS ProjectStore

CONSTANTS
    Processes,
    MaxShared    \* bound: commits up to which two handlers run at once

VARIABLES
    stage,   \* what each process's handler has read so far
    seen     \* what it read

wsVars == <<storeVars, stage, seen>>

Stages == {"idle", "project", "documents", "blocks"}

\* Between two commands a process remembers nothing.
Nothing == [head |-> 0, revision |-> 0, doc |-> << >>, block |-> << >>]

Forgets(p) == seen' = [seen EXCEPT ![p] = Nothing]

WsInit ==
    /\ PsInit
    /\ stage = [p \in Processes |-> "idle"]
    /\ seen = [p \in Processes |-> Nothing]

GoTo(p, from, to) == stage[p] = from /\ stage' = [stage EXCEPT ![p] = to]

ReadProject(p) ==
    /\ Len(commits) <= MaxShared \/ \A q \in Processes : stage[q] = "idle"
    /\ GoTo(p, "idle", "project")
    /\ seen' = [seen EXCEPT ![p].head = project.head, ![p].revision = project.revision]
    /\ UNCHANGED storeVars

ReadDocuments(p) ==
    /\ GoTo(p, "project", "documents")
    /\ seen' = [seen EXCEPT ![p].doc = doc]
    /\ UNCHANGED storeVars

ReadBlocks(p) ==
    /\ GoTo(p, "documents", "blocks")
    /\ seen' = [seen EXCEPT ![p].block = block]
    /\ UNCHANGED storeVars

\* The transaction of whichever command the handler is for.
Write(p) ==
    /\ GoTo(p, "blocks", "idle")
    /\ Change(seen[p])
    /\ Forgets(p)

\* The store found another head, and the command fails with a conflict.
Conflict(p) ==
    /\ GoTo(p, "blocks", "idle")
    /\ ~ExpectedHead(seen[p])
    /\ Forgets(p)
    /\ UNCHANGED storeVars

WsCheckpoint(p) == stage[p] = "idle" /\ Checkpoint /\ UNCHANGED <<stage, seen>>

WsRestore(p) == stage[p] = "idle" /\ Restore /\ UNCHANGED <<stage, seen>>

WsNext ==
    \E p \in Processes :
        \/ ReadProject(p)
        \/ ReadDocuments(p)
        \/ ReadBlocks(p)
        \/ Write(p)
        \/ Conflict(p)
        \/ WsCheckpoint(p)
        \/ WsRestore(p)

WsSpec == WsInit /\ [][WsNext]_wsVars

-----------------------------------------------------------------------------
(* Properties *)

WsTypeOK ==
    /\ PsTypeOK
    /\ stage \in [Processes -> Stages]
    /\ DOMAIN seen = Processes

=============================================================================

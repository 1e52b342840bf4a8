--------------------------- MODULE MCEventWorkflow ---------------------------
(***************************************************************************)
(* What becomes of an event in the server (EventWorkflow), and how a tab takes  *)
(* back what its user did to events (Undo), each on its own instance: a         *)
(* behaviour is one of them, and the variables of the other stay put.           *)
(***************************************************************************)
EXTENDS EventWorkflow

CONSTANTS Contents, MaxCalls, MaxStack, MaxActs

VARIABLES part, events, nextID, view, stack, calls, acts

U == INSTANCE Undo

ASSUME UndoAssumption == U!UndoAssumption

undoVars == <<events, nextID, view, stack, calls, acts>>

\* The variables of Undo when it is not looked at.
UndoIdle == /\ events = 0 /\ nextID = 0 /\ view = 0 /\ stack = 0 /\ calls = {} /\ acts = 0

\* Where EventWorkflow stays when it is not looked at.
WorkflowIdle == /\ event.text = CHOOSE t \in Texts : TRUE
                /\ event.start = CHOOSE s \in Starts : TRUE

MCInit == /\ part \in {"workflow", "undo"}
          /\ Init
          /\ IF part = "workflow" THEN UndoIdle ELSE U!Init /\ WorkflowIdle

MCNext == /\ \/ part = "workflow" /\ Next /\ UNCHANGED undoVars
             \/ part = "undo" /\ U!Next /\ UNCHANGED vars
          /\ UNCHANGED part

MCSpec == MCInit /\ [][MCNext]_<<part, vars, undoVars>>

\* Undo: what is undone leads back to what was there before the change; the server's
\* events, the tab's copy and the stack with its cap have their types.
UndoGoesBack == /\ U!UndoGoesBack
                /\ [](part = "undo" => U!TypeOK)
=============================================================================

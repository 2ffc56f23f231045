------------------------------- MODULE MCPlatform -------------------------------
(****************************************************************************)
(* One run over the platform as a whole, its starts, its updates and its    *)
(* library of tools, which share no state: the first state chooses the part *)
(* that moves, and the others stay as they are.                             *)
(****************************************************************************)
EXTENDS ServerInstances, ToolLibrary, UpdateHandoff

CONSTANTS
  x, y,  \* helpers
  Parts  \* of "servers", "update", "library"

\* One update at a time, of which everything may fail; one whose copies succeed and whose old
\* application can be moved; and a second hand-over while the first is under way.
Everything == {"copy", "aside", "place", "launch"}
Updates == {[helpers |-> {x}, failing |-> Everything],
            [helpers |-> {x}, failing |-> {"place", "launch"}],
            [helpers |-> {x, y}, failing |-> Everything]}

VARIABLE part

allVars == <<part, vars, updateVars, libraryVars>>

MCInit ==
  /\ part \in Parts /\ Init /\ LibraryInit /\ UpdateInit
  /\ part # "update" => trial = CHOOSE update \in Trials : TRUE

MCNext ==
  \/ part = "servers" /\ Next        /\ UNCHANGED <<part, updateVars, libraryVars>>
  \/ part = "update"  /\ UpdateNext  /\ UNCHANGED <<part, vars, libraryVars>>
  \/ part = "library" /\ LibraryNext /\ UNCHANGED <<part, vars, updateVars>>

\* The fairness of UpdateHandoff (see there).
OfUpdate(A) == part = "update" /\ A /\ UNCHANGED <<part, vars, libraryVars>>
MCSpec ==
  /\ MCInit /\ [][MCNext]_allVars
  /\ WF_allVars(OfUpdate(ShutDown)) /\ WF_allVars(OfUpdate(ExitPlatform))
  /\ \A h \in Helper : WF_allVars(OfUpdate(HelperStep(h)))
=============================================================================

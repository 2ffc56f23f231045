------------------------------- MODULE MCCatalog -------------------------------
(****************************************************************************)
(* One run over the catalog of devices and what is captured of one, which   *)
(* share no state: the first state chooses the part that moves, and the     *)
(* other stays as it is.                                                    *)
(****************************************************************************)
EXTENDS DeviceCatalog, ConfigCapture, TLC

CONSTANTS
  d1, d2, k1, k2, t1, t2, a1, a2,
  Parts  \* of "catalog", "captures"

Symmetry == Permutations({d1, d2}) \cup Permutations({k1, k2}) \cup Permutations({t1, t2})
              \cup Permutations({a1, a2})

\* Users who import two devices; who edit the address of a device under a queued task, and
\* replace a host or change a fingerprint; and who make two such changes.
Usual == {[file |-> {a1, a2}, allowed |-> {}, changes |-> 0],
          [file |-> {}, allowed |-> {"edit"}, changes |-> 1],
          [file |-> {}, allowed |-> {}, changes |-> 2]}
\* Users for the runs that show where a promise ends.
Moving    == {[file |-> {}, allowed |-> {"edit"}, changes |-> 0]}
Removing  == {[file |-> {}, allowed |-> {"remove"}, changes |-> 0]}
Forgetful == {[file |-> {}, allowed |-> {"stale"}, changes |-> 1]}

VARIABLE part

allVars == <<part, vars, captureVars>>

MCInit ==
  /\ part \in Parts /\ Init /\ CaptureInit
  /\ \/ part = "captures" /\ users = CHOOSE u \in Users : TRUE
     \/ /\ part = "catalog"
        /\ vault = [c \in Credential |-> NoPassword] /\ config = CHOOSE c \in Config : TRUE

MCNext ==
  \/ part = "catalog"  /\ Next        /\ UNCHANGED <<part, captureVars>>
  \/ part = "captures" /\ CaptureNext /\ UNCHANGED <<part, vars>>

MCSpec == MCInit /\ [][MCNext]_allVars

\* The scheduler looks at every queued task again and again.
MCFairSpec ==
  MCSpec /\ \A t \in Task : SF_allVars(part = "catalog" /\ Claim(t) /\ UNCHANGED <<part, captureVars>>)

\* What a task has seen stays with it: it keeps to the host whose key it has accepted, and no
\* evidence it has captured is replaced (SSHExecutor.connect, Catalog.capture).
SeenIsKept == HostStaysTheSame /\ EvidenceIsKept
=============================================================================

------------------------------ MODULE ToolLibrary ------------------------------
(****************************************************************************)
(* The library of tools on the platform, for one package, whose name is the *)
(* hash of its bytes: requests of several browser pages that import it, each*)
(* in a thread of its own, and a deployment that reads it.                  *)
(*                                                                          *)
(* A file is a name for an inode: an importer writes to the inode it opened *)
(* under whatever name that is by then.                                     *)
(****************************************************************************)
EXTENDS Naturals, FiniteSets

CONSTANTS
  Request, NoFile,
  Inode,        \* more than there are names and requests
  PackageWrites \* how many writes a package takes

ASSUME LibraryAssumption == NoFile \notin Inode /\ PackageWrites \in Nat \ {0}

VARIABLES
  request, \* pc of each import, the inode it has opened, and the parts it has written
  name,    \* the files <id>.tmp and <id>.zip
  data,    \* the parts of the package in each inode
  deploy   \* pc of the deployment, and the parts it took

libraryVars == <<request, name, data, deploy>>

Whole == 1..PackageWrites
Idle  == [pc |-> "idle", inode |-> NoFile, written |-> 0]

LibraryTypeOK ==
  /\ request \in [Request -> [pc : {"idle", "open", "write", "replace"},
                              inode : Inode \cup {NoFile}, written : 0..PackageWrites]]
  /\ name \in [{"tmp", "zip"} -> Inode \cup {NoFile}]
  /\ data \in [Inode -> SUBSET Whole]
  /\ deploy \in [pc : {"idle", "matched", "taken"}, parts : SUBSET Whole]

LibraryInit ==
  /\ request = [r \in Request |-> Idle]
  /\ name = [n \in {"tmp", "zip"} |-> NoFile]
  /\ data = [i \in Inode |-> {}]
  /\ deploy = [pc |-> "idle", parts |-> {}]

-----------------------------------------------------------------------------
(* import_zip, once the package has been checked.                            *)

\* A package that is there is not written again.
Begin(r) ==
  /\ request[r].pc = "idle" /\ name["zip"] = NoFile
  /\ request' = [request EXCEPT ![r].pc = "open"]
  /\ UNCHANGED <<name, data, deploy>>

Opened(i) == name["tmp"] = i \/ name["zip"] = i \/ \E r \in Request : request[r].inode = i

\* A temporary file that is there, of another request or a crash, is truncated.
Open(r) ==
  /\ request[r].pc = "open"
  /\ \E i \in Inode :
       /\ IF name["tmp"] = NoFile THEN ~Opened(i) ELSE i = name["tmp"]
       /\ name' = [name EXCEPT !["tmp"] = i]
       /\ data' = [data EXCEPT ![i] = {}]
       /\ request' = [request EXCEPT ![r] = [pc |-> "write", inode |-> i, written |-> 0]]
  /\ UNCHANGED deploy

Write(r) ==
  LET next == request[r].written + 1 IN
  /\ request[r].pc = "write"
  /\ data' = [data EXCEPT ![request[r].inode] = @ \cup {next}]
  /\ request' = [request EXCEPT ![r].written = next,
                                ![r].pc = IF next = PackageWrites THEN "replace" ELSE "write"]
  /\ UNCHANGED <<name, deploy>>

\* The disk is full, or the system does not rename a file another request has open.
Fails(r) ==
  /\ request[r].pc \in {"open", "write", "replace"} /\ request' = [request EXCEPT ![r] = Idle]
  /\ UNCHANGED <<name, data, deploy>>

\* Whoever comes second finds no temporary file and fails.
Replace(r) ==
  /\ request[r].pc = "replace" /\ request' = [request EXCEPT ![r] = Idle]
  /\ name' = IF name["tmp"] = NoFile THEN name
             ELSE [name EXCEPT !["zip"] = name["tmp"], !["tmp"] = NoFile]
  /\ UNCHANGED <<data, deploy>>

-----------------------------------------------------------------------------
(* deploy looks for the file by its hash and reads it again.                 *)

Match ==
  /\ deploy.pc = "idle" /\ name["zip"] # NoFile /\ data[name["zip"]] = Whole
  /\ deploy' = [deploy EXCEPT !.pc = "matched"]
  /\ UNCHANGED <<request, name, data>>

\* Mutant: what is read the second time is not inspected.
TakeUnread ==
  /\ deploy.pc = "matched" /\ deploy' = [pc |-> "taken", parts |-> data[name["zip"]]]
  /\ UNCHANGED <<request, name, data>>

\* An archive that is not whole is refused.
Take ==
  /\ deploy.pc = "matched"
  /\ deploy' = (IF data[name["zip"]] = Whole THEN [pc |-> "taken", parts |-> data[name["zip"]]]
                                             ELSE [pc |-> "idle", parts |-> {}])
  /\ UNCHANGED <<request, name, data>>

DeployEnds ==
  /\ deploy.pc = "taken" /\ deploy' = [pc |-> "idle", parts |-> {}]
  /\ UNCHANGED <<request, name, data>>

\* The platform stops in the middle of anything.
StopPlatform ==
  /\ request' = [r \in Request |-> Idle] /\ deploy' = [pc |-> "idle", parts |-> {}]
  /\ UNCHANGED <<name, data>>

LibraryNext ==
  \/ \E r \in Request : Begin(r) \/ Open(r) \/ Write(r) \/ Fails(r) \/ Replace(r)
  \/ Match \/ Take \/ DeployEnds \/ StopPlatform

LibrarySpec == LibraryInit /\ [][LibraryNext]_libraryVars

-----------------------------------------------------------------------------
(* Properties.                                                               *)

\* What the library holds under the hash of a package is that package (import_zip writes a
\* temporary file and renames it).
StoredIsWhole == name["zip"] # NoFile => data[name["zip"]] = Whole

\* What goes to a device has been read whole, whatever imports do meanwhile (deploy).
DeployedIsWhole == LibraryTypeOK /\ (deploy.pc = "taken" => deploy.parts = Whole)
=============================================================================

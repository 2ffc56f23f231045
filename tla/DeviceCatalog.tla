----------------------------- MODULE DeviceCatalog -----------------------------
(****************************************************************************)
(* The devices and environments of the catalog, edited while tasks of one   *)
(* device each are created, claimed and connect. A task works from the      *)
(* snapshot of its device; the host key it accepts is pinned in the row.    *)
(****************************************************************************)
EXTENDS Naturals

CONSTANTS
  Device, Address, Key, Environment, Task, None,
  Users  \* what users may do: the addresses of the devices in an environment file they
         \* import; what they do at inconvenient times, "edit" the address or "remove" the
         \* device a queued task names, save a "stale" form of a device in use as it is; and how
         \* many changes they make of a host or, by hand, of a fingerprint

ASSUME NoneAssumption == None \notin Device \cup Address \cup Key \cup Task
ASSUME UserAssumption ==
  Users \subseteq [file : SUBSET Address, allowed : SUBSET {"edit", "remove", "stale"}, changes : Nat]

VARIABLES
  users,     \* those of this run
  dev,       \* devices and device_settings: address and fingerprint
  ids,       \* identifiers given so far
  member,    \* the devices of each environment; none, if it does not exist
  task,      \* status, device, and the address and fingerprint in the snapshot
  owner,     \* reservations
  scheduler, \* does Runtime.loop run?
  form,      \* the device form that is open, with the fingerprint it shows
  import,    \* the import in progress: addresses to do, devices mapped, the one to register
  host,      \* the key of the host at each address
  trusted,   \* the key a task has last connected to
  revised,   \* tasks whose host's fingerprint the user has changed since, by hand
  changes

vars == <<users, dev, ids, member, task, owner, scheduler, form, import, host, trusted, revised, changes>>

NoDevice == [address |-> None, pin |-> None]
NoTask   == [status |-> "none", device |-> None, address |-> None, pin |-> None]
NoImport == [todo |-> {}, mapped |-> {}, new |-> None]
Known    == {d \in Device : dev[d].address # None}
Queued(d) == \E t \in Task : task[t].status = "queued" /\ task[t].device = d
Active(t) == task[t].status \in {"queued", "running"}

TypeOK ==
  /\ users \in Users
  /\ dev \in [Device -> [address : Address \cup {None}, pin : Key \cup {None}]]
  /\ ids \subseteq Device /\ member \in [Environment -> SUBSET Device]
  /\ task \in [Task -> [status : {"none", "queued", "running", "failed", "ended"},
                        device : Device \cup {None}, address : Address \cup {None},
                        pin : Key \cup {None}]]
  /\ owner \in [Device -> Task \cup {None}] /\ scheduler \in BOOLEAN
  /\ form \in {NoDevice} \cup [address : Device, pin : Key \cup {None}]
  /\ import \in [todo : SUBSET users.file, mapped : SUBSET Device, new : users.file \cup {None}]
  /\ host \in [Address -> Key] /\ trusted \in [Task -> Key \cup {None}] /\ revised \subseteq Task
  /\ changes \in 0..users.changes

Init ==
  /\ users \in Users
  /\ dev = [d \in Device |-> NoDevice] /\ ids = {} /\ member = [e \in Environment |-> {}]
  /\ task = [t \in Task |-> NoTask] /\ owner = [d \in Device |-> None] /\ scheduler = TRUE
  /\ form = NoDevice /\ import = NoImport /\ changes = 0
  /\ host \in [Address -> Key] /\ trusted = [t \in Task |-> None] /\ revised = {}

-----------------------------------------------------------------------------
(* Devices.                                                                  *)

\* What the field of the fingerprint holds, when the form showed another: typed, or cleared.
ByHand(pin, shown) ==
  /\ pin # shown => changes < users.changes
  /\ changes' = IF pin # shown THEN changes + 1 ELSE changes

Taken(address, d) == \E other \in Known \ {d} : dev[other].address = address
\* Mutant: the reservation is not looked at.
SaveAnyDevice(d, address, pin) ==
  /\ ~Taken(address, d)
  /\ dev' = [dev EXCEPT ![d] = [address |-> address, pin |-> pin]] /\ ids' = ids \cup {d}
\* save_device: a reserved device keeps its target, an address belongs to one device.
SaveDevice(d, address, pin) ==
  /\ owner[d] # None => dev[d].address = address
  /\ ~Taken(address, d)
  /\ dev' = [dev EXCEPT ![d] = [address |-> address, pin |-> pin]] /\ ids' = ids \cup {d}

AddDevice ==
  /\ \E d \in Device \ ids, address \in Address, pin \in Key \cup {None} :
       ByHand(pin, None) /\ SaveDevice(d, address, pin)
  /\ UNCHANGED <<users, member, task, owner, scheduler, form, import, host, trusted, revised>>

OpenForm ==
  /\ form = NoDevice /\ \E d \in Known : form' = [address |-> d, pin |-> dev[d].pin]
  /\ UNCHANGED <<users, dev, ids, member, task, owner, scheduler, import, host, trusted, revised, changes>>

\* The form sends what its field of the fingerprint holds, as shown or changed or cleared by the
\* user, also for a device in use; it may bring a deleted device back.
SaveForm ==
  LET d == form.address IN
  /\ form # NoDevice /\ form' = NoDevice
  /\ \E address \in Address, pin \in Key \cup {None} :
       /\ "edit" \in users.allowed \/ ~Queued(d) \/ address = dev[d].address
       /\ "stale" \in users.allowed \/ owner[d] = None \/ pin # form.pin \/ pin = dev[d].pin
       /\ ByHand(pin, form.pin) /\ SaveDevice(d, address, pin)
       /\ revised' = IF owner[d] # None /\ pin \notin {form.pin, dev[d].pin}
                     THEN revised \cup {owner[d]} ELSE revised
  /\ UNCHANGED <<users, member, task, owner, scheduler, import, host, trusted>>

\* Mutant: the environments are not looked at.
RemovableIfFree(d) == owner[d] = None
\* A queued task does not keep its device from being deleted.
Removable(d) == owner[d] = None /\ \A e \in Environment : d \notin member[e]
DeleteDevice ==
  /\ \E d \in Known :
       /\ Removable(d) /\ ("remove" \in users.allowed \/ ~Queued(d))
       /\ dev' = [dev EXCEPT ![d] = NoDevice]
  /\ UNCHANGED <<users, ids, member, task, owner, scheduler, form, import, host, trusted, revised, changes>>

-----------------------------------------------------------------------------
(* Environments.                                                             *)

SaveEnvironment ==
  /\ \E e \in Environment, devices \in SUBSET Known \ {{}} :
       member' = [member EXCEPT ![e] = devices]
  /\ UNCHANGED <<users, dev, ids, task, owner, scheduler, form, import, host, trusted, revised, changes>>

\* Tasks name one environment here, any: none may be deleted under an active task.
DeleteEnvironment ==
  /\ \A t \in Task : ~Active(t)
  /\ \E e \in Environment : member[e] # {} /\ member' = [member EXCEPT ![e] = {}]
  /\ UNCHANGED <<users, dev, ids, task, owner, scheduler, form, import, host, trusted, revised, changes>>

BeginImport ==
  /\ import = NoImport /\ users.file # {} /\ import' = [NoImport EXCEPT !.todo = users.file]
  /\ UNCHANGED <<users, dev, ids, member, task, owner, scheduler, form, host, trusted, revised, changes>>

\* import_environments reuses the device at an address or registers one, device by device.
ImportDevice ==
  /\ import.new = None
  /\ \E address \in import.todo :
       import' = IF \E d \in Known : dev[d].address = address
                 THEN [import EXCEPT !.todo = @ \ {address},
                                     !.mapped = @ \cup {d \in Known : dev[d].address = address}]
                 ELSE [import EXCEPT !.new = address]
  /\ UNCHANGED <<users, dev, ids, member, task, owner, scheduler, form, host, trusted, revised, changes>>

\* By save_device, after the look: an address taken meanwhile ends the import.
ImportSave ==
  /\ import.new # None
  /\ \E d \in Device \ ids :
       IF Taken(import.new, d)
       THEN import' = NoImport /\ UNCHANGED <<dev, ids>>
       ELSE /\ SaveDevice(d, import.new, None)
            /\ import' = [todo |-> import.todo \ {import.new},
                          mapped |-> import.mapped \cup {d}, new |-> None]
  /\ UNCHANGED <<users, member, task, owner, scheduler, form, host, trusted, revised, changes>>

\* Mutant: the devices mapped so far are taken to exist still.
ImportAny ==
  /\ import.todo = {} /\ import.mapped # {} /\ import' = NoImport
  /\ \E e \in Environment : member[e] = {} /\ member' = [member EXCEPT ![e] = import.mapped]
  /\ UNCHANGED <<users, dev, ids, task, owner, scheduler, form, host, trusted, revised, changes>>

\* Then the environment, which refuses a device that has been deleted meanwhile.
ImportEnvironment ==
  /\ import.todo = {} /\ import.mapped # {} /\ import' = NoImport
  /\ IF import.mapped \subseteq Known
     THEN \E e \in Environment : member[e] = {} /\ member' = [member EXCEPT ![e] = import.mapped]
     ELSE UNCHANGED member
  /\ UNCHANGED <<users, dev, ids, task, owner, scheduler, form, host, trusted, revised, changes>>

-----------------------------------------------------------------------------
(* Tasks.                                                                    *)

CreateTask ==
  /\ \E t \in Task, e \in Environment : \E d \in member[e] :
       /\ task[t].status = "none"
       /\ task' = [task EXCEPT ![t] = [status |-> "queued", device |-> d,
                                       address |-> dev[d].address, pin |-> dev[d].pin]]
  /\ UNCHANGED <<users, dev, ids, member, owner, scheduler, form, import, host, trusted, revised, changes>>

\* claim: a device that is gone violates a foreign key, which ends the scheduler's thread.
Claim(t) ==
  LET d == task[t].device IN
  /\ scheduler /\ task[t].status = "queued" /\ owner[d] = None
  /\ IF d \in Known
     THEN /\ owner' = [owner EXCEPT ![d] = t]
          /\ task' = [task EXCEPT ![t].status = "running"] /\ UNCHANGED scheduler
     ELSE scheduler' = FALSE /\ UNCHANGED <<owner, task>>
  /\ UNCHANGED <<users, dev, ids, member, form, import, host, trusted, revised, changes>>

\* Mutant: a device seen for the first time is not pinned.
PinNothing(d, key, fallback) ==
  /\ (IF dev[d].pin # None THEN dev[d].pin ELSE fallback) \in {None, key}
  /\ UNCHANGED dev
\* PinPolicy: the pinned key, or else the one in the snapshot; a first one is pinned.
Pin(d, key, fallback) ==
  /\ (IF dev[d].pin # None THEN dev[d].pin ELSE fallback) \in {None, key}
  /\ dev' = IF d \in Known /\ dev[d].pin = None THEN [dev EXCEPT ![d].pin = key] ELSE dev

\* A running task connects to the address of its snapshot; a refused key fails it.
Connect(t) ==
  LET d == task[t].device
      key == host[task[t].address] IN
  /\ task[t].status = "running"
  /\ \/ /\ Pin(d, key, task[t].pin) /\ trusted' = [trusted EXCEPT ![t] = key]
        /\ revised' = revised \ {t} /\ UNCHANGED task
     \/ /\ (IF dev[d].pin # None THEN dev[d].pin ELSE task[t].pin) \notin {None, key}
        /\ task' = [task EXCEPT ![t].status = "failed"] /\ UNCHANGED <<dev, trusted, revised>>
  /\ UNCHANGED <<users, ids, member, owner, scheduler, form, import, host, changes>>

\* /api/devices/probe connects to the address in the catalog.
Probe ==
  /\ \E d \in Known : Pin(d, host[dev[d].address], None)
  /\ UNCHANGED <<users, ids, member, task, owner, scheduler, form, import, host, trusted, revised, changes>>

\* A task finishes, or its scene is released.
End(t) ==
  /\ task[t].status \in {"running", "failed"}
  /\ task' = [task EXCEPT ![t].status = "ended"]
  /\ owner' = [d \in Device |-> IF owner[d] = t THEN None ELSE owner[d]]
  /\ UNCHANGED <<users, dev, ids, member, scheduler, form, import, host, trusted, revised, changes>>

\* Another host answers at an address.
ReplaceHost ==
  /\ changes < users.changes /\ changes' = changes + 1
  /\ \E a \in Address, k \in Key : host' = [host EXCEPT ![a] = k]
  /\ UNCHANGED <<users, dev, ids, member, task, owner, scheduler, form, import, trusted, revised>>

Next ==
  \/ AddDevice \/ OpenForm \/ SaveForm \/ DeleteDevice \/ SaveEnvironment \/ DeleteEnvironment
  \/ BeginImport \/ ImportDevice \/ ImportSave \/ ImportEnvironment
  \/ CreateTask \/ Probe \/ ReplaceHost
  \/ \E t \in Task : Claim(t) \/ Connect(t) \/ End(t)

Spec == Init /\ [][Next]_vars
\* The scheduler looks at every queued task again and again.
FairSpec == Spec /\ \A t \in Task : SF_vars(Claim(t))

-----------------------------------------------------------------------------
\* No environment names a device that does not exist, whatever is deleted while it is
\* edited or imported.
EnvironmentDevicesExist == \A e \in Environment : member[e] \subseteq Known

\* Two tasks that hold their devices never work at one address: reserving a device is
\* reserving the host a task connects to.
OneTaskPerHost ==
  \A t, u \in Task :
    (t # u /\ {task[t].status, task[u].status} \subseteq {"running", "failed"})
      => task[t].address # task[u].address

\* The type invariant and both of the above, the second while nobody edits the address of a
\* device a queued task names (save_device, delete_device, import_environments against
\* Runtime.loop).
CatalogIsConsistent ==
  TypeOK /\ EnvironmentDevicesExist /\ ("edit" \notin users.allowed => OneTaskPerHost)

\* A task never goes on with another host than the one it has connected to first, also
\* after a reboot: the key it has seen is pinned, and only the user's own change of the
\* fingerprint since the last connection lets another be seen (SSHExecutor.connect, save_device).
HostStaysTheSame ==
  [][\A t \in Task : trusted[t] # None /\ t \notin revised => trusted'[t] = trusted[t]]_vars

\* A task whose device is registered and free is not left in the queue for ever.
FreeDeviceIsClaimed ==
  \A t \in Task :
    []<>~(task[t].status = "queued" /\ task[t].device \in Known /\ owner[task[t].device] = None)
=============================================================================
